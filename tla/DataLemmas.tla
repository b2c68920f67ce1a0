----------------------------- MODULE DataLemmas -----------------------------
(***************************************************************************)
(* Facts about naturals, sequences and sums that the proofs about several  *)
(* components share.                                                       *)
(***************************************************************************)
EXTENDS Integers, SequencesExt, SequenceTheorems, FiniteSetTheorems, WellFoundedInduction, TLAPS

\* Every set of naturals that is not empty has a smallest element.
LEMMA Smallest ==
    ASSUME NEW T \in SUBSET Nat, T # {}
    PROVE  \E i \in T : \A j \in T : i <= j
<1> DEFINE R == {ss \in Nat \X Nat : ss[1] < ss[2]}
<1>1. IsWellFoundedOn(R, Nat)
  BY NatLessThanWellFounded, Zenon DEF OpToRel
<1> HIDE DEF R
<1>2. PICK i \in T : \A j \in T : ~ (<<j, i>> \in R)
  BY <1>1, WFMin, Zenon
<1>3. ASSUME NEW j \in T PROVE i <= j
  <2>1. ~ (<<j, i>> \in R) /\ i \in Nat /\ j \in Nat
    BY <1>2
  <2> QED
    BY <2>1 DEF R
<1> QED
  BY <1>3

\* A set with 0, and with n + 1 if it has n, has every natural number.
LEMMA AllNaturals ==
    ASSUME NEW P, 0 \in P, \A n \in Nat : n \in P => n + 1 \in P
    PROVE  \A n \in Nat : n \in P
<1> DEFINE bad == {n \in Nat : n \notin P}
<1> SUFFICES ASSUME bad # {} PROVE FALSE
  OBVIOUS
<1>1. bad \in SUBSET Nat
  OBVIOUS
<1> HIDE DEF bad
<1>2. PICK n \in bad : \A m \in bad : n <= m
  BY <1>1, Smallest
<1>3. n \in Nat /\ n # 0
  BY <1>1, <1>2 DEF bad
<1>4. n - 1 \in Nat /\ n - 1 \notin bad
  BY <1>2, <1>3
<1>5. n - 1 \in P /\ (n - 1) + 1 = n
  BY <1>3, <1>4 DEF bad
<1> QED
  BY <1>2, <1>4, <1>5 DEF bad

-----------------------------------------------------------------------------
(* Sequences.                                                              *)

\* What RemoveAt leaves of a sequence.
LEMMA Removed ==
    ASSUME NEW S, NEW s \in Seq(S), NEW i \in 1 .. Len(s)
    PROVE  /\ RemoveAt(s, i) \in Seq(S)
           /\ Len(RemoveAt(s, i)) = Len(s) - 1
           /\ \A j \in 1 .. Len(s) - 1 :
                RemoveAt(s, i)[j] = IF j < i THEN s[j] ELSE s[j + 1]
<1> DEFINE front == SubSeq(s, 1, i - 1)
           back == SubSeq(s, i + 1, Len(s))
<1>0. Len(s) \in Nat /\ i \in Nat
  OBVIOUS
<1>1. front \in Seq(S) /\ Len(front) = i - 1 /\ \A j \in 1 .. i - 1 : front[j] = s[j]
  <2>1. \A j \in 1 .. i - 1 : s[j] \in S
    BY <1>0, ElementOfSeq
  <2> QED
    BY <1>0, <2>1, SubSeqProperties
<1>2. back \in Seq(S) /\ Len(back) = Len(s) - i
      /\ \A j \in 1 .. Len(s) - i : back[j] = s[i + j]
  <2>1. \A j \in i + 1 .. Len(s) : s[j] \in S
    BY <1>0, ElementOfSeq
  <2> QED
    BY <1>0, <2>1, SubSeqProperties
<1> HIDE DEF front, back
<1>3. /\ front \o back \in Seq(S)
      /\ Len(front \o back) = Len(s) - 1
      /\ \A j \in 1 .. Len(s) - 1 :
            (front \o back)[j] = IF j <= i - 1 THEN front[j] ELSE back[j - (i - 1)]
  <2>1. /\ front \o back \in Seq(S)
        /\ Len(front \o back) = Len(front) + Len(back)
        /\ \A j \in 1 .. Len(front) + Len(back) :
              (front \o back)[j] = IF j <= Len(front) THEN front[j] ELSE back[j - Len(front)]
    BY <1>1, <1>2, ConcatProperties, Zenon
  <2>2. Len(front) = i - 1 /\ Len(back) = Len(s) - i /\ Len(front) + Len(back) = Len(s) - 1
    BY <1>0, <1>1, <1>2
  <2> QED
    BY <2>1, <2>2
<1>4. ASSUME NEW j \in 1 .. Len(s) - 1
      PROVE  (front \o back)[j] = IF j < i THEN s[j] ELSE s[j + 1]
  <2>1. CASE j < i
    BY <1>0, <1>1, <1>3, <2>1
  <2>2. CASE ~(j < i)
    <3>1. j - (i - 1) \in 1 .. Len(s) - i /\ i + (j - (i - 1)) = j + 1
      BY <1>0, <2>2
    <3>2. back[j - (i - 1)] = s[j + 1]
      BY <1>2, <3>1
    <3> QED
      BY <1>0, <1>3, <2>2, <3>2
  <2> QED
    BY <2>1, <2>2
<1> QED
  BY <1>3, <1>4 DEF RemoveAt, front, back

\* A sequence is what is before a place, the item there, and what is behind it.
LEMMA CutAt ==
    ASSUME NEW S, NEW s \in Seq(S), NEW k \in 1 .. Len(s)
    PROVE  /\ SubSeq(s, 1, k - 1) \in Seq(S) /\ Len(SubSeq(s, 1, k - 1)) = k - 1
           /\ \A i \in 1 .. k - 1 : SubSeq(s, 1, k - 1)[i] = s[i]
           /\ SubSeq(s, k + 1, Len(s)) \in Seq(S)
           /\ s = (SubSeq(s, 1, k - 1) \o <<s[k]>>) \o SubSeq(s, k + 1, Len(s))
<1>0. Len(s) \in Nat /\ k \in Nat
  OBVIOUS
<1>1. /\ SubSeq(s, 1, k - 1) \in Seq(S) /\ Len(SubSeq(s, 1, k - 1)) = k - 1
      /\ \A i \in 1 .. k - 1 : SubSeq(s, 1, k - 1)[i] = s[i]
  <2>1. \A j \in 1 .. k - 1 : s[j] \in S
    BY <1>0, ElementOfSeq
  <2> QED
    BY <1>0, <2>1, SubSeqProperties
<1>2. SubSeq(s, k + 1, Len(s)) \in Seq(S)
  <2>1. \A j \in k + 1 .. Len(s) : s[j] \in S
    BY <1>0, ElementOfSeq
  <2> QED
    BY <1>0, <2>1, SubSeqProperties
<1>3. SubSeq(s, 1, k) = SubSeq(s, 1, k - 1) \o <<s[k]>>
  BY <1>0, SubSeqRecursiveSecond
<1>4. SubSeq(s, 1, k) \o SubSeq(s, k + 1, Len(s)) = SubSeq(s, 1, Len(s))
  BY <1>0, ConcatAdjacentSubSeq
<1>5. SubSeq(s, 1, Len(s)) = s
  BY SubSeqFull
<1> QED
  BY <1>1, <1>2, <1>3, <1>4, <1>5

\* Joining, by a name of its own: the provers do not look into it.
Join(s, t) == s \o t

LEMMA JoinType == \A S : \A s, t \in Seq(S) : Join(s, t) \in Seq(S)
  BY ConcatProperties DEF Join

LEMMA JoinAt ==
    \A S : \A s, t \in Seq(S) :
        /\ Len(Join(s, t)) = Len(s) + Len(t)
        /\ \A i \in 1 .. Len(s) + Len(t) :
              Join(s, t)[i] = IF i <= Len(s) THEN s[i] ELSE t[i - Len(s)]
  BY ConcatProperties DEF Join

LEMMA JoinAssociates ==
    \A S : \A s, t, u \in Seq(S) : Join(Join(s, t), u) = Join(s, Join(t, u))
  BY ConcatAssociative DEF Join

LEMMA JoinEmpty == \A S : \A s \in Seq(S) : Join(s, <<>>) = s
  BY ConcatEmptySeq DEF Join

LEMMA JoinLast == \A S : \A s \in Seq(S), x \in S : Append(s, x) = Join(s, <<x>>)
  BY AppendIsConcat DEF Join

\* A record, of a part p kept before and a part a, goes with the item that ends
\* it from the text behind s into s.
LEMMA Regroup ==
    ASSUME NEW S, NEW s \in Seq(S), NEW p \in Seq(S), NEW a \in Seq(S), NEW b \in Seq(S),
           NEW x \in S
    PROVE  Join(Append(Join(s, Join(p, a)), x), b)
                = Join(Join(s, p), Join(Join(a, <<x>>), b))
<1>1. <<x>> \in Seq(S)
  OBVIOUS
<1>2. Join(s, p) \in Seq(S) /\ Join(Join(s, p), a) \in Seq(S) /\ Join(a, <<x>>) \in Seq(S)
  BY <1>1, JoinType
<1>3. Join(s, Join(p, a)) = Join(Join(s, p), a)
  BY JoinAssociates
<1>4. Append(Join(Join(s, p), a), x) = Join(Join(Join(s, p), a), <<x>>)
  BY <1>2, JoinLast
<1>5. Join(Join(Join(s, p), a), <<x>>) = Join(Join(s, p), Join(a, <<x>>))
  <2> DEFINE one == <<x>>
  <2>1. one \in Seq(S)
    BY <1>1
  <2> HIDE DEF one
  <2>2. Join(Join(Join(s, p), a), one) = Join(Join(s, p), Join(a, one))
    BY <1>2, <2>1, JoinAssociates
  <2> QED
    BY <2>2 DEF one
<1>6. Join(Join(Join(s, p), Join(a, <<x>>)), b) = Join(Join(s, p), Join(Join(a, <<x>>), b))
  BY <1>2, JoinAssociates
<1> QED
  BY <1>3, <1>4, <1>5, <1>6

\* Where the g-th sequence begins in the concatenation of all.
Starts(seqs, flat, start) ==
    /\ start \in [1 .. Len(seqs) + 1 -> Nat]
    /\ start[1] = 0
    /\ \A g \in 1 .. Len(seqs) : start[g + 1] = start[g] + Len(seqs[g])
    /\ Len(flat) = start[Len(seqs) + 1]
    /\ \A g \in 1 .. Len(seqs) + 1 : start[g] <= Len(flat)
    /\ \A g \in 1 .. Len(seqs) : \A k \in 1 .. Len(seqs[g]) : flat[start[g] + k] = seqs[g][k]

\* Putting one more sequence behind.
LEMMA StartsMore ==
    ASSUME NEW S, NEW n \in Nat, NEW seqs, Len(seqs) = n, NEW more, Len(more) = n + 1,
           \A g \in 1 .. n : more[g] = seqs[g] /\ seqs[g] \in Seq(S),
           NEW flat \in Seq(S), NEW start, Starts(seqs, flat, start),
           more[n + 1] \in Seq(S)
    PROVE  \E s : Starts(more, flat \o more[n + 1], s)
<1> DEFINE last == more[n + 1]
           all == flat \o last
           s == [g \in 1 .. n + 2 |-> IF g = n + 2 THEN start[n + 1] + Len(last) ELSE start[g]]
<1>1. /\ start \in [1 .. n + 1 -> Nat]
      /\ start[1] = 0
      /\ \A g \in 1 .. n : start[g + 1] = start[g] + Len(seqs[g])
      /\ Len(flat) = start[n + 1]
      /\ \A g \in 1 .. n + 1 : start[g] <= Len(flat)
      /\ \A g \in 1 .. n : \A k \in 1 .. Len(seqs[g]) : flat[start[g] + k] = seqs[g][k]
  BY DEF Starts
<1>2. last \in Seq(S) /\ Len(last) \in Nat
  OBVIOUS
<1> HIDE DEF last
<1>3. /\ all \in Seq(S) /\ Len(all) = Len(flat) + Len(last)
      /\ \A k \in 1 .. Len(flat) : all[k] = flat[k]
      /\ \A k \in 1 .. Len(last) : all[Len(flat) + k] = last[k]
  <2>1. \A k \in 1 .. Len(flat) + Len(last) :
            all[k] = IF k <= Len(flat) THEN flat[k] ELSE last[k - Len(flat)]
    BY <1>2, ConcatProperties
  <2>2. \A k \in 1 .. Len(last) : /\ Len(flat) + k \in 1 .. Len(flat) + Len(last)
                                  /\ ~(Len(flat) + k <= Len(flat))
                                  /\ (Len(flat) + k) - Len(flat) = k
    BY <1>2
  <2> QED
    BY <1>2, <2>1, <2>2, ConcatProperties
<1> HIDE DEF all
<1>4. /\ s \in [1 .. n + 2 -> Nat]
      /\ s[1] = 0
      /\ \A g \in 1 .. n + 1 : s[g] = start[g]
      /\ s[n + 2] = Len(all)
  BY <1>1, <1>2, <1>3
<1> HIDE DEF s
<1>5. \A g \in 1 .. n + 1 : s[g + 1] = s[g] + Len(more[g])
  <2>1. \A g \in 1 .. n : s[g + 1] = s[g] + Len(more[g])
    BY <1>1, <1>4
  <2>2. s[(n + 1) + 1] = s[n + 1] + Len(more[n + 1])
    BY <1>1, <1>2, <1>3, <1>4 DEF last
  <2> QED
    BY <2>1, <2>2
<1>6. \A g \in 1 .. n + 2 : s[g] <= Len(all)
  <2>1. Len(flat) \in Nat /\ Len(all) \in Nat /\ Len(flat) <= Len(all)
    BY <1>2, <1>3
  <2>2. \A g \in 1 .. n + 1 : start[g] \in Nat /\ start[g] <= Len(flat)
    BY <1>1
  <2>3. ASSUME NEW g \in 1 .. n + 1 PROVE s[g] <= Len(all)
    <3>1. s[g] = start[g]
      BY <1>4
    <3> QED
      BY <2>1, <2>2, <3>1
  <2> QED
    BY <1>4, <2>1, <2>3
<1>7. ASSUME NEW g \in 1 .. n + 1, NEW k \in 1 .. Len(more[g])
      PROVE  all[s[g] + k] = more[g][k]
  <2>1. CASE g = n + 1
    BY <1>1, <1>3, <1>4, <1>7, <2>1 DEF last
  <2>2. CASE g # n + 1
    <3>1. g \in 1 .. n /\ g + 1 \in 1 .. n + 1 /\ k \in 1 .. Len(seqs[g])
      BY <1>7, <2>2
    <3>2. start[g] + k \in 1 .. Len(flat)
      <4>1. start[g + 1] = start[g] + Len(seqs[g]) /\ start[g + 1] <= Len(flat)
        BY <1>1, <3>1
      <4>2. start[g] \in Nat /\ Len(seqs[g]) \in Nat /\ Len(flat) \in Nat
        BY <1>1, <3>1
      <4> DEFINE a == start[g]
                 m == Len(seqs[g])
                 z == Len(flat)
      <4>3. a \in Nat /\ m \in Nat /\ z \in Nat /\ a + m <= z /\ k \in 1 .. m
        BY <3>1, <4>1, <4>2
      <4> HIDE DEF a, m, z
      <4>4. a + k \in 1 .. z
        BY <4>3
      <4> QED
        BY <4>4 DEF a, z
    <3>3. all[start[g] + k] = flat[start[g] + k]
      BY <1>3, <3>2
    <3>4. flat[start[g] + k] = seqs[g][k] /\ s[g] = start[g] /\ more[g] = seqs[g]
      BY <1>1, <1>4, <3>1
    <3> QED
      BY <3>3, <3>4
  <2> QED
    BY <2>1, <2>2
<1>8. (n + 1) + 1 = n + 2
  OBVIOUS
<1>9. \A g \in 1 .. Len(more) : \A k \in 1 .. Len(more[g]) : all[s[g] + k] = more[g][k]
  BY <1>7
<1>10. Starts(more, all, s)
  BY <1>4, <1>5, <1>6, <1>8, <1>9 DEF Starts
<1> QED
  BY <1>10 DEF all, last

\* FlattenSeq is what its recursion says, for there is such a function.
LEMMA FlattenBySteps ==
    ASSUME NEW seqs, Len(seqs) \in Nat \ {0}
    PROVE  \E f : /\ FlattenSeq(seqs) = f[Len(seqs)]
                  /\ f[1] = seqs[1]
                  /\ \A n \in 2 .. Len(seqs) : f[n] = f[n - 1] \o seqs[n]
<1> DEFINE F(h, n) == IF n = 1 THEN seqs[n] ELSE h[n - 1] \o seqs[n]
           Upto(h, n) == \A k \in 1 .. n : h[k] = F(h, k)
           Found(h) == h = [n \in 1 .. Len(seqs) |-> F(h, n)]
           P == {n \in Nat : \E h : Upto(h, n)}
<1>1. \E h : Upto(h, 0)
  OBVIOUS
<1>2. ASSUME NEW n \in Nat, NEW h, Upto(h, n) PROVE \E g : Upto(g, n + 1)
  <2> DEFINE g == [k \in 1 .. n + 1 |-> F(h, k)]
  <2>1. \A k \in 1 .. n : g[k] = h[k]
    BY <1>2
  <2>2. \A k \in 1 .. n + 1 : g[k] = F(h, k)
    OBVIOUS
  <2> HIDE DEF g
  <2>3. ASSUME NEW k \in 1 .. n + 1 PROVE g[k] = F(g, k)
    <3>1. CASE k = 1
      BY <2>2, <3>1
    <3>2. CASE k # 1
      <4>1. k - 1 \in 1 .. n
        BY <3>2
      <4> QED
        BY <2>1, <2>2, <3>2, <4>1
    <3> QED
      BY <3>1, <3>2
  <2> QED
    BY <2>3
<1>3. \E h : Upto(h, Len(seqs))
  <2> HIDE DEF Upto
  <2>1. 0 \in P
    BY <1>1
  <2>2. \A n \in Nat : n \in P => n + 1 \in P
    BY <1>2
  <2> HIDE DEF P
  <2>3. Len(seqs) \in P
    BY <2>1, <2>2, AllNaturals
  <2> QED
    BY <2>3 DEF P
<1>4. \E h : Found(h)
  <2>1. PICK h : Upto(h, Len(seqs))
    BY <1>3
  <2> DEFINE g == [k \in 1 .. Len(seqs) |-> h[k]]
  <2>2. ASSUME NEW k \in 1 .. Len(seqs) PROVE g[k] = F(g, k)
    <3>1. CASE k = 1
      BY <2>1, <3>1
    <3>2. CASE k # 1
      <4>1. k - 1 \in 1 .. Len(seqs)
        BY <3>2
      <4> QED
        BY <2>1, <3>2, <4>1
    <3> QED
      BY <3>1, <3>2
  <2>3. g = [n \in 1 .. Len(seqs) |-> F(g, n)]
    BY <2>2
  <2> HIDE DEF g
  <2> QED
    BY <2>3
<1> DEFINE f == CHOOSE h : Found(h)
<1>5. Found(f)
  BY <1>4
<1>6. FlattenSeq(seqs) = f[Len(seqs)]
  BY DEF FlattenSeq
<1> HIDE DEF f
<1>7. \A n \in 1 .. Len(seqs) : f[n] = F(f, n)
  BY <1>5
<1>8. f[1] = seqs[1] /\ \A n \in 2 .. Len(seqs) : f[n] = f[n - 1] \o seqs[n]
  <2>1. f[1] = seqs[1]
    BY <1>7
  <2>2. ASSUME NEW n \in 2 .. Len(seqs) PROVE f[n] = f[n - 1] \o seqs[n]
    <3>1. n \in 1 .. Len(seqs) /\ n # 1
      OBVIOUS
    <3> QED
      BY <1>7, <3>1, Zenon
  <2> QED
    BY <2>1, <2>2
<1> QED
  BY <1>6, <1>8

\* Every element of every sequence has its place in what FlattenSeq returns.
LEMMA FlattenStarts ==
    ASSUME NEW S, NEW seqs \in Seq(Seq(S))
    PROVE  /\ FlattenSeq(seqs) \in Seq(S)
           /\ \E start : Starts(seqs, FlattenSeq(seqs), start)
<1> DEFINE first(n) == [g \in 1 .. n |-> seqs[g]]
<1>0. Len(seqs) \in Nat /\ seqs = first(Len(seqs)) /\ \A g \in 1 .. Len(seqs) : seqs[g] \in Seq(S)
  OBVIOUS
<1>1. CASE Len(seqs) = 0
  <2>1. FlattenSeq(seqs) = <<>> /\ seqs = <<>>
    BY <1>1 DEF FlattenSeq
  <2> DEFINE start == [g \in 1 .. 1 |-> 0]
  <2>2. Starts(seqs, <<>>, start)
    BY <2>1 DEF Starts
  <2> HIDE DEF start
  <2> QED
    BY <2>1, <2>2
<1>2. CASE Len(seqs) # 0
  <2>1. PICK f : /\ FlattenSeq(seqs) = f[Len(seqs)]
                 /\ f[1] = seqs[1]
                 /\ \A n \in 2 .. Len(seqs) : f[n] = f[n - 1] \o seqs[n]
    BY <1>0, <1>2, FlattenBySteps
  <2> DEFINE Placed(m) == f[m] \in Seq(S) /\ \E start : Starts(first(m), f[m], start)
             P == {n \in Nat : n + 1 <= Len(seqs) => Placed(n + 1)}
  <2>2. 0 \in P
    <3> DEFINE start == [g \in 1 .. 2 |-> IF g = 1 THEN 0 ELSE Len(seqs[1])]
               one == first(1)
    <3>1. Len(one) = 1 /\ one[1] = seqs[1] /\ f[1] = seqs[1] /\ seqs[1] \in Seq(S)
      BY <1>0, <1>2, <2>1
    <3>2. start \in [1 .. 2 -> Nat] /\ start[1] = 0 /\ start[2] = Len(seqs[1])
      BY <3>1
    <3> HIDE DEF start, one
    <3>3. \A g \in 1 .. 2 : start[g] <= Len(seqs[1])
      BY <3>1, <3>2
    <3>4. \A k \in 1 .. Len(one[1]) : seqs[1][0 + k] = one[1][k]
      BY <3>1
    <3>5. Starts(one, seqs[1], start)
      BY <3>1, <3>2, <3>3, <3>4 DEF Starts
    <3>6. Placed(1)
      BY <3>1, <3>5 DEF one
    <3> HIDE DEF Placed
    <3> QED
      BY <3>6
  <2>3. ASSUME NEW n \in Nat, n \in P PROVE n + 1 \in P
    <3> HIDE DEF Placed
    <3> DEFINE m == n + 1
    <3> SUFFICES ASSUME m + 1 <= Len(seqs) PROVE Placed(m + 1)
      OBVIOUS
    <3>1. m \in Nat /\ m >= 1 /\ m + 1 <= Len(seqs) /\ m <= Len(seqs)
      BY <1>0
    <3>p. Placed(m)
      BY <2>3, <3>1
    <3> HIDE DEF m
    <3>2. PICK start : f[m] \in Seq(S) /\ Starts(first(m), f[m], start)
      BY <3>p DEF Placed
    <3>3. f[m + 1] = f[m] \o seqs[m + 1]
      <4>1. m + 1 \in 2 .. Len(seqs) /\ (m + 1) - 1 = m
        BY <3>1
      <4>2. f[m + 1] = f[(m + 1) - 1] \o seqs[m + 1]
        BY <2>1, <4>1, Zenon
      <4> QED
        BY <4>1, <4>2
    <3> DEFINE less == first(m)
               more == first(m + 1)
    <3>4. /\ Len(less) = m /\ Len(more) = m + 1 /\ more[m + 1] = seqs[m + 1]
          /\ \A g \in 1 .. m : more[g] = less[g] /\ less[g] \in Seq(S)
          /\ seqs[m + 1] \in Seq(S)
      BY <1>0, <3>1
    <3> HIDE DEF less, more
    <3>5. Starts(less, f[m], start)
      BY <3>2 DEF less
    <3>6. \E s : Starts(more, f[m] \o more[m + 1], s)
      BY <3>1, <3>2, <3>4, <3>5, StartsMore, Zenon
    <3>7. f[m] \o seqs[m + 1] \in Seq(S)
      BY <3>2, <3>4
    <3>8. f[m + 1] \in Seq(S) /\ \E s : Starts(more, f[m + 1], s)
      BY <3>3, <3>4, <3>6, <3>7, Zenon
    <3> QED
      BY <3>8 DEF more, Placed
  <2>4. Len(seqs) - 1 \in P
    <3> HIDE DEF P, Placed
    <3>1. Len(seqs) - 1 \in Nat
      BY <1>0, <1>2
    <3> QED
      BY <2>2, <2>3, <3>1, AllNaturals
  <2>5. (Len(seqs) - 1) + 1 = Len(seqs)
    BY <1>0
  <2> HIDE DEF first
  <2>6. /\ f[Len(seqs)] \in Seq(S)
        /\ \E start : Starts(first(Len(seqs)), f[Len(seqs)], start)
    BY <1>0, <2>4, <2>5
  <2> QED
    BY <1>0, <2>1, <2>6
<1> QED
  BY <1>1, <1>2

-----------------------------------------------------------------------------
(* Sums over the interfaces.                                               *)

\* A set of subsets of a finite set that has every one of which it has all those
\* with one element less has them all.
LEMMA AllSubsets ==
    ASSUME NEW D, IsFiniteSet(D), NEW P,
           \A s \in SUBSET D : (\A a \in s : s \ {a} \in P) => s \in P
    PROVE  \A s \in SUBSET D : s \in P
<1> SUFFICES ASSUME NEW r \in SUBSET D, r \notin P PROVE FALSE
  OBVIOUS
<1> DEFINE sizes == {Cardinality(s) : s \in {u \in SUBSET D : u \notin P}}
<1>1. \A s \in SUBSET D : IsFiniteSet(s) /\ Cardinality(s) \in Nat
  BY FS_Subset, FS_CardinalityType
<1>2. sizes \in SUBSET Nat /\ sizes # {}
  BY <1>1
<1> HIDE DEF sizes
<1>3. PICK n \in sizes : \A m \in sizes : n <= m
  BY <1>2, Smallest
<1>4. PICK s \in SUBSET D : s \notin P /\ n = Cardinality(s)
  BY <1>3 DEF sizes
<1>5. PICK a \in s : s \ {a} \notin P
  BY <1>4
<1>6. Cardinality(s \ {a}) = n - 1 /\ n \in Nat
  BY <1>1, <1>4, <1>5, FS_RemoveElement
<1>7. Cardinality(s \ {a}) \in sizes
  BY <1>5 DEF sizes
<1> QED
  BY <1>3, <1>6, <1>7

\* The element a sum takes first.
Pick(s) == CHOOSE x \in s : TRUE

\* h is, of every subset of f's domain, the sum of f over it.
Sums(h, f) ==
    h = [s \in SUBSET DOMAIN f |-> IF s = {} THEN 0 ELSE f[Pick(s)] + h[s \ {Pick(s)}]]

SumsOf(f) == CHOOSE h : Sums(h, f)

LEMMA PickElement == \A s : s # {} => Pick(s) \in s
  BY DEF Pick

LEMMA SumIsSumsOf == ASSUME NEW f PROVE SumFunction(f) = SumsOf(f)[DOMAIN f]
  BY DEF SumFunction, SumFunctionOnSet, FoldFunctionOnSet, MapThenFoldSet, SumsOf, Sums, Pick

\* There are such sums: those of the sets of up to n elements, for every n.
LEMMA SumsExist ==
    ASSUME NEW f, IsFiniteSet(DOMAIN f)
    PROVE  Sums(SumsOf(f), f)
<1> DEFINE D == DOMAIN f
           F(h, s) == IF s = {} THEN 0 ELSE f[Pick(s)] + h[s \ {Pick(s)}]
           Upto(h, n) == \A s \in SUBSET D : Cardinality(s) <= n => h[s] = F(h, s)
           bad == {n \in Nat : ~ \E h : Upto(h, n)}
<1>1. \A s \in SUBSET D : IsFiniteSet(s) /\ Cardinality(s) \in Nat
  BY FS_Subset, FS_CardinalityType
<1>2. \E h : Upto(h, 0)
  <2> DEFINE h0 == [s \in SUBSET D |-> 0]
  <2>1. \A s \in SUBSET D : Cardinality(s) <= 0 => s = {}
    BY <1>1, FS_EmptySet
  <2>2. Upto(h0, 0)
    BY <2>1
  <2> QED
    BY <2>2
<1>3. ASSUME NEW n \in Nat, NEW h, Upto(h, n) PROVE \E g : Upto(g, n + 1)
  <2> DEFINE g == [s \in SUBSET D |-> F(h, s)]
  <2>1. ASSUME NEW s \in SUBSET D, Cardinality(s) <= n + 1 PROVE g[s] = F(g, s)
    <3>1. CASE s = {}
      BY <3>1
    <3>2. CASE s # {}
      <4> DEFINE r == s \ {Pick(s)}
      <4>1. r \in SUBSET D /\ Cardinality(r) <= n
        BY <1>1, <2>1, <3>2, PickElement, FS_RemoveElement
      <4>2. g[r] = h[r]
        BY <1>3, <4>1
      <4> QED
        BY <3>2, <4>2
    <3> QED
      BY <3>1, <3>2
  <2> HIDE DEF g
  <2> QED
    BY <2>1
<1>4. bad = {}
  <2> SUFFICES ASSUME bad # {} PROVE FALSE
    OBVIOUS
  <2>1. bad \in SUBSET Nat
    OBVIOUS
  <2> HIDE DEF bad, Upto
  <2>2. PICK n \in bad : \A m \in bad : n <= m
    BY <2>1, Smallest
  <2>3. n # 0
    BY <1>2, <2>2 DEF bad
  <2>4. n - 1 \in Nat /\ n - 1 \notin bad
    BY <2>1, <2>2, <2>3
  <2>5. PICK h : Upto(h, n - 1)
    BY <2>4 DEF bad
  <2>6. \E g : Upto(g, (n - 1) + 1)
    BY <1>3, <2>4, <2>5
  <2>7. (n - 1) + 1 = n
    BY <2>1, <2>2
  <2> QED
    BY <2>2, <2>6, <2>7 DEF bad
<1>5. \E h : Sums(h, f)
  <2>1. D \in SUBSET D /\ Cardinality(D) \in Nat
    BY <1>1
  <2>2. PICK h : Upto(h, Cardinality(D))
    BY <1>4, <2>1
  <2>3. \A s \in SUBSET D : Cardinality(s) <= Cardinality(D)
    BY FS_Subset
  <2> DEFINE g == [s \in SUBSET D |-> h[s]]
  <2>4. \A s \in SUBSET D : g[s] = F(g, s)
    <3> SUFFICES ASSUME NEW s \in SUBSET D PROVE g[s] = F(g, s)
      OBVIOUS
    <3>1. s \ {Pick(s)} \in SUBSET D
      OBVIOUS
    <3>2. h[s] = F(h, s)
      BY <2>2, <2>3
    <3> QED
      BY <3>1, <3>2
  <2>5. g = [s \in SUBSET D |-> F(g, s)]
    BY <2>4
  <2> HIDE DEF g
  <2> QED
    BY <2>5 DEF Sums
<1> QED
  BY <1>5 DEF SumsOf

\* What that says of the sum over a set.
LEMMA SumsOver ==
    ASSUME NEW f, IsFiniteSet(DOMAIN f), NEW s \in SUBSET DOMAIN f
    PROVE  SumsOf(f)[s] = IF s = {} THEN 0 ELSE f[Pick(s)] + SumsOf(f)[s \ {Pick(s)}]
<1> DEFINE h == SumsOf(f)
<1>1. Sums(h, f)
  BY SumsExist
<1> HIDE DEF h
<1>2. h[s] = IF s = {} THEN 0 ELSE f[Pick(s)] + h[s \ {Pick(s)}]
  BY <1>1 DEF Sums
<1> QED
  BY <1>2 DEF h

\* The sum of naturals is one.
LEMMA SumTyped ==
    ASSUME NEW I, IsFiniteSet(I), NEW f \in [I -> Nat]
    PROVE  SumFunction(f) \in Nat
<1> DEFINE P == {s \in SUBSET I : SumsOf(f)[s] \in Nat}
<1>0. DOMAIN f = I
  OBVIOUS
<1>1. ASSUME NEW s \in SUBSET I, \A a \in s : s \ {a} \in P PROVE s \in P
  <2>1. CASE s = {}
    <3>1. SumsOf(f)[s] = 0
      BY <1>0, <2>1, SumsOver, Zenon
    <3> QED
      BY <3>1
  <2>2. CASE s # {}
    <3>1. Pick(s) \in s /\ f[Pick(s)] \in Nat
      BY <2>2, PickElement
    <3>2. SumsOf(f)[s \ {Pick(s)}] \in Nat
      BY <1>1, <3>1
    <3>3. SumsOf(f)[s] = f[Pick(s)] + SumsOf(f)[s \ {Pick(s)}]
      BY <1>0, <2>2, SumsOver
    <3> QED
      BY <3>1, <3>2, <3>3
  <2> QED
    BY <2>1, <2>2
<1> HIDE DEF P
<1>2. I \in P
  BY <1>1, AllSubsets
<1> QED
  BY <1>0, <1>2, SumIsSumsOf DEF P

LEMMA SumOfZeros ==
    ASSUME NEW I, IsFiniteSet(I), NEW f, f = [i \in I |-> 0]
    PROVE  SumFunction(f) = 0
<1> DEFINE P == {s \in SUBSET I : SumsOf(f)[s] = 0}
<1>0. DOMAIN f = I
  OBVIOUS
<1>1. ASSUME NEW s \in SUBSET I, \A a \in s : s \ {a} \in P PROVE s \in P
  <2>1. CASE s = {}
    BY <1>0, <2>1, SumsOver
  <2>2. CASE s # {}
    <3>1. Pick(s) \in s /\ f[Pick(s)] = 0
      BY <2>2, PickElement
    <3>2. SumsOf(f)[s \ {Pick(s)}] = 0
      BY <1>1, <3>1
    <3>3. SumsOf(f)[s] = f[Pick(s)] + SumsOf(f)[s \ {Pick(s)}]
      BY <1>0, <2>2, SumsOver
    <3> QED
      BY <3>1, <3>2, <3>3
  <2> QED
    BY <2>1, <2>2
<1> HIDE DEF P
<1>2. I \in P
  BY <1>1, AllSubsets
<1> QED
  BY <1>0, <1>2, SumIsSumsOf DEF P

\* A sum changes by what one of its terms changes by.
LEMMA SumUpdate ==
    ASSUME NEW I, IsFiniteSet(I), NEW f \in [I -> Nat], NEW t \in I, NEW v \in Nat,
           NEW g, g = [f EXCEPT ![t] = v]
    PROVE  SumFunction(g) = SumFunction(f) + (v - f[t])
<1> DEFINE d(s) == IF t \in s THEN v - f[t] ELSE 0
           P == {s \in SUBSET I : /\ SumsOf(f)[s] \in Nat
                                  /\ SumsOf(g)[s] = SumsOf(f)[s] + d(s)}
<1>0. DOMAIN f = I /\ DOMAIN g = I /\ f[t] \in Nat
  OBVIOUS
<1>1. ASSUME NEW s \in SUBSET I, \A a \in s : s \ {a} \in P PROVE s \in P
  <2>1. CASE s = {}
    <3>1. SumsOf(f)[s] = 0 /\ SumsOf(g)[s] = 0 /\ t \notin s
      BY <1>0, <2>1, SumsOver
    <3> QED
      BY <3>1
  <2>2. CASE s # {}
    <3> DEFINE x == Pick(s)
               r == s \ {x}
    <3>1. x \in s /\ f[x] \in Nat
      BY <2>2, PickElement
    <3>2. SumsOf(f)[r] \in Nat /\ SumsOf(g)[r] = SumsOf(f)[r] + d(r)
      BY <1>1, <3>1
    <3>3. SumsOf(f)[s] = f[x] + SumsOf(f)[r] /\ SumsOf(g)[s] = g[x] + SumsOf(g)[r]
      BY <1>0, <2>2, SumsOver
    <3>4. CASE x = t
      <4>1. g[x] = v /\ d(r) = 0 /\ d(s) = v - f[t]
        BY <3>1, <3>4
      <4> HIDE DEF x, r, d
      <4> QED
        BY <1>0, <3>1, <3>2, <3>3, <3>4, <4>1
    <3>5. CASE x # t
      <4>1. g[x] = f[x] /\ d(r) = d(s)
        BY <3>1, <3>5
      <4>2. d(s) \in Int
        BY <1>0
      <4> HIDE DEF x, r, d
      <4> QED
        BY <1>0, <3>1, <3>2, <3>3, <4>1, <4>2
    <3> QED
      BY <3>4, <3>5
  <2> QED
    BY <2>1, <2>2
<1> HIDE DEF P
<1>2. I \in P
  BY <1>1, AllSubsets
<1> QED
  BY <1>0, <1>2, SumIsSumsOf DEF P

\* A function that has v more at one place has a sum that is v more.
Adds(f, t, v, g) == g = [f EXCEPT ![t] = @ + v]
SumGrows(f, v, g) == SumFunction(g) = SumFunction(f) + v

LEMMA SumAdd ==
    \A I, f, t, v, g :
        IsFiniteSet(I) /\ f \in [I -> Nat] /\ t \in I /\ v \in Nat /\ Adds(f, t, v, g) =>
            SumGrows(f, v, g)
<1> TAKE I, f, t, v, g
<1> HAVE IsFiniteSet(I) /\ f \in [I -> Nat] /\ t \in I /\ v \in Nat /\ Adds(f, t, v, g)
<1> DEFINE w == f[t] + v
<1>1. f[t] \in Nat /\ w \in Nat /\ g = [f EXCEPT ![t] = w]
  BY DEF Adds
<1>2. \A x \in Nat : \A h : h = [f EXCEPT ![t] = x] =>
          SumFunction(h) = SumFunction(f) + (x - f[t])
  BY SumUpdate
<1>3. SumFunction(g) = SumFunction(f) + (w - f[t])
  BY <1>1, <1>2, Zenon
<1>4. w - f[t] = v
  BY <1>1
<1>5. SumFunction(g) = SumFunction(f) + v
  BY <1>3, <1>4
<1> QED
  BY <1>5, Zenon DEF SumGrows

\* A term can be taken out of a sum, which has at least that much.
LEMMA SumClear ==
    ASSUME NEW I, IsFiniteSet(I), NEW f \in [I -> Nat], NEW t \in I,
           NEW g, g = [f EXCEPT ![t] = 0]
    PROVE  SumFunction(g) = SumFunction(f) - f[t] /\ f[t] <= SumFunction(f)
<1>1. SumFunction(g) = SumFunction(f) + (0 - f[t])
  BY SumUpdate
<1>2. SumFunction(g) \in Nat /\ SumFunction(f) \in Nat /\ f[t] \in Nat
  <2>1. g \in [I -> Nat] /\ f[t] \in Nat
    OBVIOUS
  <2> QED
    BY <2>1, SumTyped
<1> QED
  BY <1>1, <1>2
=============================================================================
