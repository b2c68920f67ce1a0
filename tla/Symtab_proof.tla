---------------------------- MODULE Symtab_proof ----------------------------
(***************************************************************************)
(* Proofs about the symbol table, for any names, classes and values and    *)
(* any number of buckets and elements.                                     *)
(***************************************************************************)
EXTENDS Symtab, DataLemmas

Element == [name : Names, class : Classes, val : Vals]

ChainTypes == chain \in [Buckets -> Seq(Element)]

-----------------------------------------------------------------------------
(* Finding.                                                                *)

\* Where sym_get finds a key: at its first place in its list, or nowhere.
LEMMA FindFacts ==
    ASSUME ChainTypes, NEW n \in Names, NEW c \in Classes
    PROVE  /\ Find(n, c) # 0 =>
                /\ Find(n, c) \in 1 .. Len(chain[Hash[n]])
                /\ KeyOf(chain[Hash[n]][Find(n, c)]) = <<n, c>>
           /\ Find(n, c) = 0 =>
                \A i \in 1 .. Len(chain[Hash[n]]) : KeyOf(chain[Hash[n]][i]) # <<n, c>>
<1> DEFINE list == chain[Hash[n]]
           hits == {i \in 1 .. Len(list) : same(list[i], n, c)}
<1>1. list \in Seq(Element)
  BY HashAssumption DEF ChainTypes
<1>2. Find(n, c) = IF \E i \in 1 .. Len(list) : same(list[i], n, c)
                   THEN CHOOSE i \in 1 .. Len(list) :
                            same(list[i], n, c) /\ \A j \in 1 .. i - 1 : ~same(list[j], n, c)
                   ELSE 0
  BY DEF Find, First
<1> HIDE DEF list
<1>3. CASE hits = {}
  BY <1>1, <1>2, <1>3 DEF same, KeyOf, list
<1>4. CASE hits # {}
  <2>1. hits \in SUBSET Nat
    BY <1>1
  <2>2. PICK i \in hits : \A j \in hits : i <= j
    BY <1>4, <2>1, Smallest
  <2>3. \A j \in 1 .. i - 1 : ~same(list[j], n, c)
    BY <1>1, <2>2
  <2>4. Find(n, c) \in 1 .. Len(list) /\ same(list[Find(n, c)], n, c)
    BY <1>2, <2>2, <2>3
  <2> QED
    BY <1>1, <2>4 DEF same, KeyOf, list
<1> QED
  BY <1>3, <1>4

\* What sym_del takes: an element of the class, and none behind the first of it.
LEMMA DelFindFacts ==
    ASSUME ChainTypes, NEW n \in Names, NEW c \in Classes, DelFind(n, c) # 0
    PROVE  /\ DelFind(n, c) \in 1 .. Len(chain[Hash[n]])
           /\ chain[Hash[n]][DelFind(n, c)].class = c
           /\ \A p \in 1 .. Len(chain[Hash[n]]) :
                chain[Hash[n]][p].class = c => DelFind(n, c) <= p
<1> DEFINE list == chain[Hash[n]]
           ends(e) == ~(e.class # c /\ ~same(e, n, c))
           hits == {i \in 1 .. Len(list) : ends(list[i])}
<1>1. list \in Seq(Element)
  BY HashAssumption DEF ChainTypes
<1>2. DelFind(n, c) = IF \E i \in 1 .. Len(list) : ends(list[i])
                      THEN CHOOSE i \in 1 .. Len(list) :
                               ends(list[i]) /\ \A j \in 1 .. i - 1 : ~ends(list[j])
                      ELSE 0
  BY DEF DelFind, First
<1>3. \A e : ends(e) <=> e.class = c
  BY DEF same
<1> HIDE DEF list, ends
<1>4. hits # {} /\ hits \in SUBSET Nat
  BY <1>1, <1>2
<1>5. PICK i \in hits : \A j \in hits : i <= j
  BY <1>4, Smallest
<1>6. \A j \in 1 .. i - 1 : ~ends(list[j])
  BY <1>1, <1>5
<1>7. DelFind(n, c) \in 1 .. Len(list) /\ ends(list[DelFind(n, c)])
      /\ \A j \in 1 .. DelFind(n, c) - 1 : ~ends(list[j])
  BY <1>2, <1>5, <1>6
<1>8. \A p \in 1 .. Len(list) : ends(list[p]) => DelFind(n, c) <= p
  BY <1>1, <1>7
<1> QED
  BY <1>1, <1>3, <1>7, <1>8 DEF list

-----------------------------------------------------------------------------
(* What the operations do to a list.                                       *)

\* sym_put and the others: one element is changed in its place, or a new one
\* comes in front of its list; its key was in the list, or was not.
Replaced(n, c, v) ==
    LET old == chain[Hash[n]]
        new == chain'[Hash[n]]
    IN  \E i \in 1 .. Len(old) :
            /\ Len(new) = Len(old)
            /\ \A j \in 1 .. Len(old) : j # i => new[j] = old[j]
            /\ KeyOf(old[i]) = <<n, c>> /\ KeyOf(new[i]) = <<n, c>>
            /\ new[i].val = v

Added(n, c, v) ==
    LET old == chain[Hash[n]]
        new == chain'[Hash[n]]
    IN  /\ \A i \in 1 .. Len(old) : KeyOf(old[i]) # <<n, c>>
        /\ Len(new) = Len(old) + 1
        /\ new[1] = [name |-> n, class |-> c, val |-> v]
        /\ \A i \in 2 .. Len(old) + 1 : new[i] = old[i - 1]

LEMMA PutFacts ==
    ASSUME ChainTypes, NEW n \in Names, NEW c \in Classes, NEW v \in Vals,
           Put(n, c, v)
    PROVE  /\ ChainTypes'
           /\ \A b \in Buckets : b # Hash[n] => chain'[b] = chain[b]
           /\ Replaced(n, c, v) \/ Added(n, c, v)
<1> DEFINE b == Hash[n]
           i == Find(n, c)
           list == chain[b]
<1>1. b \in Buckets /\ list \in Seq(Element)
  BY HashAssumption DEF ChainTypes
<1>2. CASE i # 0
  <2> DEFINE e == list[i]
             new == [e EXCEPT !.val = v]
  <2>1. i \in 1 .. Len(list) /\ KeyOf(e) = <<n, c>>
    BY <1>2, FindFacts
  <2>2. e \in Element
    BY <1>1, <2>1, ElementOfSeq
  <2>3. new \in Element /\ KeyOf(new) = KeyOf(e) /\ new.val = v
    BY <2>2 DEF Element, KeyOf
  <2>4. chain' = [chain EXCEPT ![b][i].val = v]
    BY <1>2, Zenon DEF Put
  <2>5. chain' = [chain EXCEPT ![b] = [list EXCEPT ![i] = new]]
    <3> HIDE DEF i
    <3> QED
      BY <1>1, <2>4 DEF ChainTypes
  <2> HIDE DEF e, new, i
  <2> HIDE DEF b
  <2>6. /\ [list EXCEPT ![i] = new] \in Seq(Element)
        /\ Len([list EXCEPT ![i] = new]) = Len(list)
        /\ \A j \in 1 .. Len(list) :
                [list EXCEPT ![i] = new][j] = IF j = i THEN new ELSE list[j]
    BY <1>1, <2>1, <2>3, ExceptSeq
  <2>7. ChainTypes'
    BY <1>1, <2>5, <2>6 DEF ChainTypes
  <2>8. chain'[b] = [list EXCEPT ![i] = new] /\ \A d \in Buckets : d # b => chain'[d] = chain[d]
    BY <1>1, <2>5 DEF ChainTypes
  <2>9. Replaced(n, c, v)
    BY <2>1, <2>3, <2>6, <2>8 DEF Replaced, b, e
  <2> QED
    BY <2>7, <2>8, <2>9 DEF b
<1>3. CASE i = 0
  <2> DEFINE new == [name |-> n, class |-> c, val |-> v]
  <2>1. \A j \in 1 .. Len(list) : KeyOf(list[j]) # <<n, c>>
    BY <1>3, FindFacts
  <2>2. new \in Element
    BY DEF Element
  <2>3. chain' = [chain EXCEPT ![b] = <<new>> \o list]
    BY <1>3, Zenon DEF Put
  <2> HIDE DEF b, new, i
  <2>4. <<new>> \in Seq(Element) /\ Len(<<new>>) = 1 /\ <<new>>[1] = new
    BY <2>2
  <2>5. /\ <<new>> \o list \in Seq(Element)
        /\ Len(<<new>> \o list) = Len(list) + 1
        /\ (<<new>> \o list)[1] = new
        /\ \A j \in 2 .. Len(list) + 1 : (<<new>> \o list)[j] = list[j - 1]
    BY <1>1, <2>4, ConcatProperties
  <2>6. ChainTypes'
    BY <1>1, <2>3, <2>5 DEF ChainTypes
  <2>7. chain'[b] = <<new>> \o list /\ \A d \in Buckets : d # b => chain'[d] = chain[d]
    BY <1>1, <2>3 DEF ChainTypes
  <2>8. Added(n, c, v)
    BY <2>1, <2>5, <2>7 DEF Added, b, new
  <2> QED
    BY <2>6, <2>7, <2>8 DEF b
<1> QED
  BY <1>2, <1>3

\* sym_del: one element of the class leaves its list, those behind it move up.
LEMMA DelTakes ==
    ASSUME ChainTypes, NEW n \in Names, NEW c \in Classes, Del(n, c)
    PROVE  /\ ChainTypes'
           /\ \A b \in Buckets : b # Hash[n] => chain'[b] = chain[b]
           /\ DelFind(n, c) \in 1 .. Len(chain[Hash[n]])
           /\ chain[Hash[n]][DelFind(n, c)].class = c
           /\ Len(chain'[Hash[n]]) = Len(chain[Hash[n]]) - 1
           /\ \A j \in 1 .. Len(chain[Hash[n]]) - 1 :
                chain'[Hash[n]][j] = IF j < DelFind(n, c) THEN chain[Hash[n]][j]
                                     ELSE chain[Hash[n]][j + 1]
<1> DEFINE b == Hash[n]
           i == DelFind(n, c)
           list == chain[b]
<1>1. b \in Buckets /\ list \in Seq(Element)
  BY HashAssumption DEF ChainTypes
<1>2. i # 0 /\ chain' = [chain EXCEPT ![b] = RemoveAt(list, i)]
  BY Zenon DEF Del
<1>3. i \in 1 .. Len(list) /\ list[i].class = c
  BY <1>2, DelFindFacts
<1> HIDE DEF b, i
<1>4. /\ RemoveAt(list, i) \in Seq(Element)
      /\ Len(RemoveAt(list, i)) = Len(list) - 1
      /\ \A j \in 1 .. Len(list) - 1 :
            RemoveAt(list, i)[j] = IF j < i THEN list[j] ELSE list[j + 1]
  BY <1>1, <1>3, Removed
<1>5. chain'[b] = RemoveAt(list, i) /\ \A d \in Buckets : d # b => chain'[d] = chain[d]
  BY <1>1, <1>2 DEF ChainTypes
<1>6. ChainTypes'
  BY <1>1, <1>2, <1>4 DEF ChainTypes
<1> QED
  BY <1>3, <1>4, <1>5, <1>6 DEF b, i

-----------------------------------------------------------------------------
(* The keys of the table.                                                  *)

WalkTypes ==
    walk \in [ class : Classes \cup {NIL}, bucket : Buckets \cup {0}, at : Keys \cup {NIL},
               next : Keys \cup {NIL}, lent : BOOLEAN ]

\* The element in the user's hand is in the list the walk is at, and next is
\* the one behind it.
Holds(p) == KeyOf(chain[walk.bucket][p]) = walk.at /\ walk.next = KeyAt(walk.bucket, p + 1)

InHand ==
    walk.lent => /\ walk.bucket \in Buckets
                 /\ \E p \in 1 .. Len(chain[walk.bucket]) : Holds(p)

\* What is saved for the next round is in that list.
SavedInList ==
    walk.next # NIL =>
        /\ walk.bucket \in Buckets
        /\ \E p \in 1 .. Len(chain[walk.bucket]) : KeyOf(chain[walk.bucket][p]) = walk.next

SymInv == ChainTypes /\ WalkTypes /\ KeysAreUnique /\ InHand /\ SavedInList

\* The key in the user's hand is one that can be deleted by name.
LEMMA HeldKey ==
    ASSUME SymInv, walk.lent
    PROVE  walk.at[1] \in Names /\ walk.at[2] \in Classes /\ Hash[walk.at[1]] = walk.bucket
<1>1. PICK p \in 1 .. Len(chain[walk.bucket]) : Holds(p)
  BY DEF SymInv, InHand
<1>2. walk.bucket \in Buckets /\ chain[walk.bucket][p] \in Element
  BY ElementOfSeq DEF SymInv, InHand, ChainTypes
<1>3. Hash[chain[walk.bucket][p].name] = walk.bucket
  BY <1>2 DEF SymInv, KeysAreUnique
<1> QED
  BY <1>1, <1>2, <1>3 DEF Holds, KeyOf, Element

LEMMA UniqueStep == SymInv /\ [Next]_vars => (ChainTypes /\ KeysAreUnique)'
<1> SUFFICES ASSUME SymInv, ChainTypes, KeysAreUnique, [Next]_vars
             PROVE  ChainTypes' /\ KeysAreUnique'
  BY DEF SymInv
<1>0. \A b \in Buckets : chain[b] \in Seq(Element) /\ Len(chain[b]) \in Nat
  BY DEF ChainTypes
<1>1. ASSUME NEW n \in Names, NEW c \in Classes, NEW v \in Vals, Put(n, c, v)
      PROVE  ChainTypes' /\ KeysAreUnique'
  <2>1. /\ ChainTypes'
        /\ \A b \in Buckets : b # Hash[n] => chain'[b] = chain[b]
        /\ Replaced(n, c, v) \/ Added(n, c, v)
    BY <1>1, PutFacts
  <2>2. ASSUME NEW b \in Buckets, NEW i \in 1 .. Len(chain'[b]), NEW j \in 1 .. Len(chain'[b])
        PROVE  /\ Hash[chain'[b][i].name] = b
               /\ KeyOf(chain'[b][i]) = KeyOf(chain'[b][j]) => i = j
    <3>1. CASE b # Hash[n]
      BY <2>1, <3>1 DEF KeysAreUnique
    <3>2. CASE b = Hash[n] /\ Replaced(n, c, v)
      <4>1. \A k \in 1 .. Len(chain[b]) : KeyOf(chain'[b][k]) = KeyOf(chain[b][k])
        BY <3>2 DEF Replaced
      <4>2. Len(chain'[b]) = Len(chain[b])
        BY <3>2 DEF Replaced
      <4>3. chain'[b][i].name = chain[b][i].name
        BY <4>1, <4>2 DEF KeyOf
      <4> QED
        BY <4>1, <4>2, <4>3 DEF KeysAreUnique
    <3>3. CASE b = Hash[n] /\ Added(n, c, v)
      <4>1. /\ Len(chain'[b]) = Len(chain[b]) + 1
            /\ KeyOf(chain'[b][1]) = <<n, c>> /\ chain'[b][1].name = n
            /\ \A k \in 2 .. Len(chain[b]) + 1 :
                    chain'[b][k] = chain[b][k - 1] /\ KeyOf(chain'[b][k]) # <<n, c>>
        <5>1. /\ Len(chain'[b]) = Len(chain[b]) + 1
              /\ chain'[b][1].name = n /\ chain'[b][1].class = c
          BY <3>3 DEF Added
        <5>2. ASSUME NEW k \in 2 .. Len(chain[b]) + 1
              PROVE  chain'[b][k] = chain[b][k - 1] /\ KeyOf(chain'[b][k]) # <<n, c>>
          <6>1. k - 1 \in 1 .. Len(chain[b])
            BY <1>0
          <6>2. chain'[b][k] = chain[b][k - 1]
            BY <3>3 DEF Added
          <6>3. KeyOf(chain[b][k - 1]) # <<n, c>>
            BY <3>3, <6>1 DEF Added
          <6> QED
            BY <6>2, <6>3
        <5> QED
          BY <5>1, <5>2 DEF KeyOf
      <4>2. CASE i = 1 \/ j = 1
        <5>1. i = 1 /\ j # 1 => j \in 2 .. Len(chain[b]) + 1 /\ KeyOf(chain'[b][j]) # <<n, c>>
          BY <1>0, <4>1
        <5>2. i # 1 => /\ i \in 2 .. Len(chain[b]) + 1 /\ i - 1 \in 1 .. Len(chain[b])
                       /\ KeyOf(chain'[b][i]) # <<n, c>>
                       /\ chain'[b][i] = chain[b][i - 1]
          BY <1>0, <4>1
        <5>3. i # 1 => Hash[chain[b][i - 1].name] = b
          BY <5>2 DEF KeysAreUnique
        <5> QED
          BY <3>3, <4>1, <4>2, <5>1, <5>2, <5>3
      <4>3. CASE i # 1 /\ j # 1
        <5>1. i - 1 \in 1 .. Len(chain[b]) /\ j - 1 \in 1 .. Len(chain[b])
              /\ i \in 2 .. Len(chain[b]) + 1 /\ j \in 2 .. Len(chain[b]) + 1
          BY <1>0, <4>1, <4>3
        <5>2. chain'[b][i] = chain[b][i - 1] /\ chain'[b][j] = chain[b][j - 1]
          BY <4>1, <5>1
        <5>3. /\ Hash[chain[b][i - 1].name] = b
              /\ KeyOf(chain[b][i - 1]) = KeyOf(chain[b][j - 1]) => i - 1 = j - 1
          BY <5>1 DEF KeysAreUnique
        <5> QED
          BY <5>1, <5>2, <5>3, <1>0
      <4> QED
        BY <4>2, <4>3
    <3> QED
      BY <2>1, <3>1, <3>2, <3>3
  <2> QED
    BY <2>1, <2>2 DEF KeysAreUnique, KeyOf
<1>2. ASSUME NEW n \in Names, NEW c \in Classes, Del(n, c)
      PROVE  ChainTypes' /\ KeysAreUnique'
  <2> DEFINE b == Hash[n]
             i == DelFind(n, c)
             from(j) == IF j < i THEN j ELSE j + 1
  <2>1. /\ ChainTypes'
        /\ \A d \in Buckets : d # b => chain'[d] = chain[d]
        /\ i \in 1 .. Len(chain[b])
        /\ Len(chain'[b]) = Len(chain[b]) - 1
        /\ \A j \in 1 .. Len(chain[b]) - 1 : chain'[b][j] = chain[b][from(j)]
    BY <1>2, DelTakes
  <2>2. b \in Buckets
    BY HashAssumption
  <2> HIDE DEF b, i
  <2>3. ASSUME NEW d \in Buckets, NEW j \in 1 .. Len(chain'[d]), NEW k \in 1 .. Len(chain'[d])
        PROVE  /\ Hash[chain'[d][j].name] = d
               /\ KeyOf(chain'[d][j]) = KeyOf(chain'[d][k]) => j = k
    <3>1. CASE d # b
      BY <2>1, <3>1 DEF KeysAreUnique
    <3>2. CASE d = b
      <4>1. from(j) \in 1 .. Len(chain[b]) /\ from(k) \in 1 .. Len(chain[b])
            /\ (from(j) = from(k) => j = k)
        BY <1>0, <2>1, <2>2, <3>2
      <4>2. chain'[b][j] = chain[b][from(j)] /\ chain'[b][k] = chain[b][from(k)]
        BY <1>0, <2>1, <2>2, <3>2
      <4> QED
        BY <2>2, <3>2, <4>1, <4>2 DEF KeysAreUnique
    <3> QED
      BY <3>1, <3>2
  <2> QED
    BY <2>1, <2>3 DEF KeysAreUnique, KeyOf
<1>3. CASE Clear
  BY <1>3 DEF Clear, ChainTypes, KeysAreUnique
<1>4. CASE UNCHANGED chain
  BY <1>4 DEF ChainTypes, KeysAreUnique, KeyOf
<1>5. ASSUME NEW d \in BOOLEAN, Callback(d), ~ UNCHANGED chain
      PROVE  \E n \in Names, c \in Classes : Del(n, c)
  BY <1>5, HeldKey, Zenon DEF Callback
<1> QED
  BY <1>1, <1>2, <1>3, <1>4, <1>5 DEF Next, UserDel, WalkStart, WalkOn, vars

-----------------------------------------------------------------------------
(* Walking.                                                                *)

LEMMA KeysOfElements ==
    ASSUME ChainTypes, NEW b \in Buckets, NEW p \in 1 .. Len(chain[b])
    PROVE  KeyOf(chain[b][p]) \in Keys /\ KeyOf(chain[b][p]) # NIL
<1>1. chain[b][p] \in Element
  BY ElementOfSeq DEF ChainTypes
<1> QED
  BY <1>1, NilAssumption DEF Element, KeyOf, Keys

\* One round of the loop hands out an element of the list with the one behind
\* it saved, goes on to an empty list, or ends.
LEMMA WalkOnStep ==
    ASSUME SymInv, WalkOn
    PROVE  WalkTypes' /\ InHand' /\ SavedInList'
<1> DEFINE b == IF walk.next = NIL THEN walk.bucket + 1 ELSE walk.bucket
           k == IF walk.next = NIL THEN KeyAt(b, 1) ELSE walk.next
<1>0. chain' = chain
  BY DEF WalkOn
<1>1. CASE b \notin Buckets
  <2>1. walk' = NoWalk
    BY <1>1, Zenon DEF WalkOn
  <2> QED
    BY <2>1 DEF NoWalk, WalkTypes, InHand, SavedInList
<1>2. CASE b \in Buckets
  <2>1. walk' = [ walk EXCEPT
                    !.bucket = b,
                    !.at = k,
                    !.next = IF k = NIL THEN NIL ELSE KeyAt(b, IndexOf(b, k) + 1),
                    !.lent = k # NIL /\ k[2] = walk.class ]
    BY <1>2, Zenon DEF WalkOn
  <2>2. chain[b] \in Seq(Element) /\ Len(chain[b]) \in Nat
    BY <1>2 DEF SymInv, ChainTypes
  <2>3. ASSUME k # NIL PROVE \E p \in 1 .. Len(chain[b]) : KeyOf(chain[b][p]) = k
    <3>1. CASE walk.next = NIL
      <4>1. 1 <= Len(chain[b]) /\ KeyOf(chain[b][1]) = k
        BY <2>3, <3>1 DEF KeyAt
      <4> QED
        BY <2>2, <4>1
    <3>2. CASE walk.next # NIL
      BY <3>2 DEF SymInv, SavedInList
    <3> QED
      BY <3>1, <3>2
  <2> HIDE DEF b, k
  <2>4. ASSUME k # NIL PROVE IndexOf(b, k) \in 1 .. Len(chain[b]) /\ KeyOf(chain[b][IndexOf(b, k)]) = k
    BY <2>3, <2>4 DEF IndexOf
  <2> DEFINE next == IF k = NIL THEN NIL ELSE KeyAt(b, IndexOf(b, k) + 1)
  <2>5. ASSUME k # NIL PROVE k \in Keys
    BY <1>2, <2>4, <2>5, KeysOfElements DEF SymInv
  <2>6. ASSUME next # NIL
        PROVE  /\ IndexOf(b, k) + 1 \in 1 .. Len(chain[b])
               /\ KeyOf(chain[b][IndexOf(b, k) + 1]) = next
    BY <2>2, <2>4, <2>6 DEF KeyAt
  <2>7. next \in Keys \cup {NIL}
    BY <1>2, <2>6, KeysOfElements DEF SymInv
  <2> HIDE DEF next
  <2>8. /\ walk'.bucket = b /\ walk'.at = k /\ walk'.next = next
        /\ walk'.lent \in BOOLEAN /\ (walk'.lent => k # NIL)
    BY <2>1 DEF SymInv, WalkTypes, next
  <2>9. WalkTypes'
    BY <1>2, <2>1, <2>5, <2>7 DEF SymInv, WalkTypes, next
  <2>10. InHand'
    <3> SUFFICES ASSUME walk'.lent PROVE \E p \in 1 .. Len(chain'[walk'.bucket]) : Holds(p)'
      BY <1>2, <2>8 DEF InHand
    <3>1. k # NIL
      BY <2>8
    <3>2. PICK p \in 1 .. Len(chain[b]) : KeyOf(chain[b][p]) = k /\ next = KeyAt(b, p + 1)
      BY <2>4, <3>1 DEF next
    <3>3. chain'[walk'.bucket] = chain[b]
      BY <1>0, <2>8
    <3>4. Holds(p)'
      BY <2>8, <3>2, <3>3 DEF Holds, KeyAt, KeyOf
    <3> QED
      BY <3>2, <3>3, <3>4
  <2>11. SavedInList'
    BY <1>0, <1>2, <2>6, <2>8 DEF SavedInList
  <2> QED
    BY <2>9, <2>10, <2>11
<1> QED
  BY <1>1, <1>2

\* Although sym_del may take another element than the one in hand, it takes
\* none behind it.
LEMMA CallbackStep ==
    ASSUME SymInv, NEW d \in BOOLEAN, Callback(d)
    PROVE  WalkTypes' /\ InHand' /\ SavedInList'
<1>1. walk.lent /\ walk' = [walk EXCEPT !.lent = FALSE]
  BY DEF Callback
<1>2. WalkTypes' /\ InHand' /\ walk'.next = walk.next /\ walk'.bucket = walk.bucket
  BY <1>1 DEF SymInv, WalkTypes, InHand
<1>3. CASE ~d
  BY <1>2, <1>3 DEF Callback, SymInv, SavedInList
<1>4. CASE d /\ walk.next # NIL
  <2> DEFINE n == walk.at[1]
             c == walk.at[2]
             b == walk.bucket
             i == DelFind(n, c)
  <2>1. n \in Names /\ c \in Classes /\ Hash[n] = b /\ Del(n, c)
    BY <1>1, <1>4, HeldKey DEF Callback
  <2> HIDE DEF n, c, b
  <2>2. /\ i \in 1 .. Len(chain[b])
        /\ Len(chain'[b]) = Len(chain[b]) - 1
        /\ \A j \in 1 .. Len(chain[b]) - 1 :
              chain'[b][j] = IF j < i THEN chain[b][j] ELSE chain[b][j + 1]
    <3>1. ChainTypes
      BY DEF SymInv
    <3> QED
      BY <2>1, <3>1, DelTakes
  <2>3. b \in Buckets /\ Len(chain[b]) \in Nat
    BY <1>1 DEF SymInv, InHand, ChainTypes, b
  <2>4. PICK p \in 1 .. Len(chain[b]) : Holds(p)
    BY <1>1 DEF SymInv, InHand, b
  <2>5. p + 1 \in 1 .. Len(chain[b]) /\ KeyOf(chain[b][p + 1]) = walk.next
    BY <1>4, <2>3, <2>4 DEF Holds, KeyAt, b
  <2>6. i <= p
    <3>1. i # 0
      BY <2>2
    <3>2. chain[b][p].class = c
      BY <2>4 DEF Holds, KeyOf, b, c
    <3>3. ChainTypes
      BY DEF SymInv
    <3> QED
      BY <2>1, <2>4, <3>1, <3>2, <3>3, DelFindFacts
  <2> HIDE DEF i
  <2>7. p \in 1 .. Len(chain'[b]) /\ chain'[b][p] = chain[b][p + 1]
    BY <2>2, <2>3, <2>4, <2>5, <2>6
  <2>8. KeyOf(chain'[b][p]) = walk.next
    BY <2>5, <2>7
  <2> QED
    BY <1>2, <2>3, <2>7, <2>8 DEF SavedInList, b
<1>5. CASE walk.next = NIL
  BY <1>2, <1>5 DEF SavedInList
<1> QED
  BY <1>3, <1>4, <1>5

LEMMA SymInvStep == SymInv /\ [Next]_vars => SymInv'
<1> SUFFICES ASSUME SymInv, [Next]_vars PROVE WalkTypes' /\ InHand' /\ SavedInList'
  BY UniqueStep DEF SymInv
<1>1. CASE walk = NoWalk /\ walk' = walk
  BY <1>1 DEF NoWalk, WalkTypes, InHand, SavedInList
<1>2. ASSUME NEW c \in Classes, WalkStart(c) PROVE WalkTypes' /\ InHand' /\ SavedInList'
  BY <1>2 DEF WalkStart, NoWalk, WalkTypes, InHand, SavedInList
<1>3. CASE UNCHANGED vars
  BY <1>3 DEF vars, SymInv, WalkTypes, InHand, SavedInList, Holds, KeyAt, KeyOf
<1> QED
  BY <1>1, <1>2, <1>3, WalkOnStep, CallbackStep DEF Next, Put, UserDel, Clear

LEMMA SymInvInit == Init => SymInv
  BY DEF Init, SymInv, ChainTypes, WalkTypes, KeysAreUnique, InHand, SavedInList, NoWalk

LEMMA SymInvHolds == Spec => []SymInv
  BY SymInvInit, SymInvStep, PTL DEF Spec

\* No key is in the table twice, whatever is put and deleted, in any buckets.
THEOREM KeysStayUnique == Spec => []KeysAreUnique
<1>1. SymInv => KeysAreUnique
  BY DEF SymInv
<1> QED
  BY <1>1, SymInvHolds, PTL

\* A walk never follows a pointer to an element that was freed by the callback.
THEOREM WalksSurvive == Spec => []NextStaysAlive
<1>1. SymInv => NextStaysAlive
  BY DEF SymInv, SavedInList, NextStaysAlive, InTable
<1> QED
  BY <1>1, SymInvHolds, PTL

-----------------------------------------------------------------------------
(* The table is a map.                                                     *)

\* A key is found exactly if an element of its list has it, with its value.
MapIsTable ==
    \A n \in Names, c \in Classes :
        /\ Find(n, c) # 0 <=> \E i \in 1 .. Len(chain[Hash[n]]) : KeyOf(chain[Hash[n]][i]) = <<n, c>>
        /\ \A i \in 1 .. Len(chain[Hash[n]]) :
              KeyOf(chain[Hash[n]][i]) = <<n, c>> => sym_get(n, c) = chain[Hash[n]][i].val

LEMMA TableFacts == ChainTypes /\ KeysAreUnique => MapIsTable
<1> SUFFICES ASSUME ChainTypes, KeysAreUnique, NEW n \in Names, NEW c \in Classes
             PROVE  /\ Find(n, c) # 0 <=> \E i \in 1 .. Len(chain[Hash[n]]) :
                                              KeyOf(chain[Hash[n]][i]) = <<n, c>>
                    /\ \A i \in 1 .. Len(chain[Hash[n]]) :
                          KeyOf(chain[Hash[n]][i]) = <<n, c>> =>
                              sym_get(n, c) = chain[Hash[n]][i].val
  BY DEF MapIsTable
<1>1. Find(n, c) # 0 <=> \E i \in 1 .. Len(chain[Hash[n]]) : KeyOf(chain[Hash[n]][i]) = <<n, c>>
  BY FindFacts
<1>2. ASSUME NEW i \in 1 .. Len(chain[Hash[n]]), KeyOf(chain[Hash[n]][i]) = <<n, c>>
      PROVE  sym_get(n, c) = chain[Hash[n]][i].val
  <2>1. Find(n, c) # 0 /\ Find(n, c) \in 1 .. Len(chain[Hash[n]])
        /\ KeyOf(chain[Hash[n]][Find(n, c)]) = <<n, c>>
    BY <1>1, <1>2, FindFacts
  <2>2. Find(n, c) = i
    BY <1>2, <2>1, HashAssumption DEF KeysAreUnique
  <2> QED
    BY <2>1, <2>2 DEF sym_get
<1> QED
  BY <1>1, <1>2

LEMMA TableFactsNext == (ChainTypes /\ KeysAreUnique => MapIsTable)'
  BY TableFacts, PTL

\* The keys in the table, and their values.
Present == {k \in Keys : Find(k[1], k[2]) # 0}

Table == [k \in Present |-> sym_get(k[1], k[2])]

InList(k) == \E i \in 1 .. Len(chain[Hash[k[1]]]) : KeyOf(chain[Hash[k[1]]][i]) = k

LEMMA TableRead ==
    ASSUME MapIsTable, NEW k \in Keys
    PROVE  /\ k \in Present <=> InList(k)
           /\ \A i \in 1 .. Len(chain[Hash[k[1]]]) :
                KeyOf(chain[Hash[k[1]]][i]) = k =>
                    k \in Present /\ Table[k] = chain[Hash[k[1]]][i].val
<1>1. k[1] \in Names /\ k[2] \in Classes /\ k = <<k[1], k[2]>>
  BY DEF Keys
<1>2. k \in Present <=> InList(k)
  BY <1>1 DEF MapIsTable, Present, InList
<1>3. ASSUME NEW i \in 1 .. Len(chain[Hash[k[1]]]), KeyOf(chain[Hash[k[1]]][i]) = k
      PROVE  k \in Present /\ Table[k] = chain[Hash[k[1]]][i].val
  <2>1. k \in Present
    BY <1>2, <1>3 DEF InList
  <2>2. sym_get(k[1], k[2]) = chain[Hash[k[1]]][i].val
    BY <1>1, <1>3 DEF MapIsTable
  <2> QED
    BY <2>1, <2>2 DEF Table
<1> QED
  BY <1>2, <1>3

LEMMA TableReadNext ==
    ASSUME MapIsTable', NEW k \in Keys
    PROVE  /\ k \in Present' <=> InList(k)'
           /\ \A i \in 1 .. Len(chain'[Hash[k[1]]]) :
                KeyOf(chain'[Hash[k[1]]][i]) = k =>
                    k \in Present' /\ Table'[k] = chain'[Hash[k[1]]][i].val
<1>1. k[1] \in Names /\ k[2] \in Classes /\ k = <<k[1], k[2]>>
  BY DEF Keys
<1>2. k \in Present' <=> InList(k)'
  BY <1>1 DEF MapIsTable, Present, InList
<1>3. ASSUME NEW i \in 1 .. Len(chain'[Hash[k[1]]]), KeyOf(chain'[Hash[k[1]]][i]) = k
      PROVE  k \in Present' /\ Table'[k] = chain'[Hash[k[1]]][i].val
  <2>1. k \in Present'
    BY <1>2, <1>3 DEF InList
  <2>2. sym_get(k[1], k[2])' = chain'[Hash[k[1]]][i].val
    BY <1>1, <1>3 DEF MapIsTable
  <2> QED
    BY <2>1, <2>2 DEF Table
<1> QED
  BY <1>2, <1>3

\* Putting a key changes what is found under it, and nothing else.
LEMMA PutMaps ==
    ASSUME SymInv, ChainTypes, MapIsTable, MapIsTable',
           NEW n \in Names, NEW c \in Classes, NEW v \in Vals, Put(n, c, v)
    PROVE  Table' = [j \in Present \cup {<<n, c>>} |->
                        IF j = <<n, c>> THEN v ELSE Table[j]]
<1> DEFINE key == <<n, c>>
<1>0. key \in Keys /\ key[1] = n /\ Hash[n] \in Buckets
      /\ \A b \in Buckets : Len(chain[b]) \in Nat
  BY HashAssumption DEF Keys, ChainTypes
<1>1. /\ \A b \in Buckets : b # Hash[n] => chain'[b] = chain[b]
      /\ Replaced(n, c, v) \/ Added(n, c, v)
  BY PutFacts
<1>2. \E i \in 1 .. Len(chain'[Hash[n]]) :
          KeyOf(chain'[Hash[n]][i]) = key /\ chain'[Hash[n]][i].val = v
  <2>1. CASE Replaced(n, c, v)
    BY <2>1 DEF Replaced
  <2>2. CASE Added(n, c, v)
    <3>1. 1 \in 1 .. Len(chain'[Hash[n]])
      BY <1>0, <2>2 DEF Added
    <3>2. KeyOf(chain'[Hash[n]][1]) = key /\ chain'[Hash[n]][1].val = v
      BY <2>2 DEF Added, KeyOf
    <3> QED
      BY <3>1, <3>2
  <2> QED
    BY <1>1, <2>1, <2>2
<1>3. key \in Present' /\ Table'[key] = v
  BY <1>0, <1>2, TableReadNext
\* Every other element of the lists is in the one now and in the other then.
<1>4. ASSUME NEW k \in Keys, k # key, NEW i \in 1 .. Len(chain[Hash[k[1]]]),
             KeyOf(chain[Hash[k[1]]][i]) = k
      PROVE  \E j \in 1 .. Len(chain'[Hash[k[1]]]) :
                chain'[Hash[k[1]]][j] = chain[Hash[k[1]]][i]
  <2>0. Hash[k[1]] \in Buckets
    BY HashAssumption DEF Keys
  <2>1. CASE Hash[k[1]] # Hash[n]
    BY <1>1, <2>0, <2>1
  <2>2. CASE Hash[k[1]] = Hash[n] /\ Replaced(n, c, v)
    BY <1>4, <2>2 DEF Replaced
  <2>3. CASE Hash[k[1]] = Hash[n] /\ Added(n, c, v)
    <3>1. i + 1 \in 2 .. Len(chain[Hash[n]]) + 1 /\ i + 1 - 1 = i
      BY <1>0, <2>3
    <3>2. i + 1 \in 1 .. Len(chain'[Hash[n]])
      BY <1>0, <2>3, <3>1 DEF Added
    <3>3. chain'[Hash[n]][i + 1] = chain[Hash[n]][i]
      BY <2>3, <3>1 DEF Added
    <3> QED
      BY <2>3, <3>2, <3>3
  <2> QED
    BY <1>1, <2>1, <2>2, <2>3
<1>5. ASSUME NEW k \in Keys, k # key, NEW j \in 1 .. Len(chain'[Hash[k[1]]]),
             KeyOf(chain'[Hash[k[1]]][j]) = k
      PROVE  \E i \in 1 .. Len(chain[Hash[k[1]]]) :
                chain'[Hash[k[1]]][j] = chain[Hash[k[1]]][i]
  <2>0. Hash[k[1]] \in Buckets
    BY HashAssumption DEF Keys
  <2>1. CASE Hash[k[1]] # Hash[n]
    BY <1>1, <2>0, <2>1
  <2>2. CASE Hash[k[1]] = Hash[n] /\ Replaced(n, c, v)
    BY <1>5, <2>2 DEF Replaced
  <2>3. CASE Hash[k[1]] = Hash[n] /\ Added(n, c, v)
    <3>1. j # 1
      BY <1>5, <2>3 DEF Added, KeyOf
    <3>2. j \in 2 .. Len(chain[Hash[n]]) + 1 /\ j - 1 \in 1 .. Len(chain[Hash[n]])
      BY <1>0, <2>3, <3>1 DEF Added
    <3>3. chain'[Hash[n]][j] = chain[Hash[n]][j - 1]
      BY <2>3, <3>2 DEF Added
    <3> QED
      BY <2>3, <3>2, <3>3
  <2> QED
    BY <1>1, <2>1, <2>2, <2>3
<1>6. ASSUME NEW k \in Keys, k # key
      PROVE  /\ k \in Present' <=> k \in Present
             /\ k \in Present => Table'[k] = Table[k]
  <2>1. ASSUME k \in Present PROVE k \in Present' /\ Table'[k] = Table[k]
    <3>1. PICK i \in 1 .. Len(chain[Hash[k[1]]]) : KeyOf(chain[Hash[k[1]]][i]) = k
      BY <2>1, TableRead DEF InList
    <3>2. PICK j \in 1 .. Len(chain'[Hash[k[1]]]) :
              chain'[Hash[k[1]]][j] = chain[Hash[k[1]]][i]
      BY <1>4, <1>6, <3>1
    <3>3. KeyOf(chain'[Hash[k[1]]][j]) = k
      BY <3>1, <3>2
    <3> QED
      BY <3>1, <3>2, <3>3, TableRead, TableReadNext
  <2>2. ASSUME k \in Present' PROVE k \in Present
    <3>1. PICK j \in 1 .. Len(chain'[Hash[k[1]]]) : KeyOf(chain'[Hash[k[1]]][j]) = k
      BY <2>2, TableReadNext DEF InList
    <3>2. PICK i \in 1 .. Len(chain[Hash[k[1]]]) :
              chain'[Hash[k[1]]][j] = chain[Hash[k[1]]][i]
      BY <1>5, <1>6, <3>1
    <3> QED
      BY <3>1, <3>2, TableRead
  <2> QED
    BY <2>1, <2>2
<1>7. Present' = Present \cup {key}
  BY <1>0, <1>3, <1>6 DEF Present
<1> QED
  BY <1>3, <1>6, <1>7 DEF Table, Present

\* Deleting takes the key found from the map, and nothing else.
Found(n, c) == KeyOf(chain[Hash[n]][DelFind(n, c)])

LEMMA DelMaps ==
    ASSUME SymInv, ChainTypes, KeysAreUnique, MapIsTable, MapIsTable',
           NEW n \in Names, NEW c \in Classes, Del(n, c)
    PROVE  /\ Found(n, c) \in Present /\ Table' = [j \in Present \ {Found(n, c)} |-> Table[j]]
           /\ Found(n, c) \in Keys /\ Found(n, c)[2] = c /\ Hash[Found(n, c)[1]] = Hash[n]
<1> DEFINE b == Hash[n]
           i == DelFind(n, c)
           key == KeyOf(chain[b][i])
           from(j) == IF j < i THEN j ELSE j + 1
<1>0. b \in Buckets /\ \A d \in Buckets : chain[d] \in Seq(Element) /\ Len(chain[d]) \in Nat
  BY HashAssumption DEF ChainTypes
<1>1. /\ \A d \in Buckets : d # b => chain'[d] = chain[d]
      /\ i \in 1 .. Len(chain[b])
      /\ chain[b][i].class = c
      /\ Len(chain'[b]) = Len(chain[b]) - 1
      /\ \A j \in 1 .. Len(chain[b]) - 1 : chain'[b][j] = chain[b][from(j)]
  BY DelTakes
<1> HIDE DEF b, i
<1>2. key \in Keys /\ Hash[key[1]] = b /\ key[2] = c
  <2>1. chain[b][i] \in Element
    BY <1>0, <1>1, ElementOfSeq
  <2>2. Hash[chain[b][i].name] = b
    BY <1>0, <1>1 DEF KeysAreUnique
  <2> QED
    BY <1>1, <2>1, <2>2 DEF KeyOf, Keys, Element
<1>3. key \in Present
  BY <1>1, <1>2, TableRead
<1>4. \A j \in 1 .. Len(chain[b]) : KeyOf(chain[b][j]) = key => j = i
  BY <1>0, <1>1 DEF KeysAreUnique
<1> HIDE DEF key
<1>5. ASSUME NEW k \in Keys, k # key, NEW p \in 1 .. Len(chain[Hash[k[1]]]),
             KeyOf(chain[Hash[k[1]]][p]) = k
      PROVE  \E j \in 1 .. Len(chain'[Hash[k[1]]]) :
                chain'[Hash[k[1]]][j] = chain[Hash[k[1]]][p]
  <2>0. Hash[k[1]] \in Buckets
    BY HashAssumption DEF Keys
  <2>1. CASE Hash[k[1]] # b
    BY <1>1, <2>0, <2>1
  <2>2. CASE Hash[k[1]] = b
    <3>1. p # i
      BY <1>5, <2>2 DEF key
    <3>2. CASE p < i
      <4>1. p \in 1 .. Len(chain[b]) - 1 /\ from(p) = p
        BY <1>0, <1>1, <2>2, <3>2
      <4> QED
        BY <1>1, <2>2, <4>1
    <3>3. CASE p > i
      <4>0. Len(chain[b]) \in Nat /\ i \in 1 .. Len(chain[b]) /\ p \in 1 .. Len(chain[b])
        BY <1>0, <1>1, <2>2
      <4>1. p - 1 \in 1 .. Len(chain[b]) - 1 /\ from(p - 1) = p
        BY <4>0, <3>3
      <4>2. chain'[b][p - 1] = chain[b][p] /\ p - 1 \in 1 .. Len(chain'[b])
        BY <1>1, <4>1
      <4> HIDE DEF from
      <4> QED
        BY <2>2, <4>2
    <3>4. i \in Int
      BY <1>1
    <3>5. p \in Int
      OBVIOUS
    <3> QED
      BY <3>1, <3>2, <3>3, <3>4, <3>5
  <2> QED
    BY <2>1, <2>2
<1>6. ASSUME NEW k \in Keys, NEW j \in 1 .. Len(chain'[Hash[k[1]]]),
             KeyOf(chain'[Hash[k[1]]][j]) = k
      PROVE  /\ k # key
             /\ \E p \in 1 .. Len(chain[Hash[k[1]]]) :
                    chain'[Hash[k[1]]][j] = chain[Hash[k[1]]][p]
  <2>0. Hash[k[1]] \in Buckets
    BY HashAssumption DEF Keys
  <2>1. CASE Hash[k[1]] # b
    BY <1>1, <1>2, <2>0, <2>1
  <2>2. CASE Hash[k[1]] = b
    <3>1. /\ j \in 1 .. Len(chain[b]) - 1
          /\ from(j) \in 1 .. Len(chain[b]) /\ from(j) # i
      BY <1>0, <1>1, <2>2
    <3>2. chain'[b][j] = chain[b][from(j)]
      BY <1>1, <3>1
    <3>3. KeyOf(chain[b][from(j)]) = k
      BY <1>6, <2>2, <3>2
    <3>4. k # key
      BY <1>4, <3>1, <3>3
    <3> QED
      BY <2>2, <3>1, <3>2, <3>4
  <2> QED
    BY <2>1, <2>2
<1>7. ASSUME NEW k \in Keys, k # key, k \in Present PROVE k \in Present' /\ Table'[k] = Table[k]
  <2>1. PICK p \in 1 .. Len(chain[Hash[k[1]]]) : KeyOf(chain[Hash[k[1]]][p]) = k
    BY <1>7, TableRead DEF InList
  <2>2. PICK j \in 1 .. Len(chain'[Hash[k[1]]]) :
            chain'[Hash[k[1]]][j] = chain[Hash[k[1]]][p]
    BY <1>5, <1>7, <2>1
  <2>3. KeyOf(chain'[Hash[k[1]]][j]) = k
    BY <2>1, <2>2
  <2> QED
    BY <2>1, <2>2, <2>3, TableRead, TableReadNext
<1>8. ASSUME NEW k \in Keys, k \in Present' PROVE k # key /\ k \in Present
  <2>1. PICK j \in 1 .. Len(chain'[Hash[k[1]]]) : KeyOf(chain'[Hash[k[1]]][j]) = k
    BY <1>8, TableReadNext DEF InList
  <2>2. k # key /\ \E p \in 1 .. Len(chain[Hash[k[1]]]) :
            chain'[Hash[k[1]]][j] = chain[Hash[k[1]]][p]
    BY <1>6, <2>1
  <2> QED
    BY <2>1, <2>2, TableRead
<1>9. Present' = Present \ {key}
  BY <1>2, <1>7, <1>8 DEF Present
<1>10. Table' = [j \in Present \ {key} |-> Table[j]]
  BY <1>7, <1>9 DEF Table, Present
<1> QED
  BY <1>2, <1>3, <1>10 DEF Found, key, b, i

\* It is the key named, unless an element of the class with another name comes
\* first; then it is that one's.
LEMMA DelNamed ==
    ASSUME ChainTypes, NEW n \in Names, NEW c \in Classes, DelFind(n, c) # 0
    PROVE  Found(n, c)[1] = n <=> ~AnotherFirst(n, c)
<1> DEFINE list == chain[Hash[n]]
           i == DelFind(n, c)
<1>1. /\ i \in 1 .. Len(list) /\ list[i].class = c
      /\ \A p \in 1 .. Len(list) : list[p].class = c => i <= p
  BY DelFindFacts
<1>2. Len(list) \in Nat
  BY HashAssumption DEF ChainTypes
<1>3. Found(n, c)[1] = list[i].name
  BY DEF Found, KeyOf
<1> HIDE DEF list, i
<1>4. ASSUME list[i].name # n PROVE AnotherFirst(n, c)
  <2>1. \A j \in 1 .. i - 1 : j \in 1 .. Len(list) /\ ~(i <= j)
    BY <1>1, <1>2
  <2>2. \A j \in 1 .. i - 1 : ~same(list[j], n, c)
    BY <1>1, <2>1 DEF same
  <2> QED
    BY <1>1, <1>4, <2>2 DEF AnotherFirst, list
<1>5. ASSUME list[i].name = n, AnotherFirst(n, c) PROVE FALSE
  <2>1. PICK p \in 1 .. Len(list) : /\ list[p].class = c /\ list[p].name # n
                                    /\ \A j \in 1 .. p - 1 : ~same(list[j], n, c)
    BY <1>5 DEF AnotherFirst, list
  <2>2. i <= p /\ i # p
    BY <1>1, <1>5, <2>1
  <2>3. i \in 1 .. p - 1
    BY <1>1, <1>2, <2>2
  <2> QED
    BY <1>1, <1>5, <2>1, <2>3 DEF same
<1> QED
  BY <1>3, <1>4, <1>5

LEMMA ClearMaps ==
    ASSUME MapIsTable', Clear
    PROVE  Table' = [k \in {} |-> {}]
<1>1. \A b \in Buckets : chain'[b] = <<>>
  BY DEF Clear
<1>2. Present' = {}
  <2> SUFFICES ASSUME NEW k \in Keys, k \in Present' PROVE FALSE
    BY DEF Present
  <2>1. \E j \in 1 .. Len(chain'[Hash[k[1]]]) : TRUE
    BY TableReadNext DEF InList
  <2>2. Hash[k[1]] \in Buckets
    BY HashAssumption DEF Keys
  <2> QED
    BY <1>1, <2>1, <2>2
<1> QED
  BY <1>2 DEF Table

LEMMA MapInit == Init => Map!Init
<1> SUFFICES ASSUME Init PROVE Present = {}
  BY DEF Map!Init, Present
<1>1. \A n \in Names, c \in Classes : Find(n, c) = 0
  BY HashAssumption DEF Init, Find, First
<1> QED
  BY <1>1 DEF Present, Keys

\* Each operation of the table is the operation of the map, or changes nothing
\* of it.
LEMMA PutIsPut ==
    ASSUME SymInv, SymInv', NEW n \in Names, NEW c \in Classes, NEW v \in Vals, Put(n, c, v)
    PROVE  Map!Put(<<n, c>>, v)
<1>0. ChainTypes /\ KeysAreUnique /\ MapIsTable /\ MapIsTable'
  BY TableFacts, TableFactsNext DEF SymInv
<1>1. Table' = [j \in Present \cup {<<n, c>>} |-> IF j = <<n, c>> THEN v ELSE Table[j]]
  BY <1>0, PutMaps
<1>2. DOMAIN Table = Present
  BY DEF Table
<1> QED
  BY <1>1, <1>2 DEF Map!Put, Table, Present

LEMMA DelIsDelete ==
    ASSUME SymInv, SymInv', NEW n \in Names, NEW c \in Classes, Del(n, c)
    PROVE  /\ Found(n, c) \in Keys /\ Found(n, c)[2] = c /\ Hash[Found(n, c)[1]] = Hash[n]
           /\ Found(n, c)[1] = n <=> ~AnotherFirst(n, c)
           /\ Map!Delete(Found(n, c))
<1>0. ChainTypes /\ KeysAreUnique /\ MapIsTable /\ MapIsTable'
  BY TableFacts, TableFactsNext DEF SymInv
<1>1. /\ Table' = [j \in Present \ {Found(n, c)} |-> Table[j]]
      /\ Found(n, c) \in Keys /\ Found(n, c)[2] = c /\ Hash[Found(n, c)[1]] = Hash[n]
  BY <1>0, DelMaps
<1>2. DOMAIN Table = Present
  BY DEF Table
<1>3. Map!Delete(Found(n, c))
  BY <1>1, <1>2 DEF Map!Delete, Table, Present
<1>4. DelFind(n, c) # 0
  BY Zenon DEF Del
<1> QED
  BY <1>0, <1>1, <1>3, <1>4, DelNamed

LEMMA ClearIsClear ==
    ASSUME SymInv, SymInv', Clear
    PROVE  Map!Clear
<1>0. MapIsTable'
  BY TableFactsNext DEF SymInv
<1> QED
  BY <1>0, ClearMaps DEF Map!Clear, Table, Present

LEMMA MapStep ==
    SymInv /\ SymInv' /\ [Next]_vars => [Map!Next]_Table
<1> SUFFICES ASSUME SymInv, SymInv', [Next]_vars PROVE [Map!Next]_Table
  OBVIOUS
<1>1. ASSUME NEW n \in Names, NEW c \in Classes, NEW v \in Vals, Put(n, c, v) PROVE Map!Next
  <2>1. Map!Put(<<n, c>>, v)
    BY <1>1, PutIsPut
  <2> QED
    BY <2>1 DEF Map!Next, Map!Keys
<1>2. ASSUME NEW n \in Names, NEW c \in Classes, Del(n, c) PROVE Map!Next
  <2>1. Found(n, c) \in Keys /\ Map!Delete(Found(n, c))
    BY <1>2, DelIsDelete
  <2> QED
    BY <2>1 DEF Map!Next, Map!Keys, Keys
<1>3. CASE Clear
  BY <1>3, ClearIsClear DEF Map!Next
<1>4. CASE UNCHANGED chain
  BY <1>4 DEF Table, Present, Find, First, sym_get
<1>5. ASSUME NEW d \in BOOLEAN, Callback(d), ~ UNCHANGED chain
      PROVE  \E n \in Names, c \in Classes : Del(n, c)
  BY <1>5, HeldKey, Zenon DEF Callback
<1> QED
  BY <1>1, <1>2, <1>3, <1>4, <1>5 DEF Next, UserDel, WalkStart, WalkOn, vars

\* Which operation it is: the one of that name, with that key; a delete where
\* another element comes first takes that one.
Called ==
    /\ \A n \in Names, c \in Classes :
        /\ \A v \in Vals : Put(n, c, v) => Map!Put(<<n, c>>, v)
        /\ Del(n, c) =>
            IF AnotherFirst(n, c)
            THEN \E m \in Names \ {n} : Hash[m] = Hash[n] /\ Map!Delete(<<m, c>>)
            ELSE Map!Delete(<<n, c>>)
    /\ Clear => Map!Clear

LEMMA CalledStep == SymInv /\ SymInv' => Called
<1> SUFFICES ASSUME SymInv, SymInv' PROVE Called
  OBVIOUS
<1>1. ASSUME NEW n \in Names, NEW c \in Classes, Del(n, c)
      PROVE  IF AnotherFirst(n, c)
             THEN \E m \in Names \ {n} : Hash[m] = Hash[n] /\ Map!Delete(<<m, c>>)
             ELSE Map!Delete(<<n, c>>)
  <2> DEFINE k == Found(n, c)
  <2>1. /\ k \in Keys /\ k[2] = c /\ Hash[k[1]] = Hash[n] /\ Map!Delete(k)
        /\ k[1] = n <=> ~AnotherFirst(n, c)
    BY <1>1, DelIsDelete
  <2> HIDE DEF k
  <2>2. k = <<k[1], c>> /\ k[1] \in Names
    BY <2>1 DEF Keys
  <2>3. Map!Delete(<<k[1], c>>)
    BY <2>1, <2>2, Zenon
  <2> QED
    BY <2>1, <2>2, <2>3
<1> QED
  BY <1>1, PutIsPut, ClearIsClear DEF Called

\* The table is a map from name and class to value, whatever shares a list, but
\* for the deletes where an element of another name comes first: the operations
\* are those of the map, each for the key it was called for.
THEOREM TableIsMap == Spec => ImplementsMap
<1>1. Spec => Map!Init
  BY MapInit DEF Spec
<1>2. SymInv /\ SymInv' /\ [Next]_vars =>
        [Map!Next]_[k \in {j \in Keys : Find(j[1], j[2]) # 0} |-> sym_get(k[1], k[2])]
  BY MapStep DEF Table, Present
<1>3. SymInv /\ SymInv' /\ [Next]_vars => [Called]_vars
  BY CalledStep
<1>4. Spec => Map!Spec
  BY <1>1, <1>2, SymInvHolds, PTL DEF Spec, Map!Spec
<1>5. Spec => [][Called]_vars
  BY <1>3, SymInvHolds, PTL DEF Spec
<1> QED
  BY <1>4, <1>5, PTL DEF ImplementsMap, Called
=============================================================================
