------------------------------- MODULE Symtab -------------------------------
(***************************************************************************)
(* The symbol table of the library, symtab.c: buckets of chained elements, *)
(* an element being found by its name and its class.  The name alone       *)
(* decides the bucket.                                                     *)
(*                                                                         *)
(* sym_foreach_class calls the user back for each element of a class; the  *)
(* user may delete, which is what its saved next pointer is for.  A        *)
(* pointer to an element is its key: no key is put while a walk goes on.   *)
(* sym_put, sym_map and sym_fmap are one operation here: what they do with *)
(* the memory of a value, and the flag that says whether it is freed with  *)
(* its element, are left out, as are the reference, modification and death *)
(* counts, which are only ever printed.                                    *)
(***************************************************************************)
EXTENDS Integers, Sequences, SequencesExt

CONSTANTS
    Names, Classes, Vals,
    Buckets,        \* the hash values, 1 .. size
    Hash,           \* sym_hash: the bucket of each name
    NIL,            \* the nil pointer
    MaxElements     \* bound on the elements in the table

ASSUME HashAssumption == Hash \in [Names -> Buckets]
ASSUME NilAssumption == NIL \notin Names \X Classes

Keys == Names \X Classes

VARIABLES
    chain,          \* per bucket, its elements from the head of the list
    inhabitants,    \* the table's count of them
    walk            \* sym_foreach_class: [class, bucket, at, next, lent]

vars == <<chain, inhabitants, walk>>

\* at: the element the user has in hand, next: the one saved for later.
NoWalk == [class |-> NIL, bucket |-> 0, at |-> NIL, next |-> NIL, lent |-> FALSE]

Init ==
    /\ chain = [b \in Buckets |-> <<>>]
    /\ inhabitants = 0
    /\ walk = NoWalk

KeyOf(e) == <<e.name, e.class>>
InTable(k) == \E b \in Buckets : \E i \in 1 .. Len(chain[b]) : KeyOf(chain[b][i]) = k

-----------------------------------------------------------------------------
(* Finding.                                                                *)

\* The first element of a list the test holds for; 0 if there is none.
First(list, Test(_)) ==
    IF \E i \in 1 .. Len(list) : Test(list[i])
    THEN CHOOSE i \in 1 .. Len(list) : Test(list[i]) /\ \A j \in 1 .. i - 1 : ~Test(list[j])
    ELSE 0

\* Faulty variant: the names are compared only.
same_NameOnly(e, n, c) == e.name = n

same(e, n, c) == e.class = c /\ e.name = n

\* Faulty variant: the loop looks at the head of the list only.
Find_HeadOnly(n, c) ==
    LET list == chain[Hash[n]]
    IN  IF list # <<>> /\ same(list[1], n, c) THEN 1 ELSE 0

Find(n, c) == First(chain[Hash[n]], LAMBDA e : same(e, n, c))

\* sym_get: the value, or nil.
sym_get(n, c) ==
    IF Find(n, c) = 0 THEN NIL ELSE chain[Hash[n]][Find(n, c)].val

\* Faulty variant: the last element of the class is taken.
DelFind_Last(n, c) ==
    LET list == chain[Hash[n]]
        found == {i \in 1 .. Len(list) : list[i].class = c}
    IN  IF found = {} THEN 0 ELSE CHOOSE i \in found : \A j \in found : j <= i

\* What sym_del finds: its loop ends at the first element of the class, or of
\* the class and the name.
DelFind(n, c) ==
    First(chain[Hash[n]], LAMBDA e : ~(e.class # c /\ ~same(e, n, c)))

-----------------------------------------------------------------------------
(* The operations.                                                         *)

\* putin: replace the value, or put a new element at the head of its list.
Put(n, c, v) ==
    /\ walk = NoWalk
    /\ LET b == Hash[n]
           i == Find(n, c)
       IN  IF i # 0
           THEN /\ chain' = [chain EXCEPT ![b][i].val = v]
                /\ UNCHANGED inhabitants
           ELSE /\ inhabitants < MaxElements
                /\ chain' = [chain EXCEPT ![b] = << [name |-> n, class |-> c, val |-> v] >> \o @]
                /\ inhabitants' = inhabitants + 1
    /\ UNCHANGED walk

\* sym_del: del_ele of what was found; if nothing was, nothing happens.
Del(n, c) ==
    /\ LET b == Hash[n]
           i == DelFind(n, c)
       IN  /\ i # 0
           /\ chain' = [chain EXCEPT ![b] = RemoveAt(@, i)]
    /\ inhabitants' = inhabitants - 1

UserDel(n, c) == walk = NoWalk /\ Del(n, c) /\ UNCHANGED walk

\* sym_clear: del_ele of the head of every list until it is empty.
Clear ==
    /\ walk = NoWalk
    /\ inhabitants > 0
    /\ chain' = [b \in Buckets |-> <<>>]
    /\ inhabitants' = 0
    /\ UNCHANGED walk

-----------------------------------------------------------------------------
(* sym_foreach_class.                                                      *)

KeyAt(b, i) == IF i <= Len(chain[b]) THEN KeyOf(chain[b][i]) ELSE NIL
IndexOf(b, k) == CHOOSE i \in 1 .. Len(chain[b]) : KeyOf(chain[b][i]) = k

WalkStart(c) ==
    /\ walk = NoWalk
    /\ walk' = [walk EXCEPT !.class = c]
    /\ UNCHANGED <<chain, inhabitants>>

\* The loop takes se = next, or the head of the next list; it saves se->next
\* and calls the user if the class is right.
WalkOn ==
    /\ walk.class # NIL
    /\ ~walk.lent
    /\ LET b == IF walk.next = NIL THEN walk.bucket + 1 ELSE walk.bucket
       IN  IF b \notin Buckets
           THEN walk' = NoWalk
           ELSE LET k == IF walk.next = NIL THEN KeyAt(b, 1) ELSE walk.next
                IN  walk' = [ walk EXCEPT
                        !.bucket = b,
                        !.at = k,
                        !.next = IF k = NIL THEN NIL ELSE KeyAt(b, IndexOf(b, k) + 1),
                        !.lent = k # NIL /\ k[2] = walk.class ]
    /\ UNCHANGED <<chain, inhabitants>>

\* The user, called back, returns: having done nothing, or having deleted the
\* element it was given, by name.
Callback(delete) ==
    /\ walk.lent
    /\ IF delete THEN Del(walk.at[1], walk.at[2]) ELSE UNCHANGED <<chain, inhabitants>>
    /\ walk' = [walk EXCEPT !.lent = FALSE]

Next ==
    \/ \E n \in Names, c \in Classes :
        \/ \E v \in Vals : Put(n, c, v)
        \/ UserDel(n, c)
    \/ Clear
    \/ \E c \in Classes : WalkStart(c)
    \/ WalkOn
    \/ \E d \in BOOLEAN : Callback(d)

Spec == Init /\ [][Next]_vars

-----------------------------------------------------------------------------
(* Properties.                                                             *)

\* No key is in the table twice, and each is in the list where sym_get looks:
\* otherwise an old value could come back when the newer is deleted.
KeysAreUnique ==
    \A b \in Buckets : \A i, j \in 1 .. Len(chain[b]) :
        /\ Hash[chain[b][i].name] = b
        /\ KeyOf(chain[b][i]) = KeyOf(chain[b][j]) => i = j

\* "using next allows user to delet via this": the element saved for the next
\* round is still there when the callback has deleted the one it was given,
\* although sym_del may delete another one than that.
NextStaysAlive == walk.next # NIL => InTable(walk.next)

Map == INSTANCE SymMap WITH
    map <- [k \in {j \in Keys : Find(j[1], j[2]) # 0} |-> sym_get(k[1], k[2])]

\* Where sym_del is not what its comment says, "delete a named element" (268): an
\* element of the class with another name stands before the named one in its list,
\* or the named one is not there.  The loop (281) ends at the other one.
AnotherFirst(n, c) ==
    LET list == chain[Hash[n]]
    IN  \E i \in 1 .. Len(list) :
            /\ list[i].class = c /\ list[i].name # n
            /\ \A j \in 1 .. i - 1 : ~same(list[j], n, c)

\* Each operation is that of a map from name and class to value, whatever shares a
\* list: putting a value changes what sym_get gives for that key and no other, a
\* delete takes the key named, a clear takes all, and a walk none.  Only a delete
\* where another element comes first is not: it takes exactly one other key, of the
\* same class, from the same list, and leaves the named one.
ImplementsMap ==
    /\ Map!Spec
    /\ [][ /\ \A n \in Names, c \in Classes :
                /\ \A v \in Vals : Put(n, c, v) => Map!Put(<<n, c>>, v)
                /\ Del(n, c) =>
                    IF AnotherFirst(n, c)
                    THEN \E m \in Names \ {n} : Hash[m] = Hash[n] /\ Map!Delete(<<m, c>>)
                    ELSE Map!Delete(<<n, c>>)
           /\ Clear => Map!Clear
         ]_vars
=============================================================================
