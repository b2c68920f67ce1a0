------------------------------- MODULE SymMap -------------------------------
(***************************************************************************)
(* What the symbol table promises: a map from a name and a class to a      *)
(* value, in which a named entry can be put, deleted, or all be cleared.   *)
(***************************************************************************)
CONSTANTS Names, Classes, Vals

VARIABLE map        \* the values of the keys that are in the table

Keys == Names \X Classes

Init == map = [k \in {} |-> {}]

Put(k, v) == map' = [j \in DOMAIN map \cup {k} |-> IF j = k THEN v ELSE map[j]]

Delete(k) == map' = [j \in DOMAIN map \ {k} |-> map[j]]

Clear == map' = [k \in {} |-> {}]

Next ==
    \/ \E k \in Keys, v \in Vals : Put(k, v)
    \/ \E k \in Keys : Delete(k)
    \/ Clear

Spec == Init /\ [][Next]_map
=============================================================================
