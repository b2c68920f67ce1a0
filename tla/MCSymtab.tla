------------------------------ MODULE MCSymtab ------------------------------
(***************************************************************************)
(* Symtab with an empty list, and one that all names share.                *)
(***************************************************************************)
EXTENDS Symtab, TLC

CONSTANTS n1, n2, n3, v1, v2, c1, c2

MCNames == {n1, n2, n3}
MCVals == {v1, v2}
MCClasses == {c1, c2}
MCHash == n1 :> 2 @@ n2 :> 2 @@ n3 :> 2

\* The names share a list, so they may be exchanged, as may values and classes.
Symmetric ==
    Permutations(MCNames) \cup Permutations(MCVals) \cup Permutations(MCClasses)
=============================================================================
