------------------------------- MODULE Ledger -------------------------------
(***************************************************************************)
(* What a gobbler thread promises about packets, whatever its buffers and  *)
(* flushes do: a packet taken in is held until it is settled, exactly      *)
(* once, as sent or as lost.  TxAccounting implements this.                *)
(***************************************************************************)
EXTENDS Integers

CONSTANT MaxMove    \* the most packets taken in, or settled, by one step

VARIABLES taken, held, sent, lost

ledger == <<taken, held, sent, lost>>

Init == taken = 0 /\ held = 0 /\ sent = 0 /\ lost = 0

\* Take in n packets, send s and lose l of those in hand.
Move(n, s, l) ==
    /\ s + l <= held + n
    /\ taken' = taken + n
    /\ held' = held + n - (s + l)
    /\ sent' = sent + s
    /\ lost' = lost + l

Amount == 0 .. MaxMove

Next == \E n, s, l \in Amount : Move(n, s, l)

Spec == Init /\ [][Next]_ledger

\* Every packet taken in is in exactly one place.
Balanced == held >= 0 /\ taken = held + sent + lost
=============================================================================
