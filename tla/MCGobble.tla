------------------------------ MODULE MCGobble ------------------------------
(***************************************************************************)
(* Contexts on which TLC checks Gobble.                                    *)
(***************************************************************************)
EXTENDS Gobble

Ctx(nrx, ntx, xt, dup) ==
    [nrxifs |-> nrx, ntxifs |-> ntx, xmit_type |-> xt, tx_dup |-> dup]

\* No tx interface; one rx duplicated; as many tx as rx; more rx than tx (the
\* buffer fills within a pass); more tx than rx (the rotation spans passes).
MCContexts ==
    { Ctx(1, -1, "DROP", FALSE),
      Ctx(1, 1, "RETURN_TO_SENDER", TRUE),
      Ctx(2, 2, "SEND_DOWNSTREAM_VLAN", FALSE),
      Ctx(3, 1, "SEND_DOWNSTREAM_VLAN", FALSE),
      Ctx(1, 2, "DROP", FALSE) }

\* Two interfaces, each receiving and transmitting: rx 0 always gets tx 0.
PairContexts == { Ctx(2, 2, "RETURN_TO_SENDER", TRUE) }
=============================================================================
