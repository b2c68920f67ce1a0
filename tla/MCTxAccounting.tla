--------------------------- MODULE MCTxAccounting ---------------------------
(***************************************************************************)
(* Contexts on which TLC checks TxAccounting.                              *)
(***************************************************************************)
EXTENDS TxAccounting

Ctx(nrx, ntx, xt, dup) ==
    [nrxifs |-> nrx, ntxifs |-> ntx, xmit_type |-> xt, tx_dup |-> dup]

\* Dropping; one interface both ways; more rx than tx; as many tx as rx.
MCContexts ==
    { Ctx(1, -1, "DROP", FALSE),
      Ctx(1, 1, "RETURN_TO_SENDER", TRUE),
      Ctx(2, 1, "SEND_DOWNSTREAM_VLAN", FALSE),
      Ctx(2, 2, "SEND_DOWNSTREAM_VLAN", TRUE) }
=============================================================================
