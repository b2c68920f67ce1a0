----------------------------- MODULE MCTransmit -----------------------------
(***************************************************************************)
(* Transmit with each kind of packet the receive side can hand over.       *)
(***************************************************************************)
EXTENDS Transmit, TLC

Packet(multicast, tag, stripped, tci) ==
    [ dst |-> "to", src |-> "from", multicast |-> multicast, txvlan |-> FALSE,
      words |-> tag \o <<"IP", "p1", "p2">>, stripped |-> stripped, tci |-> tci ]

MCPackets ==
    { Packet(FALSE, <<>>, FALSE, 0),        \* not tagged
      Packet(TRUE, <<>>, FALSE, 0),         \* to a multicast address
      Packet(FALSE, <<>>, TRUE, 5),         \* its tag stripped
      Packet(FALSE, <<TAG, 5>>, TRUE, 0),   \* marked as stripped, which it is not
      Packet(FALSE, <<TAG, 5>>, FALSE, 0),  \* tagged, and nothing was stripped
      Packet(FALSE, <<>>, TRUE, 0) }        \* a tag of id 0 stripped

\* One thread is the default; the cpu mask can have more.
CONSTANT t1, t2
MCThreads == {t1, t2}
Symmetric == Permutations(MCThreads)
=============================================================================
