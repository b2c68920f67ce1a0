----------------------------- MODULE MCLifecycle -----------------------------
(***************************************************************************)
(* Configurations and systems on which TLC checks Lifecycle.               *)
(***************************************************************************)
EXTENDS Lifecycle

CONSTANTS d1, d2, d3    \* pci ids; few systems have the third

Array(s) == [kind |-> "array", elems |-> s]
Missing == [kind |-> "other"]

Dev(a, vlans, macs) == [address |-> a, vlanids |-> vlans, macs |-> macs]
Bare(a) == Dev(a, Missing, Missing)

Json(rx, tx, dup, xmit) ==
    [ rx_devs |-> rx, tx_devs |-> tx, duprx2tx |-> dup, xmit_type |-> xmit,
      default_macs |-> Array(<<"m1", NULL>>), ds_vlanid |-> 0, mbufs |-> 11, rx_des |-> 2,
      tx_des |-> 2, cpu_mask |-> <<{0, 1}, {}>>, huge_pages |-> TRUE ]

\* Every list of rx devices with every list of tx devices: none, one or two, in
\* or out of the system, the same device in both, elements of another kind, with
\* and without arrays.
RxLists ==
    {Missing, Array(<<>>), Array(<<d1>>), Array(<<d1, d2>>), Array(<<d1, d1>>), Array(<<d3>>),
     Array(<<d1, NULL>>)}
TxLists ==
    {Missing, Array(<<Bare(d2)>>), Array(<<Bare(d2), Dev(d3, Array(<<8>>), Missing)>>),
     Array(<<Dev(d1, Array(<<5, 6>>), Missing)>>),
     Array(<<Bare(d2), Dev(d1, Array(<<7>>), Missing)>>),
     Array(<<NULL, Dev(d2, Array(<<5, NULL>>), Missing)>>),
     Array(<<Bare(NULL), Dev(NULL, Array(<<7>>), Array(<<"m2", Zeros>>))>>),
     Array(<<Dev(NULL, Missing, Array(<<Zeros>>)), Bare(NULL)>>)}

DeviceConfigs ==
    { Json(rx, tx, dup, xmit) :
        rx \in RxLists, tx \in TxLists, dup \in BOOLEAN, xmit \in {"rts", "forward", "drop"} }

\* The masks: none, one core, a mask whose first byte is zero.
MaskConfigs ==
    { [Json(Array(<<d1>>), Missing, TRUE, "rts") EXCEPT !.cpu_mask = m, !.huge_pages = huge] :
        huge \in BOOLEAN, m \in {NULL, <<{2}, {}>>, <<{}, {0, 1}>>} }

\* Plenty of memory, just enough for a smaller pool, not enough; one port, or
\* three.
MCSystems ==
    { [pciids |-> <<d1, d2>>, macs |-> <<"hw1", "hw2">>, avail |-> n] : n \in {100, 9, 3} }
    \cup { [pciids |-> <<d2>>, macs |-> <<"hw2">>, avail |-> 100],
           [pciids |-> <<d1, d2, d3>>, macs |-> <<"hw1", "hw2", "hw3">>, avail |-> 100] }

\* A cluster with the words it takes.
Group(letters, data) == [letters |-> letters, data |-> data]
File == Name("file")

\* The spellings crack_args lists, words in clusters and for the same letter, a
\* word that looks like an option, simulations, and what is refused or ignored.
MCCommandLines ==
    { <<>>,
      <<Group(<<"i">>, <<>>), Group(<<"c">>, <<File>>), Group(<<"e">>, <<>>)>>,
      <<Group(<<"c", "d">>, <<File, Name("64")>>), Group(<<"e">>, <<Name("rest")>>)>>,
      <<Group(<<"d", "c">>, <<Name("64"), Cluster(<<"e">>)>>), Group(<<"v", "c">>, <<File>>)>>,
      <<Group(<<"s", "i">>, <<Name("link_stat")>>)>>,
      <<Group(<<"s">>, <<Name("other")>>)>>,
      <<Group(<<"n", "i">>, <<>>)>>,
      <<Group(<<"i", "c">>, <<>>)>>,
      <<Group(<<"?">>, <<>>)>>,
      <<Group(<<"x">>, <<>>)>> }

\* Every configuration without options, every command line with one of them.
MCInvocations ==
    { [args |-> <<>>, json |-> j] : j \in DeviceConfigs \cup MaskConfigs }
    \cup { [args |-> line, json |-> Json(Array(<<d1, d2>>), Missing, TRUE, "rts")] :
            line \in MCCommandLines }
=============================================================================
