------------------------------ MODULE Context -------------------------------
(***************************************************************************)
(* From a configuration file to the running context: the part of           *)
(* read_config and dig_tx_info (config.c) that describes devices, and      *)
(* mk_context with map_port (init.c).  Both run once, before any thread,   *)
(* and are modelled as functions of what they read.                        *)
(*                                                                         *)
(* A json value is [kind |-> "array", elems |-> <<...>>] or                *)
(* [kind |-> "other"]: a field that is missing or is not an array.  The    *)
(* elements of tx_devs are records [address, vlanids, macs] of an address  *)
(* and two such values.  An element that is not of the kind its array is   *)
(* read for is NULL.  Indices start at 1 here and at 0 in the code.        *)
(***************************************************************************)
EXTENDS Integers, Sequences, FiniteSets, SequencesExt

CONSTANTS
    NULL,           \* the nil pointer
    UNSET,          \* what is read from memory that was never written
    POOL_STEP,      \* 512: how much smaller the next pool tried is
    TX_PLACES,      \* the devices dig_tx_info has places for: 64
    ARGV_LEN        \* 64: the room for the arguments given to DPDK

ASSUME PoolStepAssumption == POOL_STEP \in Nat \ {0}
ASSUME PlacesAssumption == TX_PLACES \in Nat \ {0}
ASSUME ArgvAssumption == ARGV_LEN \in Nat /\ ARGV_LEN > 14
\* dig_tx_info has places for all the devices the arguments can name.
ASSUME RoomAssumption == ARGV_LEN <= TX_PLACES

-----------------------------------------------------------------------------
(* read_config.                                                            *)

\* The number of elements; -1 if the thing is not an array.
jw_array_len(v) == IF v.kind = "array" THEN Len(v.elems) ELSE -1

\* What is copied from an array: an element of another kind is skipped, and
\* its place keeps what the memory held.
Copied(elems) == [k \in 1 .. Len(elems) |-> IF elems[k] = NULL THEN UNSET ELSE elems[k]]

\* The elements that are objects, in the order they have.
Objects(elems) ==
    LET found[n \in 0 .. Len(elems)] ==
            IF n = 0 THEN <<>>
            ELSE IF elems[n] = NULL THEN found[n - 1] ELSE Append(found[n - 1], elems[n])
    IN  found[Len(elems)]

\* The devices dig_tx_info finds: the elements of tx_devs that are objects.
TxObjects(json) ==
    IF jw_array_len(json.tx_devs) > 0 THEN Objects(json.tx_devs.elems) ELSE <<>>

\* Faulty variant: the index moves on only past a device that has the array.
TxSet_Packed(objs, field, i) ==
    LET having == SelectSeq(objs, LAMBDA dev : jw_array_len(dev[field]) > 0)
    IN  IF i <= Len(having) THEN Copied(having[i][field].elems)
        ELSE IF i = 1 THEN NULL ELSE UNSET

\* dig_tx_info: the i-th vlan or mac set.  Its array of pointers is cleared for
\* the length of one pointer, and an element is written only for a device that
\* has the field.
TxSet(objs, field, i) ==
    IF i <= Len(objs) /\ jw_array_len(objs[i][field]) > 0
    THEN Copied(objs[i][field].elems)
    ELSE IF i = 1 THEN NULL ELSE UNSET

\* The addresses: one for each element of tx_devs.  A device without an address
\* is called "dup"; behind the last device the names are nil.
TxAddresses(json) ==
    LET objs == TxObjects(json)
        Address(i) == IF i > Len(objs) THEN NULL
                      ELSE IF objs[i].address = NULL THEN "dup" ELSE objs[i].address
    IN  [i \in 1 .. jw_array_len(json.tx_devs) |-> Address(i)]

XmitOption(s) ==
    CASE s = "rts" -> "RETURN_TO_SENDER"
      [] s = "forward" -> "SEND_DOWNSTREAM"
      [] OTHER -> "DROP"

read_config(json) ==
    LET ntx == jw_array_len(json.tx_devs)
        Sets(field) == [i \in 1 .. TX_PLACES |-> TxSet(TxObjects(json), field, i)]
        nrx == jw_array_len(json.rx_devs)
        ndef == jw_array_len(json.default_macs)
    IN  [ nrx_devs |-> nrx,
          rx_devs |-> IF nrx > 0 THEN json.rx_devs.elems ELSE <<>>,
          ntx_devs |-> ntx,
          tx_devs |-> IF ntx > 0 THEN TxAddresses(json) ELSE <<>>,
          vlans |-> IF ntx > 0 THEN Sets("vlanids") ELSE NULL,
          macs |-> IF ntx > 0 THEN Sets("macs") ELSE NULL,
          default_macs |-> IF ndef > 0 THEN json.default_macs.elems ELSE <<>>,
          xmit_type |-> XmitOption(json.xmit_type),
          ds_vlanid |-> json.ds_vlanid,
          duprx2tx |-> json.duprx2tx,
          mbufs |-> json.mbufs,
          des |-> json.rx_des + json.tx_des,
          cpu_mask |-> json.cpu_mask,
          huge_pages |-> json.huge_pages ]

-----------------------------------------------------------------------------
(* initialise_dpdk: the arguments for rte_eal_init.                        *)

\* The program's name and five options with their values; -w and a name for
\* each device, or -w alone where the name is nil.  The process is aborted
\* unless every option finds two places left before the last two.
FixedArgs(cfg) == IF cfg.huge_pages THEN 11 ELSE 12

ArgsFit(cfg) ==
    LET devs == cfg.rx_devs \o (IF cfg.duprx2tx THEN <<>> ELSE cfg.tx_devs)
        before == 1 .. Len(devs) - 1
        nils == {i \in before : devs[i] = NULL}
    IN  FixedArgs(cfg) + 2 * Cardinality(before) - Cardinality(nils) < ARGV_LEN - 2

-----------------------------------------------------------------------------
(* The cores.  A mask is the sequence of its bytes, the lowest first, each   *)
(* the set of its bits.                                                    *)

\* initialise_dpdk: without a usable mask the third core is used, "0x04".
CpuMask(cfg) == IF cfg.cpu_mask = NULL THEN <<{2}>> ELSE cfg.cpu_mask

\* The logical cores the DPDK environment enables for a mask.
EnabledLcores(mask) == UNION {{8 * (k - 1) + b : b \in mask[k]} : k \in 1 .. Len(mask)}

\* The pointer into the mask moves on only past a byte that is not zero: from
\* the first zero byte on nothing is counted.
count_bits(mask) ==
    LET Counted == {k \in 1 .. Len(mask) : \A h \in 1 .. k : mask[h] # {}}
    IN  Cardinality(UNION {{<<k, b>> : b \in mask[k]} : k \in Counted})

-----------------------------------------------------------------------------
(* map_port.                                                               *)

\* Called for every port with its pci id; a port is given to the first device
\* of that name.  -1 is what read_config put into the array of ports.
MapPorts(devs, pciids) ==
    [i \in 1 .. Len(devs) |->
        LET mine == { p \in 1 .. Len(pciids) :
                        /\ pciids[p] = devs[i]
                        /\ \A k \in 1 .. i - 1 : devs[k] # devs[i] }
        IN  IF mine = {} THEN -1 ELSE CHOOSE p \in mine : \A q \in mine : q <= p]

\* ok: how many ports found a device.
PortsMapped(devs, pciids) ==
    Cardinality({p \in 1 .. Len(pciids) : \E i \in 1 .. Len(devs) : devs[i] = pciids[p]})

\* A name that is nil is compared with the id of a port no device before it
\* has: strcmp ends the process.
MapReadsNil(devs, pciids) ==
    \E p \in 1 .. Len(pciids), i \in 1 .. Len(devs) :
        /\ devs[i] = NULL
        /\ \A k \in 1 .. i - 1 : devs[k] # pciids[p]

-----------------------------------------------------------------------------
(* mk_context.                                                             *)

\* Faulty variant: it is enough that some tx device was found.
TxMapped_Some(cfg, pciids) ==
    cfg.ntx_devs > 0 => PortsMapped(cfg.tx_devs, pciids) > 0

\* The devices can be used: every name was mapped; duplicated tx devices need
\* no port but must not outnumber the rx devices.
RxMapped(cfg, pciids) == PortsMapped(cfg.rx_devs, pciids) = cfg.nrx_devs

TxMapped(cfg, pciids) ==
    \/ cfg.ntx_devs <= 0
    \/ cfg.duprx2tx /\ cfg.ntx_devs <= cfg.nrx_devs
    \/ ~cfg.duprx2tx /\ PortsMapped(cfg.tx_devs, pciids) = cfg.ntx_devs

\* Faulty variant: dropping is not forced when there is nothing to send on.
XmitType_NotForced(cfg) ==
    IF cfg.xmit_type = "SEND_DOWNSTREAM" /\ cfg.ds_vlanid > 0
    THEN "SEND_DOWNSTREAM_VLAN"
    ELSE cfg.xmit_type

\* Forwarding inserts vlan ids if there is a downstream id or any tx device
\* was described; without tx interfaces all that is left is to drop.
XmitType(cfg) ==
    IF ~cfg.duprx2tx /\ cfg.ntx_devs <= 0
    THEN "DROP"
    ELSE IF cfg.xmit_type = "SEND_DOWNSTREAM" /\ (cfg.ds_vlanid > 0 \/ cfg.ntx_devs > 0)
    THEN "SEND_DOWNSTREAM_VLAN"
    ELSE cfg.xmit_type

\* One descriptor needs one mbuf.
Need(cfg) ==
    LET ntx == IF cfg.duprx2tx \/ cfg.ntx_devs <= 0 THEN 0 ELSE cfg.ntx_devs
    IN  (cfg.nrx_devs + ntx) * cfg.des

\* Faulty variant: the first try is what the configuration says.
FirstPool_AsConfigured(cfg) == cfg.mbufs

\* The sizes the allocation loop tries, in this order: the first is never less
\* than what is needed, and the loop goes on only while the next is more.
FirstPool(cfg) == IF cfg.mbufs < Need(cfg) THEN Need(cfg) ELSE cfg.mbufs

PoolTries(first, need) ==
    {first} \cup {n \in need + 1 .. first : (first - n) % POOL_STEP = 0}

\* The pool rte_pktmbuf_pool_create gives when it can make one of up to avail
\* mbufs; 0 if no size tried is small enough.
Pool(first, need, avail) ==
    LET fits == {n \in PoolTries(first, need) : n <= avail}
    IN  IF fits = {} THEN 0 ELSE CHOOSE n \in fits : \A m \in fits : m <= n

\* The mapping of the rx, or then of the tx devices does not come to its end.
MkContextCrashes(cfg, hw) ==
    \/ MapReadsNil(cfg.rx_devs, hw.pciids)
    \/ /\ ~cfg.duprx2tx
       /\ RxMapped(cfg, hw.pciids)
       /\ MapReadsNil(cfg.tx_devs, hw.pciids)

\* The context, or NULL.  hw is what the system offers: the pci id of every
\* port and the largest pool that can be made.
mk_context(cfg, hw) ==
    LET pool == Pool(FirstPool(cfg), Need(cfg), hw.avail)
        ntx == IF cfg.duprx2tx THEN cfg.nrx_devs ELSE cfg.ntx_devs
        rx_ports == MapPorts(cfg.rx_devs, hw.pciids)
    IN  IF \/ cfg.nrx_devs <= 0
           \/ ~RxMapped(cfg, hw.pciids)
           \/ ~TxMapped(cfg, hw.pciids)
           \/ pool = 0
        THEN NULL
        ELSE [ nrxifs |-> cfg.nrx_devs,
               ntxifs |-> ntx,
               xmit_type |-> XmitType(cfg),
               tx_dup |-> cfg.duprx2tx,
               rx_ports |-> rx_ports,
               tx_ports |-> IF cfg.duprx2tx THEN rx_ports
                            ELSE MapPorts(cfg.tx_devs, hw.pciids),
               vset |-> [i \in 1 .. ntx |-> IF cfg.vlans = NULL THEN NULL ELSE cfg.vlans[i]],
               mset |-> [i \in 1 .. ntx |-> IF cfg.macs = NULL \/ ~cfg.duprx2tx
                                            THEN NULL ELSE cfg.macs[i]],
               ds_vlanid |-> cfg.ds_vlanid % 65536,
               pool |-> pool,
               need |-> Need(cfg),
               nthreads |-> count_bits(CpuMask(cfg)) ]
=============================================================================
