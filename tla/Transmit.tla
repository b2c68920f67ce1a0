------------------------------ MODULE Transmit ------------------------------
(***************************************************************************)
(* What the packet loop does to a packet before it gives it to the tx      *)
(* buffer, in each of the transmit modes: the inline functions of          *)
(* gobbler.c, with the items get_mac and get_vlan take from the lists of   *)
(* Rotation.  Several threads have packets in hand; a packet belongs to    *)
(* one of them.                                                            *)
(*                                                                         *)
(* A packet is its two addresses and the 16 bit words from the ethernet    *)
(* type on: TAG and an id for each vlan tag, then type and payload.  The   *)
(* offload data of the mbuf are stripped, txvlan (flags) and tci.          *)
(***************************************************************************)
EXTENDS Rotation, Sequences, FiniteSets

CONSTANTS
    Packets,        \* the packets that can be received
    VlanIds,        \* ids that can be in the list or taken from behind it
    MaxPackets      \* bound on the packets

ASSUME ListsAssumption == Lists = {"mac", "vlan"}

TAG == "ETH_PROTO_VLAN"

\* Of the words of a frame: behind n tags comes the type.
TypeBehind(words, n) ==
    words[2 * n + 1] # TAG /\ \A k \in 1 .. n : words[2 * k - 1] = TAG

\* What a packet is made of.  A frame is long enough for a type, and has one.
ASSUME PacketsAssumption ==
    \A p \in Packets :
        /\ DOMAIN p = {"dst", "src", "multicast", "words", "stripped", "txvlan", "tci"}
        /\ p.words = [i \in 1 .. Len(p.words) |-> p.words[i]]
        /\ Len(p.words) \in Nat /\ Len(p.words) >= 2
        /\ \E n \in 0 .. Len(p.words) : 2 * n + 1 <= Len(p.words) /\ TypeBehind(p.words, n)

ASSUME VlanIdsAssumption == VlanIds \subseteq Nat

ASSUME ItemsAssumption == MaxItems \in Nat

VARIABLES
    xmit_type,      \* "RTS", "SEND_DOWNSTREAM", "SEND_DOWNSTREAM_VLAN"; fixed
    expand,         \* expand_pkt_for_vlan, the -e option; fixed
    vlans,          \* the ids in the list of vlan ids; fixed
    ds_vlanid,      \* the id without a list; fixed
    received,       \* per thread: the packet as received
    sent,           \* per thread: and as given to the tx buffer
    todo,           \* per thread: the lists to ask for this packet
    count,          \* the packets so far
    vlan            \* per thread: the id get_vlan gave

frameVars == <<received, sent, count, vlan>>
fixedVars == <<xmit_type, expand, vlans, ds_vlanid>>
vars == <<rotVars, fixedVars, frameVars, todo>>

NoPacket == [words |-> <<>>]

\* What a mode does not look at has one value.
UnusedAreFixed ==
    LET anyId == CHOOSE v \in VlanIds : TRUE IN
    /\ xmit_type # "SEND_DOWNSTREAM_VLAN" => ~expand /\ nitems["vlan"] = 0
    /\ xmit_type # "SEND_DOWNSTREAM_VLAN" \/ nitems["vlan"] > 0 => ds_vlanid = anyId

TInit ==
    /\ Init
    /\ xmit_type \in {"RTS", "SEND_DOWNSTREAM", "SEND_DOWNSTREAM_VLAN"}
    /\ expand \in BOOLEAN
    /\ vlans \in [0 .. nitems["vlan"] - 1 -> VlanIds]
    /\ ds_vlanid \in VlanIds
    /\ UnusedAreFixed
    /\ list = [t \in Threads |-> "mac"]
    /\ received = [t \in Threads |-> NoPacket]
    /\ sent = [t \in Threads |-> NoPacket]
    /\ todo = [t \in Threads |-> {}]
    /\ count = 0
    /\ vlan = [t \in Threads |-> 0]

-----------------------------------------------------------------------------
(* The packet.                                                             *)

\* The two words from the type on become a tag, whatever they were.
insert_vlan(words, id) == [words EXCEPT ![1] = TAG, ![2] = id]

\* rte_pktmbuf_prepend of 4 bytes: the header now starts 4 bytes earlier, so
\* what was the end of the source address is where type and tag go.
Prepended(words) == << "end of src", "end of src" >> \o words

push_mac_addrs(p, dst, src) == [p EXCEPT !.dst = dst, !.src = src]

\* Faulty variant: the address is overwritten before it was copied.
swap_mac_addrs_NoCopy(p) == [p EXCEPT !.dst = p.src, !.src = p.src]

\* Not swapped for a multicast packet: it is sent with the address of the
\* interface.
swap_mac_addrs(p) ==
    [p EXCEPT !.dst = p.src, !.src = IF p.multicast THEN "own" ELSE p.dst]

\* The stripped flag with a tci of 0 is taken to mean that the tag is still there.
StillTagged(p) == p.stripped /\ p.tci = 0

\* Faulty variant: the header is not moved to the new start.
Tagged_Unmoved(p, id) ==
    IF StillTagged(p)
    THEN [p EXCEPT !.words = insert_vlan(@, id), !.stripped = FALSE, !.txvlan = TRUE]
    ELSE [ p EXCEPT !.stripped = FALSE, !.txvlan = TRUE, !.tci = id,
                    !.words = IF expand THEN insert_vlan(@, id) ELSE @ ]

Tagged(p, id) ==
    IF StillTagged(p)
    THEN [p EXCEPT !.words = insert_vlan(@, id), !.stripped = FALSE, !.txvlan = TRUE]
    ELSE [ p EXCEPT !.stripped = FALSE, !.txvlan = TRUE, !.tci = id,
                    !.words = IF expand THEN insert_vlan(Prepended(@), id) ELSE @ ]

push_mac_vlan(p, dst, src, id) ==
    push_mac_addrs(IF id > 0 THEN Tagged(p, id) ELSE p, dst, src)

-----------------------------------------------------------------------------
(* The threads.                                                            *)

\* What a call gave: the item at the index it loaded, or the default.  Behind
\* the list is any memory.
get_mac(t) == IF nitems["mac"] = 0 THEN "own" ELSE <<"mac", took[t]["mac"]>>

Gives(t) ==
    IF nitems["vlan"] = 0 THEN {ds_vlanid}
    ELSE IF took[t]["vlan"] \in DOMAIN vlans THEN {vlans[took[t]["vlan"]]}
    ELSE VlanIds

\* The next packet of a burst, the one before being in the buffer; the lists that
\* are asked for it.  In RTS there is none, also where macs are listed.
Receive(t) ==
    /\ received[t] = NoPacket \/ sent[t] # NoPacket
    /\ count < MaxPackets
    /\ \E p \in Packets : received' = [received EXCEPT ![t] = p]
    /\ count' = count + 1
    /\ sent' = [sent EXCEPT ![t] = NoPacket]
    /\ todo' = [todo EXCEPT ![t] =
                    CASE xmit_type = "RTS" -> {}
                      [] xmit_type = "SEND_DOWNSTREAM" -> {"mac"}
                      [] xmit_type = "SEND_DOWNSTREAM_VLAN" -> {"mac", "vlan"}]
    /\ vlan' = [vlan EXCEPT ![t] = 0]
    /\ UNCHANGED <<rotVars, fixedVars>>

\* get_mac and get_vlan are arguments of one call: either comes first.
Ask(t) ==
    /\ \E l \in todo[t] :
        /\ Call(t, l)
        /\ todo' = [todo EXCEPT ![t] = @ \ {l}]
    /\ UNCHANGED <<fixedVars, frameVars>>

Asked(t) == InCall(t) /\ UNCHANGED <<fixedVars, frameVars, todo>>

\* The packet is changed and goes to rte_eth_tx_buffer.  In SEND_DOWNSTREAM the
\* addresses are pushed twice.
Push(t) ==
    /\ pc[t] = "rest" /\ todo[t] = {} /\ received[t] # NoPacket /\ sent[t] = NoPacket
    /\ \E id \in Gives(t) :
        /\ vlan' = [vlan EXCEPT ![t] = id]
        /\ LET p == received[t]
           IN  sent' = [sent EXCEPT ![t] =
                CASE xmit_type = "RTS" -> swap_mac_addrs(p)
                  [] xmit_type = "SEND_DOWNSTREAM" ->
                        push_mac_addrs(push_mac_addrs(p, "downstream", "own"), "downstream", get_mac(t))
                  [] xmit_type = "SEND_DOWNSTREAM_VLAN" ->
                        push_mac_vlan(p, "downstream", get_mac(t), id)]
    /\ UNCHANGED <<rotVars, fixedVars, received, todo, count>>

TNext == \E t \in mask : Receive(t) \/ Ask(t) \/ Asked(t) \/ Push(t)

TSpec == TInit /\ [][TNext]_vars

-----------------------------------------------------------------------------
(* Properties.                                                             *)

\* The words on the wire: the hardware puts the tag in that tci is for, unless
\* the -e option says that it does not.
Wire(p) == IF p.txvlan /\ p.tci # 0 /\ ~expand THEN <<TAG, p.tci>> \o p.words ELSE p.words

Tags(words) == CHOOSE n \in 0 .. Len(words) : TypeBehind(words, n)

\* Type and payload, behind the tags.
Payload(words) == SubSeq(words, 2 * Tags(words) + 1, Len(words))

Sent(t) == sent[t] # NoPacket

\* gobbler/README.md, 193-194: the macs listed for a device are "also used when
\* xmit_type is set to rts".  The code asks get_mac in the two other modes only.
RtsWithMacs == xmit_type = "RTS" /\ nitems["mac"] > 0

\* Back to the sender, from the address the packet was sent to unless that is not
\* of one station; or downstream, from the address that was taken for this packet,
\* whatever other threads take meanwhile.  Of the source address in RTS with a list
\* of macs nothing is said: it is never one of the list, as the README has it.
AddressedAsAsked ==
    \A t \in mask : Sent(t) =>
        /\ sent[t].dst = IF xmit_type = "RTS" THEN received[t].src ELSE "downstream"
        /\ ~RtsWithMacs =>
            sent[t].src =
                IF xmit_type # "RTS" THEN get_mac(t)
                ELSE IF received[t].multicast THEN "own" ELSE received[t].dst

\* What "still tagged" takes for granted: that no frame had a tag of id 0 that
\* was stripped.  Such a frame looks the same, and loses its type and two bytes.
TagIsThere(p) == StillTagged(p) => p.words[1] = TAG

\* The packet leaves with the id asked for in its outer tag, and with the type
\* and payload it came with, whether its own tag was stripped, marked so only,
\* or never there; without an id it is not touched behind the addresses.
TaggedAsAsked ==
    \A t \in mask : Sent(t) /\ xmit_type = "SEND_DOWNSTREAM_VLAN" =>
        IF vlan[t] = 0
        THEN Wire(sent[t]) = Wire(received[t])
        ELSE LET w == Wire(sent[t])
             IN  /\ w[1] = TAG /\ w[2] = vlan[t]
                 /\ TagIsThere(received[t]) => Payload(w) = Payload(received[t].words)
=============================================================================
