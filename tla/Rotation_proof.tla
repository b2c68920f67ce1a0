--------------------------- MODULE Rotation_proof ---------------------------
(***************************************************************************)
(* Proofs about the rotation, for lists of every length and any number of  *)
(* threads, first of Rotation alone and then of the packets it is used for.*)
(***************************************************************************)
EXTENDS Transmit, SequenceTheorems, TLAPS

RotTypes ==
    /\ mask \in SUBSET Threads
    /\ nitems \in [Lists -> Nat]
    /\ idx \in [Lists -> Nat]
    /\ pc \in [Threads -> {"rest", "test", "wrap", "take", "bump"}]
    /\ list \in [Threads -> Lists]
    /\ took \in [Threads -> [Lists -> Int]]
    /\ prev \in [Threads -> [Lists -> Int]]
    /\ disturbed \in [Threads -> BOOLEAN]
    /\ \A t \in Threads : pc[t] # "rest" => nitems[list[t]] > 0
    /\ \A t \in Threads : pc[t] = "bump" => took[t][list[t]] >= 0

LEMMA InitTypes == Init => RotTypes
  BY ItemsAssumption DEF Init, RotTypes, NoItem

LEMMA StepTypes == RotTypes /\ [Next]_rotVars => RotTypes'
<1> SUFFICES ASSUME RotTypes, [Next]_rotVars PROVE RotTypes'
  OBVIOUS
<1> USE DEF RotTypes
<1>1. ASSUME NEW t \in mask, NEW l \in Lists, Call(t, l) PROVE RotTypes'
  BY <1>1 DEF Call
<1>2. ASSUME NEW t \in mask, Test(t) PROVE RotTypes'
  BY <1>2 DEF Test, PastEnd
<1>3. ASSUME NEW t \in mask, Wrap(t) PROVE RotTypes'
  BY <1>3 DEF Wrap
<1>4. ASSUME NEW t \in mask, Take(t) PROVE RotTypes'
  BY <1>4 DEF Take
<1>5. ASSUME NEW t \in mask, Bump(t) PROVE RotTypes'
  BY <1>5 DEF Bump, Disturb
<1>6. CASE UNCHANGED rotVars
  BY <1>6 DEF rotVars
<1> QED
  BY <1>1, <1>2, <1>3, <1>4, <1>5, <1>6 DEF Next, InCall

-----------------------------------------------------------------------------
(* Several threads.                                                        *)

\* What the test found stays true until another thread writes the index.
UndisturbedInRange ==
    \A t \in Threads : ~disturbed[t] =>
        /\ pc[t] = "take" => idx[list[t]] < nitems[list[t]]
        /\ pc[t] = "bump" => took[t][list[t]] < nitems[list[t]]

LEMMA UndisturbedStep ==
    RotTypes /\ UndisturbedInRange /\ [Next]_rotVars => UndisturbedInRange'
<1> SUFFICES ASSUME RotTypes, UndisturbedInRange, [Next]_rotVars
             PROVE  UndisturbedInRange'
  OBVIOUS
<1> USE DEF RotTypes, UndisturbedInRange
<1>1. ASSUME NEW t \in mask, NEW l \in Lists, Call(t, l) PROVE UndisturbedInRange'
  BY <1>1 DEF Call
<1>2. ASSUME NEW t \in mask, Test(t) PROVE UndisturbedInRange'
  BY <1>2 DEF Test, PastEnd
<1>3. ASSUME NEW t \in mask, Wrap(t) PROVE UndisturbedInRange'
  BY <1>3 DEF Wrap
<1>4. ASSUME NEW t \in mask, Take(t) PROVE UndisturbedInRange'
  BY <1>4 DEF Take
<1>5. ASSUME NEW t \in mask, Bump(t) PROVE UndisturbedInRange'
  BY <1>5 DEF Bump, Disturb
<1>6. CASE UNCHANGED rotVars
  BY <1>6 DEF rotVars
<1> QED
  BY <1>1, <1>2, <1>3, <1>4, <1>5, <1>6 DEF Next, InCall

\* However many threads there are, an item from behind the list is only taken
\* when another thread wrote the index since the test.
THEOREM OverrunExplained ==
    Spec => []OverrunNeedsAnother
<1>1. Init => RotTypes /\ UndisturbedInRange
  BY InitTypes DEF Init, UndisturbedInRange
<1>2. RotTypes /\ UndisturbedInRange /\ [Next]_rotVars => (RotTypes /\ UndisturbedInRange)'
  BY StepTypes, UndisturbedStep
<1>3. RotTypes /\ UndisturbedInRange => OverrunNeedsAnother
  BY DEF RotTypes, UndisturbedInRange, OverrunNeedsAnother
<1> QED
  BY <1>1, <1>2, <1>3, PTL DEF Spec

-----------------------------------------------------------------------------
(* One thread.                                                             *)

Following(k, l) == IF k + 1 = nitems[l] THEN 0 ELSE k + 1

\* The index stands one past the item taken last, at most one past the list, and
\* there only until the next call has tested it.
In(t, l) == IF list[t] = l THEN pc[t] ELSE "rest"

SingleAt(t, l) ==
    /\ took[t][l] >= -1 /\ took[t][l] < nitems[l]
    /\ In(t, l) \in {"rest", "test", "wrap"} => idx[l] = took[t][l] + 1
    /\ In(t, l) = "wrap" => idx[l] = nitems[l]
    /\ In(t, l) = "take" => idx[l] = Following(took[t][l], l)
    /\ In(t, l) = "bump" => idx[l] = took[t][l] /\ took[t][l] = Following(prev[t][l], l)

SingleInv ==
    \A t \in Threads : mask = {t} => \A l \in Lists : nitems[l] > 0 => SingleAt(t, l)

LEMMA SingleStep == RotTypes /\ SingleInv /\ [Next]_rotVars => SingleInv'
<1> SUFFICES ASSUME RotTypes, SingleInv, [Next]_rotVars,
                    NEW t \in Threads, mask' = {t},
                    NEW l \in Lists, nitems'[l] > 0
             PROVE  SingleAt(t, l)'
  BY DEF SingleInv
<1>1. mask = {t} /\ nitems' = nitems
  BY DEF Next, InCall, Call, Test, Wrap, Take, Bump, rotVars
<1>2. SingleAt(t, l)
  BY <1>1 DEF SingleInv
<1>3. nitems[l] \in Nat /\ idx[l] \in Nat /\ took[t][l] \in Int /\ prev[t][l] \in Int
  BY DEF RotTypes
<1>4. ASSUME NEW m \in Lists, Call(t, m) PROVE SingleAt(t, l)'
  BY <1>1, <1>2, <1>4 DEF Call, RotTypes, SingleAt, In, Following
<1>5. CASE list[t] # l /\ InCall(t)
  BY <1>1, <1>2, <1>5 DEF InCall, Test, Wrap, Take, Bump, RotTypes, SingleAt, In, Following
<1>6. CASE list[t] = l /\ Test(t)
  <2>1. /\ pc'[t] = IF idx[l] >= nitems[l] THEN "wrap" ELSE "take"
        /\ list' = list /\ idx' = idx /\ took' = took /\ prev' = prev
    BY <1>6 DEF Test, PastEnd, RotTypes
  <2>2. idx[l] = took[t][l] + 1
    BY <1>2, <1>6 DEF Test, SingleAt, In
  <2> QED
    BY <1>1, <1>2, <1>3, <1>6, <2>1, <2>2 DEF SingleAt, In, Following
<1>7. CASE list[t] = l /\ Wrap(t)
  <2>1. idx'[l] = 0 /\ pc'[t] = "take" /\ list' = list /\ took' = took /\ prev' = prev
    BY <1>7 DEF Wrap, RotTypes
  <2>2. idx[l] = nitems[l] /\ idx[l] = took[t][l] + 1
    BY <1>2, <1>7 DEF Wrap, SingleAt, In
  <2> QED
    BY <1>1, <1>2, <1>3, <1>7, <2>1, <2>2 DEF SingleAt, In, Following
<1>8. CASE list[t] = l /\ Take(t)
  <2>1. /\ took'[t][l] = idx[l] /\ prev'[t][l] = took[t][l]
        /\ pc'[t] = "bump" /\ list' = list /\ idx' = idx
    BY <1>8 DEF Take, RotTypes
  <2>2. idx[l] = Following(took[t][l], l)
    BY <1>2, <1>8 DEF Take, SingleAt, In
  <2> QED
    BY <1>1, <1>2, <1>3, <1>8, <2>1, <2>2 DEF SingleAt, In, Following
<1>9. CASE list[t] = l /\ Bump(t)
  <2>1. /\ idx'[l] = took[t][l] + 1 /\ pc'[t] = "rest"
        /\ list' = list /\ took' = took /\ prev' = prev
    BY <1>9 DEF Bump, RotTypes
  <2> QED
    BY <1>1, <1>2, <1>3, <1>9, <2>1 DEF SingleAt, In
<1>10. CASE UNCHANGED rotVars
  BY <1>2, <1>10 DEF rotVars, SingleAt, In, Following
<1> QED
  BY <1>1, <1>4, <1>5, <1>6, <1>7, <1>8, <1>9, <1>10 DEF Next, InCall

\* A single thread takes the items of each list in turn, the first after the
\* last, and never anything else.
THEOREM OneThreadRotates ==
    Spec => []TakesTheNext
<1>1. Init => RotTypes /\ SingleInv
  BY InitTypes DEF Init, SingleInv, SingleAt, In, NoItem, RotTypes
<1>2. RotTypes /\ SingleInv /\ [Next]_rotVars => (RotTypes /\ SingleInv)'
  BY StepTypes, SingleStep
<1>3. RotTypes /\ SingleInv => TakesTheNext
  BY DEF RotTypes, SingleInv, SingleAt, In, TakesTheNext, Following
<1> QED
  BY <1>1, <1>2, <1>3, PTL DEF Spec
-----------------------------------------------------------------------------
(* The packets.                                                            *)

\* Only lists that exist are asked for; a thread that has a packet in the buffer
\* is in no call.
TransmitInv ==
    /\ xmit_type \in {"RTS", "SEND_DOWNSTREAM", "SEND_DOWNSTREAM_VLAN"}
    /\ todo \in [Threads -> SUBSET Lists]
    /\ received \in [Threads -> Packets \cup {NoPacket}]
    /\ DOMAIN sent = Threads
    /\ \A t \in Threads : Sent(t) => received[t] # NoPacket /\ todo[t] = {} /\ pc[t] = "rest"
    /\ \A t \in Threads : received[t] = NoPacket => todo[t] = {} /\ pc[t] = "rest"

LEMMA StepsRotate == ASSUME RotTypes, TransmitInv, TNext PROVE [Next]_rotVars
<1>1. PICK t \in mask : Receive(t) \/ Ask(t) \/ Asked(t) \/ Push(t)
  BY DEF TNext
<1>2. CASE Receive(t)
  BY <1>2 DEF Receive
<1>3. CASE Ask(t)
  <2>1. PICK l \in todo[t] : Call(t, l)
    BY <1>3 DEF Ask
  <2>2. l \in Lists
    BY DEF RotTypes, TransmitInv
  <2> QED
    BY <2>1, <2>2 DEF Next
<1>4. CASE Asked(t)
  BY <1>4 DEF Asked, Next
<1>5. CASE Push(t)
  BY <1>5 DEF Push
<1> QED
  BY <1>1, <1>2, <1>3, <1>4, <1>5

\* A step of one thread leaves the packets of the others alone.
LEMMA TransmitStep == RotTypes /\ TransmitInv /\ [TNext]_vars => TransmitInv'
<1> SUFFICES ASSUME RotTypes, TransmitInv, [TNext]_vars PROVE TransmitInv'
  OBVIOUS
<1> USE DEF RotTypes, TransmitInv, Sent
<1>1. ASSUME NEW t \in mask, Receive(t) PROVE TransmitInv'
  <2>1. PICK p \in Packets : received' = [received EXCEPT ![t] = p]
    BY <1>1 DEF Receive
  <2>2. todo[t] = {} /\ pc[t] = "rest"
    BY <1>1 DEF Receive
  <2>3. todo' \in [Threads -> SUBSET Lists]
    BY <1>1, ListsAssumption DEF Receive
  <2>4. p # NoPacket
    <3>1. "dst" \in DOMAIN p
      BY PacketsAssumption
    <3>2. DOMAIN NoPacket = {"words"}
      BY DEF NoPacket
    <3> QED
      BY <3>1, <3>2
  <2> QED
    BY <1>1, <2>1, <2>2, <2>3, <2>4 DEF Receive, rotVars, fixedVars
<1>2. ASSUME NEW t \in mask, Ask(t) PROVE TransmitInv'
  <2>1. PICK l \in todo[t] : Call(t, l) /\ todo' = [todo EXCEPT ![t] = @ \ {l}]
    BY <1>2 DEF Ask
  <2> QED
    BY <1>2, <2>1 DEF Ask, Call, frameVars, fixedVars
<1>3. ASSUME NEW t \in mask, Asked(t) PROVE TransmitInv'
  BY <1>3 DEF Asked, InCall, Test, Wrap, Take, Bump, frameVars, fixedVars
<1>4. ASSUME NEW t \in mask, Push(t) PROVE TransmitInv'
  BY <1>4 DEF Push, rotVars, fixedVars
<1>5. CASE UNCHANGED vars
  BY <1>5 DEF vars, rotVars, frameVars, fixedVars
<1> QED
  BY <1>1, <1>2, <1>3, <1>4, <1>5 DEF TNext

\* Sending packets uses the rotation as it is meant to be used: every behaviour
\* of Transmit is one of Rotation.
THEOREM TransmitRotates == TSpec => Spec
<1>1. TInit => Init /\ RotTypes /\ TransmitInv
  BY InitTypes DEF TInit, TransmitInv, Init, Sent
<1>2. RotTypes /\ TransmitInv /\ [TNext]_vars => [Next]_rotVars
  BY StepsRotate DEF vars
<1>3. RotTypes /\ TransmitInv /\ [TNext]_vars => (RotTypes /\ TransmitInv)'
  BY <1>2, StepTypes, TransmitStep
<1> QED
  BY <1>1, <1>2, <1>3, PTL DEF TSpec, Spec

-----------------------------------------------------------------------------
(* The addresses.                                                          *)

\* The item a thread took for a packet is still the one it took last.
LEMMA AddressStep ==
    RotTypes /\ TransmitInv /\ AddressedAsAsked /\ [TNext]_vars => AddressedAsAsked'
<1> SUFFICES ASSUME RotTypes, TransmitInv, AddressedAsAsked, [TNext]_vars,
                    NEW u \in mask', Sent(u)'
             PROVE  /\ sent'[u].dst = IF xmit_type' = "RTS" THEN received'[u].src ELSE "downstream"
                    /\ ~RtsWithMacs' =>
                        sent'[u].src =
                            IF xmit_type' # "RTS" THEN get_mac(u)'
                            ELSE IF received'[u].multicast THEN "own" ELSE received'[u].dst
  BY DEF AddressedAsAsked
<1>1. u \in mask /\ u \in Threads /\ mask' = mask /\ xmit_type' = xmit_type /\ nitems' = nitems
  BY DEF TNext, Receive, Ask, Asked, Push, vars, rotVars, fixedVars, RotTypes,
         InCall, Call, Test, Wrap, Take, Bump
<1>2. CASE ~Sent(u) \/ sent'[u] # sent[u]
  <2>1. PICK t \in mask : Receive(t) \/ Push(t)
    BY <1>2 DEF TNext, Ask, Asked, vars, frameVars, Sent
  <2>2. Push(t) /\ t = u
    BY <1>1, <1>2, <2>1 DEF Receive, Push, Sent, TransmitInv, RotTypes
  <2>3. received' = received /\ took' = took /\ received[u] \in Packets
    BY <1>1, <2>2 DEF Push, rotVars, TransmitInv
  <2>4. {"dst", "src", "multicast", "words", "stripped", "txvlan", "tci"} = DOMAIN received[u]
    BY <2>3, PacketsAssumption
  <2>5. get_mac(u)' = get_mac(u)
    BY <1>1, <2>3 DEF get_mac
  <2>6. CASE xmit_type = "RTS"
    <3>1. sent'[u] = swap_mac_addrs(received[u])
      BY <1>1, <2>2, <2>6 DEF Push, TransmitInv
    <3> QED
      BY <1>1, <2>3, <2>4, <2>6, <3>1 DEF swap_mac_addrs
  <2>7. CASE xmit_type = "SEND_DOWNSTREAM"
    <3>1. sent'[u] = push_mac_addrs(push_mac_addrs(received[u], "downstream", "own"), "downstream", get_mac(u))
      BY <1>1, <2>2, <2>7 DEF Push, TransmitInv
    <3> QED
      BY <1>1, <2>4, <2>5, <2>7, <3>1 DEF push_mac_addrs
  <2>8. CASE xmit_type = "SEND_DOWNSTREAM_VLAN"
    <3>1. PICK id : sent'[u] = push_mac_vlan(received[u], "downstream", get_mac(u), id)
      BY <1>1, <2>2, <2>8 DEF Push, TransmitInv
    <3>2. DOMAIN Tagged(received[u], id) = DOMAIN received[u]
      BY <2>4 DEF Tagged
    <3> QED
      BY <1>1, <2>4, <2>5, <2>8, <3>1, <3>2 DEF push_mac_vlan, push_mac_addrs
  <2> QED
    BY <2>6, <2>7, <2>8 DEF TransmitInv
<1>3. CASE Sent(u) /\ sent'[u] = sent[u]
  <2>1. received'[u] = received[u] /\ took'[u] = took[u]
    BY <1>1, <1>3 DEF TNext, Receive, Ask, Asked, Push, vars, rotVars, frameVars, Sent,
       TransmitInv, RotTypes, InCall, Call, Test, Wrap, Take, Bump
  <2> QED
    BY <1>1, <1>3, <2>1 DEF AddressedAsAsked, get_mac, RtsWithMacs
<1> QED
  BY <1>2, <1>3

\* Every packet is sent to whom its mode says and from the address asked for, the
\* one taken for it from the list, however the calls of several threads interleave;
\* left out is the source address in RTS with a list of macs, which the code does
\* not look at.
THEOREM AddressesAreRight == TSpec => []AddressedAsAsked
<1>1. TInit => RotTypes /\ TransmitInv /\ AddressedAsAsked
  BY InitTypes DEF TInit, TransmitInv, Init, Sent, AddressedAsAsked, RotTypes
<1>2. RotTypes /\ TransmitInv /\ [TNext]_vars => (RotTypes /\ TransmitInv)'
  <2>1. RotTypes /\ TransmitInv /\ [TNext]_vars => [Next]_rotVars
    BY StepsRotate DEF vars
  <2> QED
    BY <2>1, StepTypes, TransmitStep
<1>3. RotTypes /\ TransmitInv /\ AddressedAsAsked /\ [TNext]_vars => AddressedAsAsked'
  BY AddressStep
<1> QED
  BY <1>1, <1>2, <1>3, PTL DEF TSpec

-----------------------------------------------------------------------------
(* The tags.                                                               *)

LEMMA TupleIsSeq ==
    ASSUME NEW S, NEW n \in Nat, NEW f, f = [i \in 1 .. n |-> f[i]], \A i \in 1 .. n : f[i] \in S
    PROVE  f \in Seq(S)
<1>1. f \in [1 .. n -> S]
  OBVIOUS
<1> QED
  BY <1>1, SeqDef

LEMMA PairFacts ==
    ASSUME NEW S, NEW a \in S, NEW b \in S
    PROVE  <<a, b>> \in Seq(S) /\ Len(<<a, b>>) = 2 /\ <<a, b>>[1] = a /\ <<a, b>>[2] = b
  OBVIOUS

Put(a, b, s) == <<a, b>> \o s

LEMMA PutSeq ==
    \A S : \A a, b \in S : \A s \in Seq(S) :
        Put(a, b, s) \in Seq(S) /\ Len(Put(a, b, s)) = Len(s) + 2
  BY DEF Put

LEMMA PutFirst ==
    \A S : \A a, b \in S : \A s \in Seq(S) : Put(a, b, s)[1] = a /\ Put(a, b, s)[2] = b
<1> SUFFICES ASSUME NEW S, NEW a \in S, NEW b \in S, NEW s \in Seq(S)
             PROVE  Put(a, b, s)[1] = a /\ Put(a, b, s)[2] = b
  OBVIOUS
<1>1. Len(s) \in Nat
  OBVIOUS
<1>2. <<a, b>> \in Seq(S) /\ Len(<<a, b>>) = 2 /\ <<a, b>>[1] = a /\ <<a, b>>[2] = b
  BY PairFacts
<1>3. \A i \in 1 .. 2 + Len(s) : Put(a, b, s)[i] = IF i <= 2 THEN <<a, b>>[i] ELSE s[i - 2]
  BY <1>2, ConcatProperties DEF Put
<1>4. 1 \in 1 .. 2 + Len(s) /\ 2 \in 1 .. 2 + Len(s)
  BY <1>1
<1> HIDE DEF Put
<1> QED
  BY <1>2, <1>3, <1>4

LEMMA PutRest ==
    \A S : \A a, b \in S : \A s \in Seq(S) :
        \A i \in 3 .. Len(s) + 2 : Put(a, b, s)[i] = s[i - 2]
<1> SUFFICES ASSUME NEW S, NEW a \in S, NEW b \in S, NEW s \in Seq(S), NEW i \in 3 .. Len(s) + 2
             PROVE  Put(a, b, s)[i] = s[i - 2]
  OBVIOUS
<1>1. <<a, b>> \in Seq(S) /\ Len(<<a, b>>) = 2
  BY PairFacts
<1>2. i \in 1 .. 2 + Len(s) /\ ~(i <= 2)
  OBVIOUS
<1>3. \A j \in 1 .. 2 + Len(s) : Put(a, b, s)[j] = IF j <= 2 THEN <<a, b>>[j] ELSE s[j - 2]
  BY <1>1, ConcatProperties DEF Put
<1> QED
  BY <1>2, <1>3

LEMMA OverSeq ==
    \A S : \A id \in S : \A s \in Seq(S) :
        TAG \in S /\ Len(s) >= 2 =>
            insert_vlan(s, id) \in Seq(S) /\ Len(insert_vlan(s, id)) = Len(s)
  BY DEF insert_vlan

LEMMA OverFirst ==
    \A S : \A id \in S : \A s \in Seq(S) :
        Len(s) >= 2 => insert_vlan(s, id)[1] = TAG /\ insert_vlan(s, id)[2] = id
  BY DEF insert_vlan

LEMMA OverRest ==
    \A S : \A id \in S : \A s \in Seq(S) : \A i \in 3 .. Len(s) : insert_vlan(s, id)[i] = s[i]
  BY DEF insert_vlan

\* The tags of a frame end in one place only.
LEMMA TagsAre ==
    ASSUME NEW words, Len(words) \in Nat, NEW n \in 0 .. Len(words), TypeBehind(words, n)
    PROVE  Tags(words) = n
<1>1. ASSUME NEW m \in 0 .. Len(words), TypeBehind(words, m), m < n PROVE FALSE
  <2>1. m + 1 \in 1 .. n /\ 2 * (m + 1) - 1 = 2 * m + 1
    BY <1>1
  <2>2. words[2 * (m + 1) - 1] = TAG
    BY <2>1 DEF TypeBehind
  <2> QED
    BY <1>1, <2>1, <2>2 DEF TypeBehind
<1>2. ASSUME NEW m \in 0 .. Len(words), TypeBehind(words, m), n < m PROVE FALSE
  <2>1. n + 1 \in 1 .. m /\ 2 * (n + 1) - 1 = 2 * n + 1
    BY <1>2
  <2>2. words[2 * (n + 1) - 1] = TAG
    BY <1>2, <2>1 DEF TypeBehind
  <2> QED
    BY <2>1, <2>2 DEF TypeBehind
<1>3. Tags(words) \in 0 .. Len(words) /\ TypeBehind(words, Tags(words))
  BY DEF Tags
<1> QED
  BY <1>1, <1>2, <1>3

LEMMA FrameFacts ==
    ASSUME NEW p \in Packets
    PROVE  /\ DOMAIN p = {"dst", "src", "multicast", "words", "stripped", "txvlan", "tci"}
           /\ \A S : (\A i \in 1 .. Len(p.words) : p.words[i] \in S) => p.words \in Seq(S)
           /\ Len(p.words) \in Nat /\ Len(p.words) >= 2
           /\ Tags(p.words) \in 0 .. Len(p.words)
           /\ 2 * Tags(p.words) + 1 <= Len(p.words)
           /\ TypeBehind(p.words, Tags(p.words))
<1>1. /\ DOMAIN p = {"dst", "src", "multicast", "words", "stripped", "txvlan", "tci"}
      /\ p.words = [i \in 1 .. Len(p.words) |-> p.words[i]]
      /\ Len(p.words) \in Nat /\ Len(p.words) >= 2
  BY PacketsAssumption
<1>2. PICK n \in 0 .. Len(p.words) : 2 * n + 1 <= Len(p.words) /\ TypeBehind(p.words, n)
  BY PacketsAssumption
<1>3. ASSUME NEW S, \A i \in 1 .. Len(p.words) : p.words[i] \in S PROVE p.words \in Seq(S)
  BY <1>1, <1>3, TupleIsSeq
<1>4. Tags(p.words) = n
  BY <1>1, <1>2, TagsAre
<1> QED
  BY <1>1, <1>2, <1>3, <1>4

\* A tag put over the outer one of a frame leaves all behind it.
LEMMA OverTag ==
    ASSUME NEW p \in Packets, NEW id
    PROVE  LET w == insert_vlan(p.words, id)
           IN  /\ w[1] = TAG /\ w[2] = id
               /\ p.words[1] = TAG => Payload(w) = Payload(p.words)
<1> DEFINE words == p.words
           w == insert_vlan(words, id)
           S == {words[i] : i \in 1 .. Len(words)} \cup {TAG, id}
           n == Tags(words)
<1>1. words \in Seq(S) /\ Len(words) \in Nat /\ Len(words) >= 2
  <2>1. \A i \in 1 .. Len(words) : words[i] \in S
    OBVIOUS
  <2> HIDE DEF S
  <2> QED
    BY <2>1, FrameFacts
<1>2. n \in 0 .. Len(words) /\ 2 * n + 1 <= Len(words) /\ TypeBehind(words, n)
  BY FrameFacts
<1> HIDE DEF S, n, words
<1>3. /\ Len(w) = Len(words) /\ w[1] = TAG /\ w[2] = id
      /\ \A i \in 3 .. Len(words) : w[i] = words[i]
  BY <1>1 DEF insert_vlan
<1>4. w \in Seq(S)
  BY <1>1 DEF insert_vlan, S
<1>5. ASSUME words[1] = TAG PROVE Payload(w) = Payload(words)
  <2>1. n >= 1
    <3>1. ASSUME n = 0 PROVE FALSE
      BY <1>2, <1>5, <3>1 DEF TypeBehind
    <3> QED
      BY <1>2, <3>1
  <2>2. w[2 * n + 1] # TAG
    BY <1>1, <1>2, <1>3, <2>1 DEF TypeBehind
  <2>3. ASSUME NEW k \in 1 .. n PROVE w[2 * k - 1] = TAG
    <3>1. words[2 * k - 1] = TAG /\ 2 * k - 1 \in {1} \cup 3 .. Len(words)
      BY <1>2 DEF TypeBehind
    <3> QED
      BY <1>3, <3>1
  <2>4. Tags(w) = n
    <3>1. TypeBehind(w, n)
      BY <2>2, <2>3 DEF TypeBehind
    <3> HIDE DEF w
    <3> QED
      BY <1>1, <1>2, <1>3, <3>1, TagsAre
  <2> HIDE DEF w
  <2>5. SubSeq(w, 2 * n + 1, Len(w)) = SubSeq(words, 2 * n + 1, Len(words))
    <3> DEFINE a == SubSeq(w, 2 * n + 1, Len(w))
               b == SubSeq(words, 2 * n + 1, Len(words))
    <3>1. /\ a \in Seq(S) /\ Len(a) = Len(words) - 2 * n
          /\ \A i \in 1 .. Len(words) - 2 * n : a[i] = w[2 * n + i]
      BY <1>1, <1>2, <1>3, <1>4
    <3>2. /\ b \in Seq(S) /\ Len(b) = Len(words) - 2 * n
          /\ \A i \in 1 .. Len(words) - 2 * n : b[i] = words[2 * n + i]
      BY <1>1, <1>2
    <3>3. \A i \in 1 .. Len(words) - 2 * n : w[2 * n + i] = words[2 * n + i]
      BY <1>1, <1>2, <1>3, <2>1
    <3> HIDE DEF a, b
    <3>4. a = b
      BY <3>1, <3>2, <3>3, SeqEqual
    <3> QED
      BY <3>4 DEF a, b
  <2> QED
    BY <2>4, <2>5 DEF Payload, n
<1> QED
  BY <1>3, <1>5 DEF words

\* A tag put in front of a frame leaves it whole.
LEMMA InFront ==
    ASSUME NEW p \in Packets, NEW id
    PROVE  LET w == Put(TAG, id, p.words)
           IN  /\ w[1] = TAG /\ w[2] = id /\ Payload(w) = Payload(p.words)
               /\ insert_vlan(Prepended(p.words), id) = w
<1> DEFINE words == p.words
           w == Put(TAG, id, words)
           old == "end of src"
           S == {words[i] : i \in 1 .. Len(words)} \cup {TAG, id, old}
           n == Tags(words)
<1>1. words \in Seq(S) /\ Len(words) \in Nat /\ Len(words) >= 2
  <2>1. \A i \in 1 .. Len(words) : words[i] \in S
    OBVIOUS
  <2> HIDE DEF S
  <2> QED
    BY <2>1, FrameFacts
<1>2. n \in 0 .. Len(words) /\ 2 * n + 1 <= Len(words) /\ TypeBehind(words, n)
  BY FrameFacts
<1>3. TAG \in S /\ id \in S /\ old \in S
  OBVIOUS
<1> HIDE DEF S, n, words, old
<1>5. w \in Seq(S) /\ Len(w) = Len(words) + 2
  BY <1>1, <1>3, PutSeq
<1>first. w[1] = TAG /\ w[2] = id
  BY <1>1, <1>3, PutFirst
<1>rest. \A i \in 3 .. Len(words) + 2 : w[i] = words[i - 2]
  BY <1>1, <1>3, PutRest
<1>6. insert_vlan(Prepended(words), id) = w
  <2> DEFINE r == Put(old, old, words)
             v == insert_vlan(r, id)
  <2>1. r \in Seq(S) /\ Len(r) = Len(words) + 2
    BY <1>1, <1>3, PutSeq
  <2>2. \A i \in 3 .. Len(words) + 2 : r[i] = words[i - 2]
    BY <1>1, <1>3, PutRest
  <2>3. r = Prepended(words)
    BY DEF Prepended, Put, old
  <2> HIDE DEF r
  <2>4. Len(r) >= 2
    BY <1>1, <2>1
  <2>5. v \in Seq(S) /\ Len(v) = Len(r)
    BY <1>3, <2>1, <2>4, OverSeq
  <2>6. v[1] = TAG /\ v[2] = id
    BY <1>3, <2>1, <2>4, OverFirst
  <2>7. \A i \in 3 .. Len(r) : v[i] = r[i]
    BY <1>3, <2>1, OverRest
  <2> HIDE DEF v, w
  <2>8. ASSUME NEW i \in 1 .. Len(words) + 2 PROVE v[i] = w[i]
    <3>1. CASE i \in 3 .. Len(words) + 2
      BY <1>rest, <2>1, <2>2, <2>7, <3>1
    <3>2. CASE i = 1 \/ i = 2
      BY <1>first, <2>6, <3>2
    <3> QED
      BY <1>1, <3>1, <3>2
  <2>9. v = w
    BY <1>5, <2>1, <2>5, <2>8, SeqEqual
  <2> QED
    BY <2>3, <2>9 DEF v
<1> HIDE DEF w
<1>7. Tags(w) = n + 1
  <2>1. w[2 * (n + 1) + 1] # TAG
    <3>1. 2 * (n + 1) + 1 \in 3 .. Len(words) + 2 /\ (2 * (n + 1) + 1) - 2 = 2 * n + 1
      BY <1>1, <1>2
    <3> QED
      BY <1>2, <1>rest, <3>1 DEF TypeBehind
  <2>2. ASSUME NEW k \in 1 .. n + 1 PROVE w[2 * k - 1] = TAG
    <3>1. CASE k = 1
      BY <1>first, <3>1
    <3>2. CASE k # 1
      <4>1. /\ k - 1 \in 1 .. n /\ 2 * k - 1 \in 3 .. Len(words) + 2
            /\ (2 * k - 1) - 2 = 2 * (k - 1) - 1
        BY <1>1, <1>2, <3>2
      <4>2. words[2 * (k - 1) - 1] = TAG
        BY <1>2, <4>1 DEF TypeBehind
      <4> QED
        BY <1>rest, <4>1, <4>2
    <3> QED
      BY <3>1, <3>2
  <2>3. TypeBehind(w, n + 1)
    BY <2>1, <2>2 DEF TypeBehind
  <2> QED
    BY <1>1, <1>2, <1>5, <2>3, TagsAre
<1>8. SubSeq(w, 2 * (n + 1) + 1, Len(w)) = SubSeq(words, 2 * n + 1, Len(words))
  <2> DEFINE a == SubSeq(w, 2 * (n + 1) + 1, Len(w))
             b == SubSeq(words, 2 * n + 1, Len(words))
  <2> DEFINE from == 2 * (n + 1) + 1
  <2>0. from \in 1 .. Len(w) + 1 /\ from = 2 * n + 3 /\ Len(w) \in Nat
    BY <1>1, <1>2, <1>5
  <2>1. /\ a \in Seq(S) /\ Len(a) = Len(words) - 2 * n
        /\ \A i \in 1 .. Len(words) - 2 * n : a[i] = w[(2 * n + i) + 2]
    <3> HIDE DEF from
    <3>1. SubSeq(w, from, Len(w)) \in Seq(S)
      BY <1>1, <1>5, <2>0, SubSeqProperties
    <3>2. /\ Len(SubSeq(w, from, Len(w))) = Len(w) - from + 1
          /\ \A i \in 1 .. Len(w) - from + 1 : SubSeq(w, from, Len(w))[i] = w[from + i - 1]
      BY <1>1, <1>5, <2>0, SubSeqProperties
    <3>3. Len(w) - from + 1 = Len(words) - 2 * n
      BY <1>1, <1>2, <1>5, <2>0
    <3>4. \A i \in 1 .. Len(words) - 2 * n : from + i - 1 = (2 * n + i) + 2
      BY <1>1, <1>2, <2>0
    <3> QED
      BY <3>1, <3>2, <3>3, <3>4 DEF from
  <2>2. /\ b \in Seq(S) /\ Len(b) = Len(words) - 2 * n
        /\ \A i \in 1 .. Len(words) - 2 * n : b[i] = words[2 * n + i]
    BY <1>1, <1>2
  <2> HIDE DEF a, b
  <2>4. ASSUME NEW i \in 1 .. Len(words) - 2 * n PROVE a[i] = b[i]
    <3>1. (2 * n + i) + 2 \in 3 .. Len(words) + 2 /\ ((2 * n + i) + 2) - 2 = 2 * n + i
      BY <1>1, <1>2
    <3>2. w[(2 * n + i) + 2] = words[2 * n + i]
      BY <1>rest, <3>1
    <3> QED
      BY <2>1, <2>2, <3>2
  <2>5. a = b
    BY <2>1, <2>2, <2>4, SeqEqual
  <2> QED
    BY <2>5 DEF a, b
<1>9. Payload(w) = Payload(words)
  BY <1>7, <1>8 DEF Payload, n
<1> QED
  BY <1>first, <1>6, <1>9 DEF words, w

\* What goes on the wire for an id: the tag over the old one if that is still
\* there, in front otherwise, put there by the hardware or by us.
LEMMA OnTheWire ==
    ASSUME NEW p \in Packets, NEW dst, NEW src, NEW id \in Nat,
           NEW out, out = push_mac_vlan(p, dst, src, id)
    PROVE  /\ id = 0 => Wire(out) = Wire(p)
           /\ id # 0 /\ StillTagged(p) => Wire(out) = insert_vlan(p.words, id)
           /\ id # 0 /\ ~StillTagged(p) => Wire(out) = Put(TAG, id, p.words)
<1> DEFINE q == IF id > 0 THEN Tagged(p, id) ELSE p
           r == push_mac_addrs(q, dst, src)
<1>0. DOMAIN p = {"dst", "src", "multicast", "words", "stripped", "txvlan", "tci"}
  BY FrameFacts
<1>1. DOMAIN q = DOMAIN p
  BY DEF Tagged
<1>2. r.words = q.words /\ r.txvlan = q.txvlan /\ r.tci = q.tci
  BY <1>0, <1>1 DEF push_mac_addrs
<1>r. out = r
  BY DEF push_mac_vlan
<1> HIDE DEF r
<1>3. CASE id = 0
  BY <1>r, <1>2, <1>3 DEF Wire
<1>4. CASE id # 0 /\ StillTagged(p)
  <2>1. q = [p EXCEPT !.words = insert_vlan(@, id), !.stripped = FALSE, !.txvlan = TRUE]
    BY <1>4 DEF Tagged
  <2>2. q.words = insert_vlan(p.words, id) /\ q.tci = p.tci /\ p.tci = 0
    BY <1>0, <1>4, <2>1 DEF StillTagged
  <2> QED
    BY <1>r, <1>2, <1>4, <2>2 DEF Wire
<1>5. CASE id # 0 /\ ~StillTagged(p)
  <2>1. q = [ p EXCEPT !.stripped = FALSE, !.txvlan = TRUE, !.tci = id,
                       !.words = IF expand THEN insert_vlan(Prepended(@), id) ELSE @ ]
    BY <1>5 DEF Tagged
  <2>2. /\ q.txvlan = TRUE /\ q.tci = id
        /\ q.words = IF expand THEN insert_vlan(Prepended(p.words), id) ELSE p.words
    BY <1>0, <2>1
  <2>3. insert_vlan(Prepended(p.words), id) = Put(TAG, id, p.words)
    BY InFront, Zenon
  <2> QED
    <3>1. r.txvlan = TRUE /\ r.tci = id
      BY <1>2, <2>2
    <3>2. r.words = IF expand THEN Put(TAG, id, p.words) ELSE p.words
      BY <1>2, <2>2, <2>3
    <3>3. Wire(r) = Put(TAG, id, p.words)
      BY <1>5, <3>1, <3>2 DEF Wire, Put
    <3> QED
      BY <1>r, <1>5, <3>3
<1> QED
  BY <1>3, <1>4, <1>5

\* A packet in the buffer is the one received, pushed with the id noted.
IdsTyped ==
    /\ ds_vlanid \in VlanIds
    /\ vlans \in [0 .. nitems["vlan"] - 1 -> VlanIds]
    /\ DOMAIN vlan = Threads

PushedAs ==
    \A t \in Threads : Sent(t) /\ xmit_type = "SEND_DOWNSTREAM_VLAN" =>
        /\ vlan[t] \in VlanIds
        /\ \E src : sent[t] = push_mac_vlan(received[t], "downstream", src, vlan[t])

LEMMA PushedStep ==
    RotTypes /\ TransmitInv /\ IdsTyped /\ PushedAs /\ [TNext]_vars => (IdsTyped /\ PushedAs)'
<1> SUFFICES ASSUME RotTypes, TransmitInv, IdsTyped, PushedAs, [TNext]_vars
             PROVE  IdsTyped' /\ PushedAs'
  OBVIOUS
<1>1. /\ ds_vlanid' = ds_vlanid /\ vlans' = vlans /\ nitems' = nitems
      /\ xmit_type' = xmit_type /\ expand' = expand
  BY DEF TNext, Receive, Ask, Asked, Push, vars, rotVars, fixedVars,
         InCall, Call, Test, Wrap, Take, Bump
<1>2. IdsTyped'
  <2>1. DOMAIN vlan' = DOMAIN vlan
    BY DEF TNext, Receive, Ask, Asked, Push, vars, frameVars
  <2> QED
    BY <1>1, <2>1 DEF IdsTyped
<1>3. ASSUME NEW u \in Threads, Sent(u)', xmit_type = "SEND_DOWNSTREAM_VLAN"
      PROVE  /\ vlan'[u] \in VlanIds
             /\ \E src : sent'[u] = push_mac_vlan(received'[u], "downstream", src, vlan'[u])
  <2>1. CASE \E t \in mask : Push(t) /\ t = u
    <3>1. PICK id \in Gives(u) : /\ vlan' = [vlan EXCEPT ![u] = id]
                                 /\ sent'[u] = push_mac_vlan(received[u], "downstream", get_mac(u), id)
      <4>1. PICK id \in Gives(u) :
                /\ vlan' = [vlan EXCEPT ![u] = id]
                /\ sent' = [sent EXCEPT ![u] = push_mac_vlan(received[u], "downstream", get_mac(u), id)]
        BY <1>3, <2>1 DEF Push
      <4> QED
        BY <4>1 DEF TransmitInv
    <3>2. id \in VlanIds
      BY DEF Gives, IdsTyped
    <3>3. vlan'[u] = id /\ received' = received
      BY <2>1, <3>1 DEF IdsTyped, Push
    <3>4. push_mac_vlan(received[u], "downstream", get_mac(u), id)
             = push_mac_vlan(received'[u], "downstream", get_mac(u), vlan'[u])
      BY <3>3
    <3> QED
      BY <3>1, <3>2, <3>3, <3>4
  <2>2. CASE ~ \E t \in mask : Push(t) /\ t = u
    <3>1. Sent(u) /\ sent'[u] = sent[u] /\ received'[u] = received[u] /\ vlan'[u] = vlan[u]
      BY <1>3, <2>2 DEF TNext, Receive, Ask, Asked, Push, vars, frameVars, Sent, TransmitInv, IdsTyped
    <3> QED
      BY <1>3, <3>1 DEF PushedAs
  <2> QED
    BY <2>1, <2>2
<1>4. ASSUME NEW p, NEW dst, NEW src, NEW id
      PROVE  push_mac_vlan(p, dst, src, id)' = push_mac_vlan(p, dst, src, id)
  BY <1>1 DEF push_mac_vlan, push_mac_addrs, Tagged
<1> QED
  BY <1>1, <1>2, <1>3, <1>4 DEF PushedAs

\* Every packet leaves with the id taken for it in its outer tag and with all it
\* had behind its tags, for frames of any length and with any number of tags, by
\* whichever of the four ways the tag is put there.
THEOREM TagsAreRight == TSpec => []TaggedAsAsked
<1>1. TInit => RotTypes /\ TransmitInv /\ IdsTyped /\ PushedAs
  BY InitTypes DEF TInit, TransmitInv, Init, Sent, RotTypes, IdsTyped, PushedAs
<1>2. RotTypes /\ TransmitInv /\ [TNext]_vars => (RotTypes /\ TransmitInv)'
  <2>1. RotTypes /\ TransmitInv /\ [TNext]_vars => [Next]_rotVars
    BY StepsRotate DEF vars
  <2> QED
    BY <2>1, StepTypes, TransmitStep
<1>3. RotTypes /\ TransmitInv /\ IdsTyped /\ PushedAs => TaggedAsAsked
  <2> SUFFICES ASSUME RotTypes, TransmitInv, PushedAs,
                      NEW t \in mask, Sent(t), xmit_type = "SEND_DOWNSTREAM_VLAN"
               PROVE  IF vlan[t] = 0
                      THEN Wire(sent[t]) = Wire(received[t])
                      ELSE LET w == Wire(sent[t])
                           IN  /\ w[1] = TAG /\ w[2] = vlan[t]
                               /\ TagIsThere(received[t]) => Payload(w) = Payload(received[t].words)
    BY DEF TaggedAsAsked
  <2>1. t \in Threads /\ received[t] \in Packets
    BY DEF RotTypes, TransmitInv
  <2>2. PICK src : sent[t] = push_mac_vlan(received[t], "downstream", src, vlan[t])
    BY <2>1 DEF PushedAs
  <2>3. vlan[t] \in Nat
    BY <2>1, VlanIdsAssumption DEF PushedAs
  <2>4. /\ vlan[t] = 0 => Wire(sent[t]) = Wire(received[t])
        /\ vlan[t] # 0 /\ StillTagged(received[t]) => Wire(sent[t]) = insert_vlan(received[t].words, vlan[t])
        /\ vlan[t] # 0 /\ ~StillTagged(received[t]) => Wire(sent[t]) = Put(TAG, vlan[t], received[t].words)
    BY <2>1, <2>2, <2>3, OnTheWire
  <2>5. CASE vlan[t] = 0
    BY <2>4, <2>5
  <2>6. CASE vlan[t] # 0 /\ StillTagged(received[t])
    BY <2>1, <2>4, <2>6, OverTag DEF TagIsThere
  <2>7. CASE vlan[t] # 0 /\ ~StillTagged(received[t])
    BY <2>1, <2>4, <2>7, InFront
  <2> QED
    BY <2>5, <2>6, <2>7
<1> QED
  BY <1>1, <1>2, <1>3, PushedStep, PTL DEF TSpec
=============================================================================
