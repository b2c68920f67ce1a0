--------------------------- MODULE Lifecycle_proof ---------------------------
(***************************************************************************)
(* Proofs about the life of the process, for every set of configurations,  *)
(* every system and every number of rounds.                                *)
(***************************************************************************)
EXTENDS Lifecycle, DataLemmas

-----------------------------------------------------------------------------
(* The context.                                                            *)

\* A configuration as read_config returns it.
CfgOK(c) ==
    /\ c.nrx_devs \in Nat \cup {-1}
    /\ c.ntx_devs \in Nat \cup {-1}
    /\ c.duprx2tx \in BOOLEAN
    /\ c.mbufs \in Int
    /\ c.des \in Nat

LEMMA ConfigsTyped ==
    ASSUME NEW v \in Invocations
    PROVE  /\ jw_array_len(v.json.rx_devs) \in Nat \cup {-1}
           /\ jw_array_len(v.json.tx_devs) \in Nat \cup {-1}
           /\ v.json.duprx2tx \in BOOLEAN
           /\ v.json.mbufs \in Int
           /\ v.json.rx_des \in Nat
           /\ v.json.tx_des \in Nat
<1>1. IsList(v.json.rx_devs) /\ IsList(v.json.tx_devs)
  BY ConfigsAssumption
<1>2. /\ v.json.duprx2tx \in BOOLEAN
      /\ v.json.mbufs \in Int
      /\ v.json.rx_des \in Nat
      /\ v.json.tx_des \in Nat
  BY ConfigsAssumption
<1> QED
  BY <1>1, <1>2 DEF IsList

LEMMA ReadConfigOK == \A v \in Invocations : CfgOK(read_config(v.json))
<1> SUFFICES ASSUME NEW v \in Invocations PROVE CfgOK(read_config(v.json))
  OBVIOUS
<1> QED
  BY ConfigsTyped DEF CfgOK, read_config

LEMMA NeedIsNat ==
    ASSUME NEW c, CfgOK(c), c.nrx_devs > 0
    PROVE  Need(c) \in Nat
<1> DEFINE ntx == IF c.duprx2tx \/ c.ntx_devs <= 0 THEN 0 ELSE c.ntx_devs
<1>1. ntx \in Nat /\ c.nrx_devs + ntx \in Nat /\ c.des \in Nat
  BY DEF CfgOK
<1>2. \A m, n \in Nat : m * n \in Nat
  OBVIOUS
<1>3. (c.nrx_devs + ntx) * c.des \in Nat
  BY <1>1, <1>2
<1> QED
  BY <1>3 DEF Need

\* A pool that was made is one of the sizes tried, so never below the need.
LEMMA PoolEnough ==
    ASSUME NEW first \in Int, NEW need \in Int, NEW avail \in Int,
           need <= first, Pool(first, need, avail) # 0
    PROVE  Pool(first, need, avail) >= need
<1> DEFINE fits == {n \in PoolTries(first, need) : n <= avail}
           room == {m \in Nat : first - m \in fits}
<1>1. fits \subseteq need .. first
  BY DEF PoolTries
<1>2. fits # {}
  BY DEF Pool
<1>3. room \subseteq Nat /\ room # {}
  <2>1. PICK n \in fits : TRUE
    BY <1>2
  <2>2. n \in need .. first
    BY <1>1, <2>1
  <2>3. first - n \in Nat /\ first - (first - n) = n
    BY <2>2
  <2>4. first - n \in room
    BY <2>1, <2>3
  <2> QED
    BY <2>4
<1>4. PICK m \in room : \A k \in room : m <= k
  <2>1. PICK m \in room : \A k \in room : <<k, m>> \notin OpToRel(<, Nat)
    BY <1>3, NatLessThanWellFounded, WFMin
  <2>2. \A k \in room : k \in Nat /\ m \in Nat /\ ~(k < m)
    BY <1>3, <2>1 DEF OpToRel
  <2> HIDE DEF room
  <2>3. \A k \in room : m <= k
    BY <2>2
  <2> QED
    BY <2>3
<1>5. \A k \in fits : k <= first - m
  <2> SUFFICES ASSUME NEW k \in fits PROVE k <= first - m
    OBVIOUS
  <2>1. k \in need .. first
    BY <1>1
  <2>2. first - k \in Nat /\ first - (first - k) = k
    BY <2>1
  <2>3. first - k \in room
    BY <2>2
  <2> QED
    BY <1>4, <2>1, <2>3
<1>6. \E n \in fits : \A k \in fits : k <= n
  BY <1>4, <1>5
<1>7. (CHOOSE n \in fits : \A k \in fits : k <= n) \in fits
  BY <1>6
<1>8. Pool(first, need, avail) \in fits
  BY <1>2, <1>7 DEF Pool
<1> QED
  BY <1>1, <1>8

\* What is known of every context.
ContextOK(c) ==
    /\ c.nrxifs \in Nat \ {0}
    /\ c.ntxifs \in Nat \cup {-1}
    /\ c.ntxifs <= 0 => c.xmit_type = "DROP"
    /\ c.tx_dup \in BOOLEAN
    /\ c.tx_dup => c.ntxifs = c.nrxifs
    /\ c.pool >= c.need

LEMMA MkContextOK ==
    ASSUME NEW c, CfgOK(c), NEW s, s.avail \in Nat, mk_context(c, s) # NULL
    PROVE  ContextOK(mk_context(c, s))
<1> DEFINE pool == Pool(FirstPool(c), Need(c), s.avail)
<1>1. c.nrx_devs > 0 /\ pool # 0
  BY DEF mk_context, CfgOK
<1>2. Need(c) \in Nat
  BY <1>1, NeedIsNat
<1>3. FirstPool(c) \in Int /\ Need(c) <= FirstPool(c)
  BY <1>2 DEF FirstPool, CfgOK
<1>4. pool >= Need(c)
  BY <1>1, <1>2, <1>3, PoolEnough
<1> HIDE DEF pool
<1>5. /\ mk_context(c, s).nrxifs = c.nrx_devs
      /\ mk_context(c, s).ntxifs = (IF c.duprx2tx THEN c.nrx_devs ELSE c.ntx_devs)
      /\ mk_context(c, s).xmit_type = XmitType(c)
      /\ mk_context(c, s).tx_dup = c.duprx2tx
      /\ mk_context(c, s).pool = pool
      /\ mk_context(c, s).need = Need(c)
  BY DEF mk_context, pool
<1>6. ~c.duprx2tx /\ c.ntx_devs <= 0 => XmitType(c) = "DROP"
  BY DEF XmitType
<1> QED
  BY <1>1, <1>4, <1>5, <1>6 DEF ContextOK, CfgOK

\* The configuration and the system never change, the context is built once.
ContextInv ==
    /\ CfgOK(cfg)
    /\ hw.avail \in Nat
    /\ stage \in {"args", "dpdk", "context"} => ctx = NULL /\ cur = 1
    /\ ctx # NULL => ContextOK(ctx)

LEMMA InitContextInv == Init => ContextInv
BY ReadConfigOK, SystemsAssumption DEF Init, ContextInv

LEMMA StepContextInv == ContextInv /\ [Next]_vars => ContextInv'
<1> SUFFICES ASSUME ContextInv, [Next]_vars PROVE ContextInv'
  OBVIOUS
<1> USE DEF ContextInv, env, Exit
<1>1. CASE MkContext
  <2>1. /\ ctx' # NULL => ctx' = mk_context(cfg, Visible)
        /\ stage' \notin {"args", "dpdk", "context"}
    BY <1>1 DEF MkContext
  <2>4. Visible.avail = hw.avail
    BY DEF Visible
  <2>2. cfg' = cfg /\ hw' = hw
    BY <1>1 DEF MkContext
  <2>3. ctx' # NULL => ContextOK(ctx')
    BY <2>1, <2>4, MkContextOK
  <2> QED
    BY <2>1, <2>2, <2>3
<1>2. ASSUME ~MkContext PROVE ContextInv'
  <2>1. /\ UNCHANGED <<env, ctx>>
        /\ stage' \in {"args", "dpdk", "context"} =>
            stage \in {"args", "dpdk", "context"} /\ cur' = cur
    BY <1>2 DEF Next, Main, CrackArgs, ArgsDone, InitialiseDpdk, StartIface, StartCrashes, Kill,
        StartDone, RunSim, LinksRound, Launch, WaitSlaves,
       StopIface, StopDone, GobblerReturns, Signal, LinkChange, Terminated, vars
  <2> QED
    BY <2>1
<1> QED
  BY <1>1, <1>2

LEMMA ContextInvariant == Spec => []ContextInv
BY InitContextInv, StepContextInv, PTL DEF Spec

\* Every context main works with meets the assumption of the packet loop.  The model's
\* lists have room for every device; the code's have 10 places (gobbler.h:238-239) and
\* nothing compares, so that of more devices than these this says nothing of the code.
THEOREM ContextIsSound == Spec => []ContextSound
<1>1. ContextInv => ContextSound
  BY DEF ContextInv, ContextSound, ContextOK
<1> QED
  BY <1>1, ContextInvariant, PTL

\* The pool never holds less than one mbuf for each descriptor.
THEOREM PoolIsEnough == Spec => []PoolHoldsDescriptors
<1>1. ContextInv => PoolHoldsDescriptors
  BY DEF ContextInv, PoolHoldsDescriptors, ContextOK
<1> QED
  BY <1>1, ContextInvariant, PTL

-----------------------------------------------------------------------------
(* The interfaces and their ports.                                         *)

\* The lists main walks name interfaces of the context, and nothing else; where
\* tx interfaces are duplicated this needs the lists to be of one length.
LEMMA ListFacts ==
    ASSUME ContextOK(ctx)
    PROVE  /\ Len(StartList) \in Nat
           /\ Len(StopList) \in Nat
           /\ \A k \in 1 .. Len(StartList) : StartList[k] \in Ifaces
           /\ \A k \in 1 .. Len(StopList) : StopList[k] \in Ifaces
<1> DEFINE S == {"rx", "tx"} \X Nat
<1>1. ctx.nrxifs \in Nat /\ ctx.ntxifs \in Int /\ ctx.tx_dup \in BOOLEAN
  BY DEF ContextOK
<1>2. RxIfs \in Seq(S) /\ Len(RxIfs) = ctx.nrxifs /\ \A i \in 1 .. Len(RxIfs) : RxIfs[i] = Rx(i)
  BY <1>1 DEF RxIfs, Rx
<1>3. /\ TxIfs \in Seq(S)
      /\ ctx.ntxifs > 0 => Len(TxIfs) = ctx.ntxifs
      /\ \A i \in 1 .. Len(TxIfs) : TxIfs[i] = Tx(i)
  BY <1>1 DEF TxIfs, Tx, Rx
<1>4. CASE ctx.tx_dup
  <2>1. StartList = RxIfs
    BY <1>4 DEF StartList
  <2>2. Len(TxIfs) = Len(RxIfs) /\ \A i \in 1 .. Len(TxIfs) : TxIfs[i] = RxIfs[i]
    BY <1>1, <1>2, <1>3, <1>4 DEF ContextOK, Tx
  <2>3. ASSUME NEW k \in 1 .. Len(StopList) PROVE \E i \in 1 .. Len(RxIfs) : StopList[k] = RxIfs[i]
    <3>1. CASE k <= Len(RxIfs)
      BY <1>2, <1>3, <3>1 DEF StopList
    <3>2. CASE k > Len(RxIfs)
      <4>1. k - Len(RxIfs) \in 1 .. Len(TxIfs) /\ StopList[k] = TxIfs[k - Len(RxIfs)]
        <5> DEFINE rx == RxIfs
                   tx == TxIfs
        <5>1. StopList = rx \o tx /\ rx \in Seq(S) /\ tx \in Seq(S)
          BY <1>2, <1>3 DEF StopList
        <5>2. k \in 1 .. Len(rx \o tx) /\ k > Len(rx)
          BY <3>2, <5>1
        <5> HIDE DEF rx, tx, S
        <5>3. k - Len(rx) \in 1 .. Len(tx) /\ (rx \o tx)[k] = tx[k - Len(rx)]
          BY <5>1, <5>2, ConcatProperties
        <5> QED
          BY <5>1, <5>3 DEF rx, tx
      <4> QED
        BY <2>2, <4>1
    <3> QED
      BY <1>1, <1>2, <1>3, <3>1, <3>2 DEF StopList
  <2> QED
    BY <1>2, <1>3, <2>1, <2>3 DEF Ifaces, StopList
<1>5. CASE ~ctx.tx_dup
  <2>1. StartList = StopList /\ StopList \in Seq(S)
    BY <1>2, <1>3, <1>5 DEF StartList, StopList
  <2> QED
    BY <2>1 DEF Ifaces
<1> QED
  BY <1>1, <1>4, <1>5

LEMMA SameLists ==
    ctx' = ctx => /\ StartList' = StartList
                  /\ StopList' = StopList
                  /\ Ifaces' = Ifaces
                  /\ \A f : Port(f)' = Port(f)
BY DEF StartList, StopList, Ifaces, RxIfs, TxIfs, Rx, Tx, Port

\* Interfaces that run have ports of their own, which are started: without the
\* first half stopping one of them could stop the port of another.
FlagsInv ==
    /\ stage \notin {"args", "dpdk", "context", "exit"} => ctx # NULL
    /\ cur \in Nat \ {0}
    /\ ctx # NULL =>
        /\ flags \in [Ifaces -> SUBSET {"RUNNING", "LINK_UP"}]
        /\ \A f \in Ifaces : "RUNNING" \in flags[f] => Port(f) \in started
        /\ \A f, g \in Ifaces :
            "RUNNING" \in flags[f] /\ "RUNNING" \in flags[g] /\ f # g => Port(f) # Port(g)

LEMMA InitFlagsInv == Init => FlagsInv
BY DEF Init, FlagsInv

LEMMA StepFlagsInv == ContextInv /\ FlagsInv /\ [Next]_vars => FlagsInv'
<1> SUFFICES ASSUME ContextInv, FlagsInv, [Next]_vars PROVE FlagsInv'
  OBVIOUS
<1>1. CASE MkContext
  <2>1. ctx' # NULL => flags' = [f \in Ifaces' |-> {}]
    BY <1>1 DEF MkContext
  <2>2. cur' = cur /\ (stage' \notin {"args", "dpdk", "context", "exit"} => ctx' # NULL)
    BY <1>1 DEF MkContext, Exit
  <2> QED
    BY <2>1, <2>2 DEF FlagsInv
<1>2. ASSUME NEW ok \in BOOLEAN, NEW pushed \in BOOLEAN, StartIface(ok, pushed) PROVE FlagsInv'
  <2> DEFINE f == StartList[cur]
  <2>1. ctx # NULL /\ ctx' = ctx /\ ContextOK(ctx)
    BY <1>2 DEF StartIface, FlagsInv, ContextInv
  <2>2. f \in Ifaces
    BY <1>2, <2>1, ListFacts DEF StartIface, FlagsInv, ContextInv
  <2>3. CASE started' = started
    BY <1>2, <2>1, <2>3, SameLists DEF StartIface, FlagsInv, Exit
  <2>4. CASE started' # started
    <3>1. /\ Port(f) \notin started
          /\ started' = started \cup {Port(f)}
          /\ flags' = [flags EXCEPT ![f] = @ \cup {"RUNNING"}]
          /\ cur' = cur + 1 /\ stage' = stage
      BY <1>2, <2>4 DEF StartIface
    <3> HIDE DEF f
    <3>2. \A g \in Ifaces : "RUNNING" \in flags'[g] => g = f \/ "RUNNING" \in flags[g]
      BY <2>1, <3>1 DEF FlagsInv
    <3>3. flags' \in [Ifaces -> SUBSET {"RUNNING", "LINK_UP"}]
      BY <2>1, <2>2, <3>1 DEF FlagsInv
    <3> QED
      BY <2>1, <2>2, <3>1, <3>2, <3>3, SameLists DEF FlagsInv
  <2> QED
    BY <2>3, <2>4
<1>3. CASE StartDone \/ LinksRound
  <2>1. ctx # NULL /\ ctx' = ctx /\ started' = started /\ cur' \in Nat \ {0}
    BY <1>3 DEF StartDone, LinksRound, FlagsInv
  <2>2. /\ flags' \in [Ifaces -> SUBSET {"RUNNING", "LINK_UP"}]
        /\ \A f \in Ifaces : "RUNNING" \in flags'[f] => "RUNNING" \in flags[f]
    BY <1>3, <2>1 DEF StartDone, LinksRound, FlagsInv
  <2> QED
    BY <2>1, <2>2, SameLists DEF FlagsInv
<1>4. CASE StopIface
  <2> DEFINE f == StopList[cur]
  <2>1. ctx # NULL /\ ctx' = ctx /\ ContextOK(ctx) /\ stage' = stage /\ cur' \in Nat \ {0}
    BY <1>4 DEF StopIface, FlagsInv, ContextInv
  <2>2. CASE "RUNNING" \notin flags[f]
    BY <1>4, <2>1, <2>2, SameLists DEF StopIface, FlagsInv
  <2>3. CASE "RUNNING" \in flags[f]
    <3>1. started' = started \ {Port(f)} /\ flags' = [flags EXCEPT ![f] = @ \ {"RUNNING"}]
      BY <1>4, <2>3 DEF StopIface
    <3>2. f \in Ifaces
      BY <1>4, <2>1, ListFacts DEF StopIface, FlagsInv
    <3> QED
      BY <2>1, <2>3, <3>1, <3>2, SameLists DEF FlagsInv
  <2> QED
    BY <2>2, <2>3
<1>5. CASE \/ CrackArgs \/ (\E parsed \in BOOLEAN : ArgsDone(parsed)) \/ StartCrashes \/ Kill
           \/ \E ok \in BOOLEAN : InitialiseDpdk(ok)
           \/ RunSim \/ Launch \/ WaitSlaves \/ StopDone \/ Signal \/ Terminated
           \/ \E l \in Lcores : GobblerReturns(l)
           \/ \E p \in Ports : LinkChange(p)
           \/ UNCHANGED vars
  <2>1. /\ UNCHANGED <<ctx, flags, started, cur>>
        /\ stage' \notin {"args", "dpdk", "context", "exit"} => ctx # NULL
    BY <1>5 DEF CrackArgs, ArgsDone, InitialiseDpdk, StartCrashes, Kill, RunSim, Launch, WaitSlaves, StopDone, Signal, Terminated, GobblerReturns,
       LinkChange, vars, Exit, FlagsInv
  <2> QED
    BY <2>1, SameLists DEF FlagsInv
<1> QED
  BY <1>1, <1>2, <1>3, <1>4, <1>5 DEF Next, Main

LEMMA FlagsInvariant == Spec => [](ContextInv /\ FlagsInv)
<1>1. Init => ContextInv /\ FlagsInv
  BY InitContextInv, InitFlagsInv
<1>2. ContextInv /\ FlagsInv /\ [Next]_vars => (ContextInv /\ FlagsInv)'
  BY StepContextInv, StepFlagsInv
<1> QED
  BY <1>1, <1>2, PTL DEF Spec

\* An interface that is marked as running has a port that is started, at every
\* point of the shutdown too.
THEOREM RunningTellsTheTruth == Spec => []RunningIsStarted
<1>1. FlagsInv => RunningIsStarted
  BY DEF FlagsInv, RunningIsStarted
<1> QED
  BY <1>1, FlagsInvariant, PTL

-----------------------------------------------------------------------------
(* The threads and their ports.                                            *)

\* Threads are in their loops only while main waits for them, and by then all
\* interfaces have been started.
ThreadsInv ==
    /\ thread \in [Lcores -> {"idle", "loop", "finished"}]
    /\ \A l \in Lcores : thread[l] = "loop" => stage = "gobble"
    /\ stage = "start" =>
        \A k \in 1 .. Len(StartList) : k < cur => Port(StartList[k]) \in started
    /\ stage \in {"sim", "links", "launch", "gobble"} => \A f \in Ifaces : Port(f) \in started

LEMMA InitThreadsInv == Init => ThreadsInv
BY DEF Init, ThreadsInv

LEMMA SameLcores == cfg' = cfg => Lcores' = Lcores
BY DEF Lcores

LEMMA StepThreadsInv ==
    ContextInv /\ FlagsInv /\ ThreadsInv /\ [Next]_vars => ThreadsInv'
<1> SUFFICES ASSUME ContextInv, FlagsInv, ThreadsInv, [Next]_vars PROVE ThreadsInv'
  OBVIOUS
<1> USE SameLcores DEF env
<1>1. CASE MkContext
  <2>1. /\ UNCHANGED <<cfg, thread, started>> /\ cur' = 1
        /\ stage' \in {"start", "exit"}
        /\ stage = "context"
    BY <1>1 DEF MkContext, Exit, ContextInv
  <2>2. \A k \in 1 .. Len(StartList') : ~(k < cur')
    BY <2>1
  <2> QED
    BY <2>1, <2>2 DEF ThreadsInv
<1>2. ASSUME NEW ok \in BOOLEAN, NEW pushed \in BOOLEAN, StartIface(ok, pushed) PROVE ThreadsInv'
  <2> DEFINE f == StartList[cur]
  <2>1. /\ stage = "start" /\ ctx # NULL /\ UNCHANGED <<cfg, ctx, thread>>
        /\ cur \in Nat \ {0}
        /\ started \subseteq started'
        /\ stage' \in {"start", "exit"}
    BY <1>2 DEF StartIface, Exit, FlagsInv
  <2>2. f \in Ifaces
    BY <1>2, <2>1, ListFacts DEF StartIface, ContextInv
  <2>3. stage' = "start" => cur' = cur + 1 /\ Port(f) \in started'
    BY <1>2, <2>1, <2>2 DEF StartIface, Exit, FlagsInv
  <2>4. stage' = "start" =>
          \A k \in 1 .. Len(StartList) : k < cur' => Port(StartList[k]) \in started'
    BY <2>1, <2>3 DEF ThreadsInv
  <2> QED
    BY <2>1, <2>4, SameLists DEF ThreadsInv
<1>3. CASE StartDone
  <2>1. /\ ctx # NULL /\ UNCHANGED <<cfg, ctx, thread, started>>
        /\ stage = "start" /\ cur > Len(StartList) /\ cur \in Nat
        /\ stage' \in {"sim", "links"}
    BY <1>3 DEF StartDone, FlagsInv
  <2>2. Len(StartList) \in Nat
    BY <2>1, ListFacts DEF ContextInv
  <2>3. \A k \in 1 .. Len(StartList) : Port(StartList[k]) \in started
    BY <2>1, <2>2 DEF ThreadsInv
  <2>4. \A f \in Ifaces : Port(f) \in started
    BY <2>3 DEF Ifaces
  <2> QED
    BY <2>1, <2>4, SameLists DEF ThreadsInv
<1>4. CASE RunSim \/ LinksRound \/ StopDone
  <2>1. /\ UNCHANGED <<cfg, ctx, thread, started>>
        /\ stage # "gobble" /\ stage' # "start"
        /\ stage' \in {"launch", "links"} => stage = "links"
        /\ stage' \notin {"sim", "gobble"}
    BY <1>4 DEF RunSim, LinksRound, StopDone, Exit
  <2> QED
    BY <2>1, SameLists DEF ThreadsInv
<1>5. CASE Launch
  BY <1>5, SameLists DEF Launch, ThreadsInv
<1>6. CASE WaitSlaves
  <2>1. \A l \in Lcores : thread[l] # "loop"
    BY <1>6 DEF WaitSlaves, Slaves
  <2> QED
    BY <1>6, <2>1 DEF WaitSlaves, ThreadsInv
<1>7. CASE StopIface
  BY <1>7 DEF StopIface, ThreadsInv
<1>8. ASSUME NEW l \in Lcores, GobblerReturns(l) PROVE ThreadsInv'
  BY <1>8, SameLists DEF GobblerReturns, ThreadsInv
<1>9. CASE Signal \/ Terminated \/ UNCHANGED vars \/ \E p \in Ports : LinkChange(p)
  <2>1. UNCHANGED <<cfg, ctx, stage, cur, thread, started>>
    BY <1>9 DEF Signal, Terminated, vars, LinkChange
  <2> QED
    BY <2>1, SameLists DEF ThreadsInv
<1>10. CASE \/ CrackArgs \/ (\E parsed \in BOOLEAN : ArgsDone(parsed)) \/ StartCrashes \/ Kill
            \/ \E ok \in BOOLEAN : InitialiseDpdk(ok)
  <2>1. /\ UNCHANGED <<cfg, thread, started>>
        /\ stage # "gobble"
        /\ stage' \in {"args", "dpdk", "context", "exit"}
    BY <1>10 DEF CrackArgs, ArgsDone, InitialiseDpdk, StartCrashes, Kill, Exit
  <2> QED
    BY <2>1 DEF ThreadsInv
<1> QED
  BY <1>1, <1>2, <1>3, <1>4, <1>5, <1>6, <1>7, <1>8, <1>9, <1>10 DEF Next, Main

\* No thread ever polls a port that is not started: none before main has
\* started all of them, none after main began to stop them.
THEOREM PortsStayUp == Spec => []PortsUpWhileGobbling
<1>1. Init => ContextInv /\ FlagsInv /\ ThreadsInv
  BY InitContextInv, InitFlagsInv, InitThreadsInv
<1>2. ContextInv /\ FlagsInv /\ ThreadsInv /\ [Next]_vars
        => (ContextInv /\ FlagsInv /\ ThreadsInv)'
  BY StepContextInv, StepFlagsInv, StepThreadsInv
<1>3. ThreadsInv => PortsUpWhileGobbling
  BY DEF ThreadsInv, PortsUpWhileGobbling
<1> QED
  BY <1>1, <1>2, <1>3, PTL DEF Spec

-----------------------------------------------------------------------------
(* The end.                                                                *)

\* Every started port is one a running interface will be found to have when
\* stop_all visits it: nothing is started before there are interfaces, and what
\* stop_all has passed runs no more.
StopInv ==
    /\ stage # "exit" => status = -1
    /\ stage \in {"args", "dpdk", "context"} => started = {}
    /\ stage \in {"sim", "links", "launch", "gobble"} => cur = 1
    /\ stage \in {"start", "sim", "links", "launch", "gobble", "stop"} =>
        \A p \in started : \E f \in Ifaces : Port(f) = p /\ "RUNNING" \in flags[f]
    /\ stage = "stop" =>
        \A k \in 1 .. Len(StopList) : k < cur => "RUNNING" \notin flags[StopList[k]]
    /\ status = 0 => stage = "exit" /\ started = {}

LEMMA InitStopInv == Init => StopInv
BY DEF Init, StopInv

\* stop_all leaves no interface out.
LEMMA StopListComplete ==
    ASSUME ContextOK(ctx), NEW f \in Ifaces
    PROVE  \E k \in 1 .. Len(StopList) : StopList[k] = f
<1> DEFINE S == {"rx", "tx"} \X Nat
<1>1. ctx.nrxifs \in Nat /\ ctx.ntxifs \in Int /\ ctx.tx_dup \in BOOLEAN
  BY DEF ContextOK
<1>2. RxIfs \in Seq(S) /\ Len(RxIfs) = ctx.nrxifs
  BY <1>1 DEF RxIfs, Rx
<1>3. TxIfs \in Seq(S)
  BY <1>1 DEF TxIfs, Tx, Rx
<1>4. PICK k \in 1 .. Len(StartList) : StartList[k] = f
  BY DEF Ifaces
<1>5. CASE ctx.tx_dup
  <2>1. k \in 1 .. Len(RxIfs) /\ RxIfs[k] = f
    BY <1>4, <1>5 DEF StartList
  <2>2. k \in 1 .. Len(StopList) /\ StopList[k] = f
    BY <1>2, <1>3, <2>1 DEF StopList
  <2> QED
    BY <2>2
<1>6. CASE ~ctx.tx_dup
  BY <1>4, <1>6 DEF StartList, StopList
<1> QED
  BY <1>1, <1>5, <1>6

LEMMA StepStopInv == ContextInv /\ FlagsInv /\ StopInv /\ [Next]_vars => StopInv'
<1> SUFFICES ASSUME ContextInv, FlagsInv, StopInv, [Next]_vars PROVE StopInv'
  OBVIOUS
<1>1. CASE CrackArgs \/ (\E parsed \in BOOLEAN : ArgsDone(parsed)) \/ Kill \/ \E ok \in BOOLEAN : InitialiseDpdk(ok)
  <2>1. /\ UNCHANGED <<ctx, started, flags, cur>>
        /\ stage \in {"args", "dpdk"}
        /\ stage' \in {"args", "dpdk", "context", "exit"}
        /\ stage' # "exit" => status' = status
    BY <1>1 DEF CrackArgs, ArgsDone, Kill, InitialiseDpdk, Exit
  <2> QED
    BY <2>1 DEF StopInv
<1>2. CASE MkContext
  <2>1. /\ started' = started /\ stage = "context" /\ cur' = cur
        /\ \/ stage' = "start" /\ status' = status
           \/ stage' = "exit" /\ status' # 0
    BY <1>2 DEF MkContext, Exit, Killed
  <2> QED
    BY <2>1 DEF StopInv
<1>3. ASSUME NEW ok \in BOOLEAN, NEW pushed \in BOOLEAN, StartIface(ok, pushed) PROVE StopInv'
  <2> DEFINE f == StartList[cur]
  <2>1. ctx # NULL /\ ctx' = ctx /\ ContextOK(ctx) /\ stage = "start"
    BY <1>3 DEF StartIface, FlagsInv, ContextInv
  <2>2. f \in Ifaces
    BY <1>3, <2>1, ListFacts DEF StartIface, FlagsInv
  <2>3. CASE UNCHANGED <<started, flags>>
    <3>1. \/ stage' = "start" /\ status' = status
          \/ stage' = "exit" /\ status' = 1
      BY <1>3, <2>2, <2>3 DEF StartIface, Exit
    <3> QED
      BY <2>1, <2>3, <3>1, SameLists DEF StopInv
  <2>4. CASE ~UNCHANGED <<started, flags>>
    <3>1. /\ started' = started \cup {Port(f)}
          /\ flags' = [flags EXCEPT ![f] = @ \cup {"RUNNING"}]
          /\ stage' = stage /\ status' = status
      BY <1>3, <2>4 DEF StartIface
    <3> HIDE DEF f
    <3>2. \A p \in started' : \E g \in Ifaces : Port(g) = p /\ "RUNNING" \in flags'[g]
      BY <2>1, <2>2, <3>1 DEF StopInv, FlagsInv
    <3> QED
      BY <2>1, <3>1, <3>2, SameLists DEF StopInv
  <2> QED
    BY <2>3, <2>4
<1>4. CASE StartDone \/ LinksRound
  <2>1. /\ ctx # NULL /\ ctx' = ctx /\ started' = started
        /\ stage \in {"start", "links"}
        /\ \/ stage' \in {"sim", "links", "launch"} /\ status' = status
           \/ stage' = "exit" /\ status' = 1
        /\ stage' \in {"sim", "links", "launch"} => cur' = 1
    BY <1>4 DEF StartDone, LinksRound, Exit, FlagsInv, StopInv
  <2>2. \A g \in Ifaces : "RUNNING" \in flags[g] => "RUNNING" \in flags'[g]
    BY <1>4, <2>1 DEF StartDone, LinksRound, FlagsInv, Exit
  <2> QED
    BY <2>1, <2>2, SameLists DEF StopInv
<1>5. CASE StartCrashes
  <2>1. stage' = "exit" /\ status' # 0
    BY <1>5 DEF StartCrashes, Exit, Killed
  <2> QED
    BY <2>1 DEF StopInv
<1>6. CASE RunSim \/ Launch \/ WaitSlaves
  <2>1. /\ UNCHANGED <<ctx, started, flags, cur, status>> /\ cur = 1
        /\ stage \in {"sim", "launch", "gobble"}
        /\ stage' \in {"gobble", "stop"}
    BY <1>6 DEF RunSim, Launch, WaitSlaves, StopInv
  <2>2. \A k \in 1 .. Len(StopList) : ~(k < cur)
    BY <2>1
  <2> QED
    BY <2>1, <2>2, SameLists DEF StopInv
<1>7. CASE StopIface
  <2> DEFINE f == StopList[cur]
  <2>1. /\ ctx # NULL /\ ctx' = ctx /\ ContextOK(ctx)
        /\ stage = "stop" /\ stage' = stage /\ status' = status
        /\ cur' = cur + 1 /\ cur \in Nat \ {0}
    BY <1>7 DEF StopIface, FlagsInv, ContextInv
  <2>2. f \in Ifaces
    BY <1>7, <2>1, ListFacts DEF StopIface
  <2>3. /\ "RUNNING" \notin flags'[f]
        /\ \A g \in Ifaces \ {f} : flags'[g] = flags[g]
        /\ started' \subseteq started
        /\ "RUNNING" \in flags[f] => Port(f) \notin started'
    BY <1>7, <2>1, <2>2 DEF StopIface, FlagsInv
  <2> HIDE DEF f
  <2>4. \A p \in started' : \E g \in Ifaces : Port(g) = p /\ "RUNNING" \in flags'[g]
    BY <2>1, <2>3 DEF StopInv
  <2>5. \A k \in 1 .. Len(StopList) : k < cur' => "RUNNING" \notin flags'[StopList[k]]
    <3> SUFFICES ASSUME NEW k \in 1 .. Len(StopList), k < cur'
                 PROVE  "RUNNING" \notin flags'[StopList[k]]
      OBVIOUS
    <3>1. StopList[k] \in Ifaces
      BY <2>1, ListFacts
    <3>2. k < cur \/ StopList[k] = f
      BY <2>1 DEF f
    <3> QED
      BY <2>1, <2>3, <3>1, <3>2 DEF StopInv
  <2> QED
    BY <2>1, <2>4, <2>5, SameLists DEF StopInv
<1>8. CASE StopDone
  <2>1. ctx # NULL /\ ContextOK(ctx) /\ stage = "stop" /\ stage' = "exit" /\ started' = started
    BY <1>8 DEF StopDone, Exit, FlagsInv, ContextInv
  <2>2. \A k \in 1 .. Len(StopList) : k < cur
    BY <1>8, <2>1, ListFacts DEF StopDone, FlagsInv
  <2>3. \A f \in Ifaces : "RUNNING" \notin flags[f]
    BY <2>1, <2>2, StopListComplete DEF StopInv
  <2>4. started = {}
    BY <2>1, <2>3 DEF StopInv
  <2> QED
    BY <2>1, <2>4 DEF StopInv
<1>9. CASE \/ Signal \/ Terminated \/ UNCHANGED vars
           \/ \E l \in Lcores : GobblerReturns(l)
           \/ \E p \in Ports : LinkChange(p)
  <2>1. UNCHANGED <<ctx, stage, status, cur, flags, started>>
    BY <1>9 DEF Signal, Terminated, vars, GobblerReturns, LinkChange
  <2> QED
    BY <2>1, SameLists DEF StopInv
<1> QED
  BY <1>1, <1>2, <1>3, <1>4, <1>5, <1>6, <1>7, <1>8, <1>9 DEF Next, Main

\* A process that ends with status 0 leaves no port started and no thread in
\* its loop, whatever its configuration, and however its interfaces are shared
\* between the two lists.
THEOREM EndsClean == Spec => []CleanExit
<1>1. Init => ContextInv /\ FlagsInv /\ ThreadsInv /\ StopInv
  BY InitContextInv, InitFlagsInv, InitThreadsInv, InitStopInv
<1>2. ContextInv /\ FlagsInv /\ ThreadsInv /\ StopInv /\ [Next]_vars
        => (ContextInv /\ FlagsInv /\ ThreadsInv /\ StopInv)'
  BY StepContextInv, StepFlagsInv, StepThreadsInv, StepStopInv
<1>3. ThreadsInv /\ StopInv => CleanExit
  BY DEF ThreadsInv, StopInv, CleanExit
<1> QED
  BY <1>1, <1>2, <1>3, PTL DEF Spec

-----------------------------------------------------------------------------
(* The mapping of devices to ports.                                        *)

\* Counting the ports that found a device is enough: if there are as many as
\* devices, every device was found, and none was named twice.  A port counted
\* belongs to the first device of its name, two ports never to the same one, and
\* an injection between sets of one size leaves nothing out.
LEMMA AllMapped ==
    ASSUME NEW devs, NEW ids, Len(devs) \in Nat, Len(ids) \in Nat,
           \A p, q \in 1 .. Len(ids) : ids[p] = ids[q] => p = q,
           PortsMapped(devs, ids) = Len(devs)
    PROVE  /\ \A i \in 1 .. Len(devs) : MapPorts(devs, ids)[i] \in 1 .. Len(ids)
           /\ \A i, j \in 1 .. Len(devs) :
                MapPorts(devs, ids)[i] = MapPorts(devs, ids)[j] => i = j
           /\ \A i \in 1 .. Len(devs) : ids[MapPorts(devs, ids)[i]] = devs[i]
           /\ \A i, j \in 1 .. Len(devs) : devs[i] = devs[j] => i = j
<1> DEFINE D == 1 .. Len(devs)
           Q == {p \in 1 .. Len(ids) : \E i \in D : devs[i] = ids[p]}
           IsFirst(i, p) == devs[i] = ids[p] /\ \A k \in 1 .. i - 1 : devs[k] # ids[p]
           h == [p \in Q |-> CHOOSE i \in D : IsFirst(i, p)]
           mine(i) == {p \in 1 .. Len(ids) :
                        /\ ids[p] = devs[i]
                        /\ \A k \in 1 .. i - 1 : devs[k] # devs[i]}
<1>1. ASSUME NEW p \in Q PROVE \E i \in D : IsFirst(i, p)
  <2> DEFINE named == {i \in D : devs[i] = ids[p]}
  <2>1. named \subseteq Nat /\ named # {}
    BY SMTT(30)
  <2>2. PICK i \in named : \A k \in named : <<k, i>> \notin OpToRel(<, Nat)
    BY <2>1, NatLessThanWellFounded, WFMin
  <2>3. \A k \in named : k \in Nat /\ i \in Nat /\ ~(k < i)
    BY <2>1, <2>2 DEF OpToRel
  <2>4. \A k \in 1 .. i - 1 : k \in D /\ k < i
    <3>1. i \in 1 .. Len(devs) /\ Len(devs) \in Nat
      OBVIOUS
    <3> HIDE DEF named
    <3> QED
      BY <3>1
  <2>5. \A k \in 1 .. i - 1 : devs[k] # ids[p]
    BY <2>3, <2>4
  <2> QED
    BY <2>2, <2>5
<1>2. \A p \in Q : h[p] \in D /\ IsFirst(h[p], p)
  BY <1>1
<1> HIDE DEF h
<1>3. h \in Injection(Q, D)
  <2>1. h \in [Q -> D]
    BY <1>2 DEF h
  <2>2. ASSUME NEW p \in Q, NEW q \in Q, h[p] = h[q] PROVE p = q
    BY <1>2, <2>2
  <2> QED
    BY <2>1, <2>2 DEF Injection, IsInjective
<1>4. h \in Surjection(Q, D)
  <2>1. IsFiniteSet(D) /\ Cardinality(D) = Len(devs)
    <3>1. 1 \in Int /\ Len(devs) \in Int
      OBVIOUS
    <3>2. /\ IsFiniteSet(1 .. Len(devs))
          /\ Cardinality(1 .. Len(devs)) = IF 1 > Len(devs) THEN 0 ELSE Len(devs) - 1 + 1
      BY <3>1, FS_Interval, Zenon
    <3> QED
      BY <3>2
  <2>2. Cardinality(Q) = Len(devs)
    BY DEF PortsMapped
  <2> QED
    BY <1>3, <2>1, <2>2, FS_Injection
<1>5. ASSUME NEW i \in D
      PROVE  /\ MapPorts(devs, ids)[i] \in 1 .. Len(ids)
             /\ ids[MapPorts(devs, ids)[i]] = devs[i]
             /\ \A k \in 1 .. i - 1 : devs[k] # devs[i]
  <2>1. PICK p \in Q : h[p] = i
    BY <1>4 DEF Surjection
  <2>2. p \in mine(i) /\ \A k \in 1 .. i - 1 : devs[k] # devs[i]
    BY <1>2, <2>1
  <2>3. \A q \in mine(i) : q = p
    BY <2>2
  <2>4. MapPorts(devs, ids)[i] = (CHOOSE q \in mine(i) : \A r \in mine(i) : r <= q)
    BY <2>2 DEF MapPorts
  <2>5. \A r \in mine(i) : r <= p
    BY <2>2, <2>3
  <2> HIDE DEF mine
  <2>6. MapPorts(devs, ids)[i] = p
    BY <2>2, <2>3, <2>4, <2>5
  <2> QED
    BY <2>2, <2>6 DEF mine
<1>6. ASSUME NEW i \in D, NEW j \in D, devs[i] = devs[j] PROVE i = j
  <2>1. ~(i < j)
    BY <1>5, <1>6
  <2>2. ~(j < i)
    BY <1>5, <1>6
  <2> QED
    BY <2>1, <2>2
<1>7. ASSUME NEW i \in D, NEW j \in D, MapPorts(devs, ids)[i] = MapPorts(devs, ids)[j]
      PROVE  i = j
  BY <1>5, <1>6, <1>7
<1> HIDE DEF D
<1>8. /\ \A i \in D : MapPorts(devs, ids)[i] \in 1 .. Len(ids)
      /\ \A i \in D : ids[MapPorts(devs, ids)[i]] = devs[i]
  BY <1>5
<1> QED
  BY <1>6, <1>7, <1>8 DEF D

\* The lists of a configuration are as long as it says.
DevsOK(c) ==
    /\ c.nrx_devs > 0 => Len(c.rx_devs) = c.nrx_devs
    /\ c.ntx_devs > 0 => Len(c.tx_devs) = c.ntx_devs

LEMMA ReadConfigDevs == \A v \in Invocations : DevsOK(read_config(v.json))
<1> SUFFICES ASSUME NEW v \in Invocations PROVE DevsOK(read_config(v.json))
  OBVIOUS
<1> DEFINE c == read_config(v.json)
<1>1. c.nrx_devs > 0 => Len(c.rx_devs) = c.nrx_devs
  BY ConfigsTyped DEF read_config, jw_array_len
<1>2. /\ c.ntx_devs = jw_array_len(v.json.tx_devs)
      /\ c.ntx_devs > 0 => c.tx_devs = TxAddresses(v.json)
  BY DEF read_config
<1>3. c.ntx_devs \in Int
  BY <1>2, ConfigsTyped
<1>4. c.ntx_devs > 0 => Len(TxAddresses(v.json)) = c.ntx_devs
  BY <1>2, <1>3 DEF TxAddresses
<1> QED
  BY <1>1, <1>2, <1>4 DEF DevsOK

\* Interfaces of one list have ports, each its own.
PortsInv ==
    /\ DevsOK(cfg)
    /\ Len(hw.pciids) \in Nat
    /\ \A p, q \in Ports : hw.pciids[p] = hw.pciids[q] => p = q
    /\ stage \in {"args", "dpdk", "context"} => ctx = NULL
    /\ ctx # NULL =>
        /\ \A i \in 1 .. ctx.nrxifs : ctx.rx_ports[i] \in Ports
        /\ \A i, j \in 1 .. ctx.nrxifs : ctx.rx_ports[i] = ctx.rx_ports[j] => i = j
        /\ ~ctx.tx_dup =>
            /\ \A i \in 1 .. ctx.ntxifs : ctx.tx_ports[i] \in Ports
            /\ \A i, j \in 1 .. ctx.ntxifs : ctx.tx_ports[i] = ctx.tx_ports[j] => i = j

LEMMA InitPortsInv == Init => PortsInv
BY ReadConfigDevs, PciIdsAssumption DEF Init, PortsInv, Ports

LEMMA StepPortsInv == ContextInv /\ PortsInv /\ [Next]_vars => PortsInv'
<1> SUFFICES ASSUME ContextInv, PortsInv, [Next]_vars PROVE PortsInv'
  OBVIOUS
<1> USE DEF PortsInv, env, Ports
<1>1. CASE MkContext
  <2> DEFINE ids == Visible.pciids
  <2>1. /\ ctx' # NULL => ctx' = mk_context(cfg, Visible)
        /\ stage' \notin {"args", "dpdk", "context"}
        /\ cfg' = cfg /\ hw' = hw
    BY <1>1 DEF MkContext, Exit
  <2>2. SUFFICES ASSUME ctx' # NULL
                 PROVE  /\ \A i \in 1 .. ctx'.nrxifs : ctx'.rx_ports[i] \in Ports
                        /\ \A i, j \in 1 .. ctx'.nrxifs :
                            ctx'.rx_ports[i] = ctx'.rx_ports[j] => i = j
                        /\ ~ctx'.tx_dup =>
                            /\ \A i \in 1 .. ctx'.ntxifs : ctx'.tx_ports[i] \in Ports
                            /\ \A i, j \in 1 .. ctx'.ntxifs :
                                ctx'.tx_ports[i] = ctx'.tx_ports[j] => i = j
    BY <2>1
  <2>3. /\ Len(ids) \in Nat /\ 1 .. Len(ids) \subseteq Ports
        /\ \A p, q \in 1 .. Len(ids) : ids[p] = ids[q] => p = q
    BY DEF Visible
  <2>4. /\ cfg.nrx_devs > 0
        /\ PortsMapped(cfg.rx_devs, ids) = cfg.nrx_devs
        /\ TxMapped(cfg, ids)
    BY <2>1, <2>2 DEF mk_context, RxMapped, ContextInv, CfgOK
  <2>5. /\ ctx'.nrxifs = cfg.nrx_devs
        /\ ctx'.rx_ports = MapPorts(cfg.rx_devs, ids)
        /\ ctx'.tx_dup = cfg.duprx2tx
        /\ ~cfg.duprx2tx => /\ ctx'.ntxifs = cfg.ntx_devs
                            /\ ctx'.tx_ports = MapPorts(cfg.tx_devs, ids)
    BY <2>1, <2>2 DEF mk_context
  <2>6. cfg.nrx_devs \in Nat /\ Len(cfg.rx_devs) = cfg.nrx_devs
    BY <2>4 DEF DevsOK, ContextInv, CfgOK
  <2>7. /\ \A i \in 1 .. ctx'.nrxifs : ctx'.rx_ports[i] \in Ports
        /\ \A i, j \in 1 .. ctx'.nrxifs : ctx'.rx_ports[i] = ctx'.rx_ports[j] => i = j
    <3> HIDE DEF ids
    <3> QED
      BY <2>3, <2>4, <2>5, <2>6, AllMapped
  <2>8. ASSUME ~cfg.duprx2tx, cfg.ntx_devs > 0
        PROVE  /\ \A i \in 1 .. ctx'.ntxifs : ctx'.tx_ports[i] \in Ports
               /\ \A i, j \in 1 .. ctx'.ntxifs : ctx'.tx_ports[i] = ctx'.tx_ports[j] => i = j
    <3>1. cfg.ntx_devs \in Nat /\ Len(cfg.tx_devs) = cfg.ntx_devs
      BY <2>8 DEF DevsOK, ContextInv, CfgOK
    <3>2. PortsMapped(cfg.tx_devs, ids) = cfg.ntx_devs
      BY <2>4, <2>8, <3>1 DEF TxMapped
    <3> HIDE DEF ids
    <3> QED
      BY <2>3, <2>5, <2>8, <3>1, <3>2, AllMapped
  <2>9. ASSUME ~(cfg.ntx_devs > 0) PROVE 1 .. cfg.ntx_devs = {}
    BY <2>9 DEF ContextInv, CfgOK
  <2> QED
    BY <2>5, <2>7, <2>8, <2>9
<1>2. ASSUME ~MkContext PROVE PortsInv'
  <2>1. /\ UNCHANGED <<env, ctx>>
        /\ stage' \in {"args", "dpdk", "context"} => stage \in {"args", "dpdk", "context"}
    BY <1>2 DEF Next, Main, CrackArgs, ArgsDone, InitialiseDpdk, StartIface, StartCrashes, Kill,
       StartDone, RunSim, LinksRound, Launch, WaitSlaves, StopIface, StopDone, GobblerReturns,
       Signal, LinkChange, Terminated, vars, Exit
  <2> QED
    BY <2>1
<1> QED
  BY <1>1, <1>2

LEMMA PortsTheirOwn == ContextInv /\ PortsInv => EveryDeviceMapped
<1> SUFFICES ASSUME ContextInv, PortsInv, ctx # NULL, NEW f \in Ifaces, NEW g \in Ifaces
             PROVE  Port(f) \in Ports /\ (f # g /\ f[1] = g[1] => Port(f) # Port(g))
  BY DEF EveryDeviceMapped
<1>1. ctx.nrxifs \in Nat /\ ctx.ntxifs \in Int /\ ctx.tx_dup \in BOOLEAN
  BY DEF ContextInv, ContextOK
<1>2. ASSUME NEW e \in Ifaces
      PROVE  \/ \E i \in 1 .. ctx.nrxifs : e = <<"rx", i>>
             \/ ~ctx.tx_dup /\ \E i \in 1 .. ctx.ntxifs : e = <<"tx", i>>
  <2>1. PICK k \in 1 .. Len(StartList) : e = StartList[k]
    BY DEF Ifaces
  <2>2. RxIfs = [i \in 1 .. ctx.nrxifs |-> <<"rx", i>>]
    BY DEF RxIfs, Rx
  <2>3. CASE ctx.tx_dup
    BY <1>1, <2>1, <2>2, <2>3 DEF StartList
  <2>4. CASE ~ctx.tx_dup
    <3> DEFINE S == {"rx", "tx"} \X Nat
    <3>1. /\ RxIfs \in Seq(S)
          /\ Len(RxIfs) = ctx.nrxifs
          /\ \A i \in 1 .. Len(RxIfs) : RxIfs[i] = <<"rx", i>>
      BY <1>1 DEF RxIfs, Rx
    <3>2. /\ TxIfs \in Seq(S)
          /\ Len(TxIfs) <= ctx.ntxifs \/ Len(TxIfs) = 0
          /\ \A i \in 1 .. Len(TxIfs) : TxIfs[i] = <<"tx", i>>
      BY <1>1, <2>4 DEF TxIfs, Tx
    <3>3. StartList = RxIfs \o TxIfs
      BY <2>4 DEF StartList
    <3>4. CASE k <= Len(RxIfs)
      <4>1. k \in 1 .. Len(RxIfs) /\ e = RxIfs[k]
        BY <2>1, <3>1, <3>2, <3>3, <3>4
      <4> QED
        BY <3>1, <4>1
    <3>5. CASE k > Len(RxIfs)
      <4>1. k - Len(RxIfs) \in 1 .. Len(TxIfs) /\ e = TxIfs[k - Len(RxIfs)]
        BY <2>1, <3>1, <3>2, <3>3, <3>5
      <4>2. k - Len(RxIfs) \in 1 .. ctx.ntxifs /\ e = <<"tx", k - Len(RxIfs)>>
        BY <1>1, <3>2, <4>1
      <4> QED
        BY <2>4, <4>2
    <3>6. Len(RxIfs) \in Nat /\ k \in Int
      BY <1>1, <3>1, <3>2, <3>3
    <3> QED
      BY <3>4, <3>5, <3>6
  <2> QED
    BY <1>1, <2>3, <2>4
<1>3. \A i : Port(<<"rx", i>>) = ctx.rx_ports[i] /\ Port(<<"tx", i>>) = ctx.tx_ports[i]
  BY DEF Port
<1>4. Port(f) \in Ports
  BY <1>2, <1>3 DEF PortsInv
<1>5. ASSUME f # g, f[1] = g[1] PROVE Port(f) # Port(g)
  <2>1. \A i, j : <<"rx", i>>[1] # <<"tx", j>>[1]
    OBVIOUS
  <2>2. CASE \E i \in 1 .. ctx.nrxifs : f = <<"rx", i>>
    <3>1. \E j \in 1 .. ctx.nrxifs : g = <<"rx", j>>
      BY <1>2, <1>5, <2>1, <2>2
    <3> QED
      BY <1>3, <1>5, <2>2, <3>1 DEF PortsInv
  <2>3. CASE ~ctx.tx_dup /\ \E i \in 1 .. ctx.ntxifs : f = <<"tx", i>>
    <3>1. \E j \in 1 .. ctx.ntxifs : g = <<"tx", j>>
      BY <1>2, <1>5, <2>1, <2>3
    <3> QED
      BY <1>3, <1>5, <2>3, <3>1 DEF PortsInv
  <2> QED
    BY <1>2, <2>2, <2>3
<1> QED
  BY <1>4, <1>5

\* Every interface of a context has a port of the system, and two of one list
\* never have the same, although mk_context only counts.  As above, this is for up
\* to 10 devices in a list.
THEOREM DevicesAreMapped == Spec => []EveryDeviceMapped
<1>1. Init => ContextInv /\ PortsInv
  BY InitContextInv, InitPortsInv
<1>2. ContextInv /\ PortsInv /\ [Next]_vars => (ContextInv /\ PortsInv)'
  BY StepContextInv, StepPortsInv
<1> QED
  BY <1>1, <1>2, PortsTheirOwn, PTL DEF Spec

-----------------------------------------------------------------------------
(* The vlan ids and macs of the tx interfaces.                             *)

\* A list has no more objects than elements.
LEMMA ObjectsFewer ==
    ASSUME NEW elems, Len(elems) \in Nat
    PROVE  Len(Objects(elems)) \in 0 .. Len(elems)
<1> DEFINE F(h, n) == IF n = 0 THEN <<>>
                      ELSE IF elems[n] = NULL THEN h[n - 1] ELSE Append(h[n - 1], elems[n])
           Upto(h, n) == \A k \in 0 .. n : h[k] = F(h, k)
           Found(h) == h = [n \in 0 .. Len(elems) |-> F(h, n)]
           P == {n \in Nat : \E h : Upto(h, n)}
<1>1. \E h : Upto(h, 0)
  <2> DEFINE h0 == [k \in 0 .. 0 |-> <<>>]
  <2>1. Upto(h0, 0)
    OBVIOUS
  <2> QED
    BY <2>1
<1>2. ASSUME NEW n \in Nat, NEW h, Upto(h, n) PROVE \E g : Upto(g, n + 1)
  <2> DEFINE g == [k \in 0 .. n + 1 |-> F(h, k)]
  <2>1. \A k \in 0 .. n : g[k] = h[k]
    BY <1>2
  <2>2. \A k \in 0 .. n + 1 : g[k] = F(h, k)
    OBVIOUS
  <2> HIDE DEF g
  <2>3. ASSUME NEW k \in 0 .. n + 1 PROVE g[k] = F(g, k)
    <3>1. CASE k = 0
      BY <2>2, <3>1
    <3>2. CASE k # 0
      <4>1. k - 1 \in 0 .. n
        BY <3>2
      <4> QED
        BY <2>1, <2>2, <3>2, <4>1
    <3> QED
      BY <3>1, <3>2
  <2> QED
    BY <2>3
<1>3. \E h : Upto(h, Len(elems))
  <2> HIDE DEF Upto
  <2>1. 0 \in P
    BY <1>1
  <2>2. \A n \in Nat : n \in P => n + 1 \in P
    BY <1>2
  <2> HIDE DEF P
  <2>3. Len(elems) \in P
    BY <2>1, <2>2, AllNaturals
  <2> QED
    BY <2>3 DEF P
<1>4. \E h : Found(h)
  <2>1. PICK h : Upto(h, Len(elems))
    BY <1>3
  <2> DEFINE g == [k \in 0 .. Len(elems) |-> h[k]]
  <2>2. ASSUME NEW k \in 0 .. Len(elems) PROVE g[k] = F(g, k)
    <3>1. CASE k = 0
      BY <2>1, <3>1
    <3>2. CASE k # 0
      <4>1. k - 1 \in 0 .. Len(elems)
        BY <3>2
      <4> QED
        BY <2>1, <3>2, <4>1
    <3> QED
      BY <3>1, <3>2
  <2>3. g = [n \in 0 .. Len(elems) |-> F(g, n)]
    BY <2>2
  <2> HIDE DEF g
  <2> QED
    BY <2>3
<1> DEFINE found == CHOOSE h : Found(h)
<1>5. Found(found)
  BY <1>4
<1>6. Objects(elems) = found[Len(elems)]
  BY DEF Objects
<1> HIDE DEF found
<1> DEFINE S == {elems[k] : k \in 1 .. Len(elems)}
           Q == {n \in Nat : n <= Len(elems) =>
                                found[n] \in Seq(S) /\ Len(found[n]) <= n}
<1>7. \A n \in 0 .. Len(elems) : found[n] = F(found, n)
  BY <1>5
<1>8. 0 \in Q
  <2>1. found[0] = <<>>
    BY <1>7
  <2> HIDE DEF S
  <2>2. found[0] \in Seq(S) /\ Len(found[0]) <= 0
    BY <2>1
  <2> QED
    BY <2>2
<1>9. ASSUME NEW n \in Nat, n \in Q PROVE n + 1 \in Q
  <2> SUFFICES ASSUME n + 1 <= Len(elems)
               PROVE  found[n + 1] \in Seq(S) /\ Len(found[n + 1]) <= n + 1
    OBVIOUS
  <2>1. found[n] \in Seq(S) /\ Len(found[n]) <= n
    BY <1>9
  <2>2. elems[n + 1] \in S
    OBVIOUS
  <2>3. found[n + 1] = IF elems[n + 1] = NULL THEN found[n] ELSE Append(found[n], elems[n + 1])
    BY <1>7
  <2> HIDE DEF S
  <2> QED
    BY <2>1, <2>2, <2>3
<1>10. Len(elems) \in Q
  <2> HIDE DEF Q
  <2> QED
    BY <1>8, <1>9, AllNaturals
<1> HIDE DEF S
<1> QED
  BY <1>6, <1>10

LEMMA TxObjectsFewer ==
    ASSUME NEW v \in Invocations, Len(TxObjects(v.json)) > 0
    PROVE  /\ jw_array_len(v.json.tx_devs) \in Nat \ {0}
           /\ Len(TxObjects(v.json)) \in 1 .. jw_array_len(v.json.tx_devs)
<1> DEFINE list == v.json.tx_devs
<1>1. jw_array_len(list) \in Nat \cup {-1}
  BY ConfigsAssumption DEF IsList
<1>2. CASE jw_array_len(list) > 0
  <2>1. TxObjects(v.json) = Objects(list.elems)
    BY <1>2 DEF TxObjects
  <2>2. Len(list.elems) = jw_array_len(list)
    BY <1>2 DEF jw_array_len
  <2> HIDE DEF list
  <2>3. Len(list.elems) \in Nat
    BY <1>1, <1>2, <2>2
  <2>4. Len(Objects(list.elems)) \in 0 .. Len(list.elems)
    BY <2>3, ObjectsFewer
  <2> QED
    BY <1>1, <1>2, <2>1, <2>2, <2>4 DEF list
<1>3. CASE ~(jw_array_len(list) > 0)
  BY <1>3 DEF TxObjects
<1> QED
  BY <1>2, <1>3

\* The devices whose names fit in the arguments fit in the places too.
LEMMA DevicesFit ==
    ASSUME NEW v \in Invocations, NEW c, c = read_config(v.json), ArgsFit(c), c.nrx_devs > 0
    PROVE  c.nrx_devs <= TX_PLACES /\ (~c.duprx2tx => c.ntx_devs <= TX_PLACES)
<1> DEFINE tx == IF c.duprx2tx THEN <<>> ELSE c.tx_devs
           devs == c.rx_devs \o tx
           before == 1 .. Len(devs) - 1
           nils == {i \in before : devs[i] = NULL}
<1>1. CfgOK(c) /\ DevsOK(c)
  BY ReadConfigOK, ReadConfigDevs
<1>2. c.nrx_devs \in Nat /\ c.ntx_devs \in Int
  BY <1>1 DEF CfgOK
<1>3. c.rx_devs = [k \in 1 .. c.nrx_devs |-> c.rx_devs[k]]
  <2> DEFINE list == v.json.rx_devs
  <2>1. IsList(list)
    BY ConfigsAssumption
  <2>2. c.nrx_devs = jw_array_len(list) /\ c.rx_devs = list.elems
    BY DEF read_config
  <2> HIDE DEF list
  <2>3. list.elems = [k \in 1 .. Len(list.elems) |-> list.elems[k]]
    BY <2>1, <2>2 DEF IsList
  <2>4. Len(list.elems) = c.nrx_devs
    BY <2>2 DEF jw_array_len
  <2> QED
    BY <2>2, <2>3, <2>4
<1>4. tx = [k \in 1 .. Len(tx) |-> tx[k]] /\ Len(tx) \in Nat
      /\ (~c.duprx2tx => c.ntx_devs <= Len(tx))
  <2>1. c.tx_devs = IF c.ntx_devs > 0 THEN TxAddresses(v.json) ELSE <<>>
    BY DEF read_config
  <2>2. TxAddresses(v.json) = [k \in 1 .. c.ntx_devs |-> TxAddresses(v.json)[k]]
    <3>1. c.ntx_devs = jw_array_len(v.json.tx_devs)
      BY DEF read_config
    <3> QED
      BY <3>1 DEF TxAddresses
  <2>3. CASE ~c.duprx2tx /\ c.ntx_devs > 0
    <3>1. tx = TxAddresses(v.json)
      BY <2>1, <2>3
    <3>2. Len(tx) = c.ntx_devs
      BY <1>1, <2>1, <2>3, <3>1 DEF DevsOK
    <3> QED
      BY <1>2, <2>2, <2>3, <3>1, <3>2
  <2>4. CASE ~(~c.duprx2tx /\ c.ntx_devs > 0)
    BY <1>2, <2>1, <2>4
  <2> QED
    BY <2>3, <2>4
<1>5. Len(devs) = c.nrx_devs + Len(tx)
  <2> DEFINE S == {c.rx_devs[k] : k \in 1 .. c.nrx_devs} \cup {tx[k] : k \in 1 .. Len(tx)}
  <2> HIDE DEF tx
  <2>1. \A k \in 1 .. c.nrx_devs : c.rx_devs[k] \in S
    OBVIOUS
  <2>2. \A k \in 1 .. Len(tx) : tx[k] \in S
    OBVIOUS
  <2> HIDE DEF S
  <2>3. c.rx_devs \in [1 .. c.nrx_devs -> S] /\ tx \in [1 .. Len(tx) -> S]
    BY <1>3, <1>4, <2>1, <2>2
  <2>4. \A n \in Nat : \A r \in [1 .. n -> S] : r \in Seq(S) /\ Len(r) = n
    OBVIOUS
  <2>5. c.rx_devs \in Seq(S) /\ tx \in Seq(S) /\ Len(c.rx_devs) = c.nrx_devs
    BY <1>2, <1>4, <2>3, <2>4, Zenon
  <2>6. Len(c.rx_devs \o tx) = Len(c.rx_devs) + Len(tx)
    BY <2>5, ConcatProperties, Zenon
  <2> QED
    BY <2>5, <2>6
<1> HIDE DEF devs, tx
<1>6. /\ IsFiniteSet(before) /\ Cardinality(before) = Len(devs) - 1
      /\ IsFiniteSet(nils) /\ Cardinality(nils) \in Nat /\ Cardinality(nils) <= Cardinality(before)
  <2>1. 1 \in Int /\ Len(devs) \in Nat /\ Len(devs) - 1 \in Int /\ Len(devs) >= 1
    BY <1>2, <1>4, <1>5
  <2>2. /\ IsFiniteSet(before)
        /\ Cardinality(before) = IF 1 > Len(devs) - 1 THEN 0 ELSE (Len(devs) - 1) - 1 + 1
    BY <2>1, FS_Interval, Zenon
  <2>3. nils \subseteq before
    OBVIOUS
  <2> HIDE DEF nils, before
  <2>4. IsFiniteSet(nils) /\ Cardinality(nils) <= Cardinality(before)
    BY <2>2, <2>3, FS_Subset
  <2>5. Cardinality(nils) \in Nat
    BY <2>4, FS_CardinalityType
  <2>6. Cardinality(before) = Len(devs) - 1
    <3> DEFINE n == Len(devs)
    <3>1. n \in Nat /\ n >= 1
      BY <2>1
    <3>2. Cardinality(before) = IF 1 > n - 1 THEN 0 ELSE (n - 1) - 1 + 1
      BY <2>2
    <3> HIDE DEF n
    <3>3. (IF 1 > n - 1 THEN 0 ELSE (n - 1) - 1 + 1) = n - 1
      BY <3>1
    <3> QED
      BY <3>2, <3>3 DEF n
  <2> QED
    BY <2>2, <2>4, <2>5, <2>6
<1>7. FixedArgs(c) + 2 * Cardinality(before) - Cardinality(nils) < ARGV_LEN - 2
  BY DEF ArgsFit, devs, tx
<1>8. FixedArgs(c) \in {11, 12}
  BY DEF FixedArgs
<1> HIDE DEF before, nils
<1>9. Len(devs) <= ARGV_LEN
  <2>1. Len(devs) \in Int /\ FixedArgs(c) \in Nat /\ FixedArgs(c) >= 11
    BY <1>2, <1>4, <1>5, <1>8
  <2> QED
    BY <1>6, <1>7, <2>1, ArgvAssumption
<1> QED
  BY <1>2, <1>4, <1>5, <1>9, RoomAssumption, ArgvAssumption, PlacesAssumption

\* A device that has the address of the t-th device's port is the t-th.
LEMMA OwnDevice ==
    ASSUME NEW v \in Invocations, NEW c, c = read_config(v.json),
           NEW ids, Len(ids) \in Nat, \A p, q \in 1 .. Len(ids) : ids[p] = ids[q] => p = q,
           ~MapReadsNil(c.tx_devs, ids), PortsMapped(c.tx_devs, ids) = c.ntx_devs,
           NEW t \in 1 .. c.ntx_devs, NEW n \in 1 .. Len(TxObjects(v.json)),
           TxObjects(v.json)[n].address = ids[MapPorts(c.tx_devs, ids)[t]]
    PROVE  n = t
<1> DEFINE objs == TxObjects(v.json)
           devs == c.tx_devs
<1>1. c.ntx_devs \in Nat \ {0} /\ Len(devs) = c.ntx_devs
  BY ReadConfigOK, ReadConfigDevs DEF CfgOK, DevsOK
<1>2. /\ MapPorts(devs, ids)[t] \in 1 .. Len(ids)
      /\ ids[MapPorts(devs, ids)[t]] = devs[t]
      /\ \A i, j \in 1 .. c.ntx_devs : devs[i] = devs[j] => i = j
  <2> HIDE DEF devs
  <2>1. PortsMapped(devs, ids) = Len(devs) /\ Len(devs) \in Nat
    BY <1>1 DEF devs
  <2>2. /\ \A i \in 1 .. Len(devs) : MapPorts(devs, ids)[i] \in 1 .. Len(ids)
        /\ \A i \in 1 .. Len(devs) : ids[MapPorts(devs, ids)[i]] = devs[i]
        /\ \A i, j \in 1 .. Len(devs) : devs[i] = devs[j] => i = j
    BY <2>1, AllMapped, Zenon
  <2> QED
    BY <1>1, <2>2
<1>3. devs[t] # NULL
  <2> SUFFICES ASSUME devs[t] = NULL PROVE FALSE
    OBVIOUS
  <2> DEFINE p == MapPorts(devs, ids)[t]
  <2>1. p \in 1 .. Len(ids) /\ ids[p] = devs[t] /\ t \in 1 .. Len(devs)
    BY <1>1, <1>2
  <2> HIDE DEF p
  <2>2. \A k \in 1 .. t - 1 : devs[k] # ids[p]
    BY <1>1, <1>2, <2>1
  <2> QED
    BY <2>1, <2>2 DEF MapReadsNil
<1>4. n \in 1 .. c.ntx_devs
  <2>1. Len(objs) > 0
    <3>1. 1 .. Len(objs) # {}
      OBVIOUS
    <3> QED
      BY <3>1
  <2>2. Len(objs) \in 1 .. c.ntx_devs
    BY <2>1, TxObjectsFewer DEF read_config
  <2> HIDE DEF objs
  <2> QED
    BY <1>1, <2>2 DEF objs
<1>5. \A i \in 1 .. c.ntx_devs :
        devs[i] = IF i > Len(objs) THEN NULL
                  ELSE IF objs[i].address = NULL THEN "dup" ELSE objs[i].address
  BY <1>1 DEF read_config, TxAddresses
<1>6. devs[n] = devs[t]
  <2>1. objs[n].address = devs[t]
    BY <1>2
  <2>2. ~(n > Len(objs)) /\ objs[n].address # NULL
    <3>1. Len(objs) \in Nat
      BY <1>4, TxObjectsFewer
    <3> QED
      BY <1>3, <2>1, <3>1
  <2> QED
    BY <1>4, <1>5, <2>1, <2>2
<1> QED
  BY <1>2, <1>4, <1>6

\* The element of tx_devs that describes a tx interface is the one in its place,
\* and the interface has the lists of that place.
SetsKnown ==
    \A t \in 1 .. ctx.ntxifs, n \in 1 .. Len(TxObjects(json)) :
        Describes(TxObjects(json)[n], t) =>
            /\ t \in 1 .. Len(TxObjects(json))
            /\ TxObjects(json)[n] = TxObjects(json)[t]
            /\ ctx.vset[t] = TxSet(TxObjects(json), "vlanids", t)
            /\ ctx.tx_dup => ctx.mset[t] = TxSet(TxObjects(json), "macs", t)

\* Nothing but the file says what the configuration is, and it was looked at
\* before the context is built.
OriginInv ==
    /\ \E v \in Invocations : json = v.json /\ cfg = read_config(v.json)
    /\ DOMAIN mac = Ports
    /\ stage = "context" => cfg.nrx_devs > 0 /\ ArgsFit(cfg)
    /\ ctx # NULL => SetsKnown

LEMMA InitOriginInv == Init => OriginInv
BY SystemsAssumption DEF Init, OriginInv, Ports

\* A tx interface of a context has the sets of its device.
InPlace(d, objs, t) ==
    /\ d.vset[t] = TxSet(objs, "vlanids", t)
    /\ d.tx_dup => d.mset[t] = TxSet(objs, "macs", t)

\* What mk_context puts into the interfaces is what read_config has for them.
LEMMA SetsInPlace ==
    ASSUME NEW v \in Invocations, NEW c, c = read_config(v.json), NEW s, NEW d,
           d = mk_context(c, s), d # NULL, NEW t \in 1 .. d.ntxifs, t <= TX_PLACES,
           Len(TxObjects(v.json)) > 0
    PROVE  InPlace(d, TxObjects(v.json), t)
<1> DEFINE objs == TxObjects(v.json)
<1>1. jw_array_len(v.json.tx_devs) > 0
  BY TxObjectsFewer
<1>2. c.vlans # NULL /\ c.macs # NULL
  BY <1>1, PointersAssumption
<1>3. /\ c.vlans = [i \in 1 .. TX_PLACES |-> TxSet(objs, "vlanids", i)]
      /\ c.macs = [i \in 1 .. TX_PLACES |-> TxSet(objs, "macs", i)]
  BY <1>1 DEF read_config
<1>4. /\ d.tx_dup = c.duprx2tx
      /\ d.vset = [i \in 1 .. d.ntxifs |-> IF c.vlans = NULL THEN NULL ELSE c.vlans[i]]
      /\ d.mset = [i \in 1 .. d.ntxifs |-> IF c.macs = NULL \/ ~c.duprx2tx
                                           THEN NULL ELSE c.macs[i]]
  <2>1. d.ntxifs = IF c.duprx2tx THEN c.nrx_devs ELSE c.ntx_devs
    BY DEF mk_context
  <2>2. d.tx_dup = c.duprx2tx
    BY DEF mk_context
  <2>3. d.vset = [i \in 1 .. IF c.duprx2tx THEN c.nrx_devs ELSE c.ntx_devs |->
                    IF c.vlans = NULL THEN NULL ELSE c.vlans[i]]
    BY DEF mk_context
  <2>4. d.mset = [i \in 1 .. IF c.duprx2tx THEN c.nrx_devs ELSE c.ntx_devs |->
                    IF c.macs = NULL \/ ~c.duprx2tx THEN NULL ELSE c.macs[i]]
    BY DEF mk_context
  <2> QED
    BY <2>1, <2>2, <2>3, <2>4
<1>5. t \in 1 .. TX_PLACES
  BY PlacesAssumption
<1> HIDE DEF objs
<1>6. d.vset[t] = TxSet(objs, "vlanids", t)
  BY <1>2, <1>3, <1>4, <1>5
<1>7. d.tx_dup => d.mset[t] = TxSet(objs, "macs", t)
  BY <1>2, <1>3, <1>4, <1>5
<1> QED
  BY <1>6, <1>7, Zenon DEF InPlace, objs

LEMMA StepOriginInv ==
    ContextInv /\ PortsInv /\ OriginInv /\ [Next]_vars => OriginInv'
<1> SUFFICES ASSUME ContextInv, PortsInv, OriginInv, [Next]_vars PROVE OriginInv'
  OBVIOUS
<1>1. CASE MkContext
  <2> DEFINE ids == Visible.pciids
             objs == TxObjects(json)
  <2>1. /\ ctx' # NULL => ctx' = mk_context(cfg, Visible) /\ ~MkContextCrashes(cfg, Visible)
        /\ stage = "context" /\ stage' # "context"
        /\ UNCHANGED <<json, cfg, hw, mac>>
    BY <1>1 DEF MkContext, Exit, env
  <2>2. SUFFICES ASSUME ctx' # NULL PROVE SetsKnown'
    BY <2>1 DEF OriginInv, Ports
  <2>3. PICK v \in Invocations : json = v.json /\ cfg = read_config(v.json)
    BY DEF OriginInv
  <2>4. CfgOK(cfg) /\ cfg.nrx_devs > 0 /\ ArgsFit(cfg)
    BY <2>1 DEF OriginInv, ContextInv
  <2>5. cfg.nrx_devs <= TX_PLACES /\ (~cfg.duprx2tx => cfg.ntx_devs <= TX_PLACES)
    BY <2>3, <2>4, DevicesFit
  <2>6. /\ ctx'.tx_dup = cfg.duprx2tx
        /\ ctx'.ntxifs = (IF cfg.duprx2tx THEN cfg.nrx_devs ELSE cfg.ntx_devs)
        /\ ~cfg.duprx2tx => ctx'.tx_ports = MapPorts(cfg.tx_devs, ids)
        /\ RxMapped(cfg, ids)
        /\ TxMapped(cfg, ids)
    BY <2>1, <2>2 DEF mk_context
  <2> SUFFICES ASSUME NEW t \in (1 .. ctx.ntxifs)', NEW n \in (1 .. Len(TxObjects(json)))',
                      Describes(TxObjects(json)[n], t)'
               PROVE  (/\ t \in 1 .. Len(TxObjects(json))
                       /\ TxObjects(json)[n] = TxObjects(json)[t]
                       /\ ctx.vset[t] = TxSet(TxObjects(json), "vlanids", t)
                       /\ ctx.tx_dup => ctx.mset[t] = TxSet(TxObjects(json), "macs", t))'
    BY DEF SetsKnown
  <2>7. /\ TxObjects(json)' = objs
        /\ t \in 1 .. ctx'.ntxifs
        /\ n \in 1 .. Len(objs)
    BY <2>1
  <2>8. Len(objs) \in Nat \ {0} /\ n \in Nat
    <3>1. Len(TxObjects(v.json)) > 0 => Len(TxObjects(v.json)) \in Nat \ {0}
      BY TxObjectsFewer
    <3>2. 1 .. Len(objs) # {}
      BY <2>7
    <3>3. Len(objs) \in Nat \ {0}
      BY <2>3, <3>1, <3>2
    <3> QED
      BY <2>7, <3>3
  <2>9. /\ ctx'.tx_dup => t <= Len(objs) /\ objs[n] = objs[t]
        /\ ~ctx'.tx_dup => objs[n].address = hw.pciids[ctx'.tx_ports[t]]
    BY <2>1, <2>7 DEF Describes, Port, Tx
  <2>10. t \in 1 .. Len(objs) /\ objs[n] = objs[t]
    <3>1. CASE ctx'.tx_dup
      BY <2>6, <2>7, <2>8, <2>9, <3>1
    <3>2. CASE ~ctx'.tx_dup
      <4>1. ~cfg.duprx2tx /\ t \in 1 .. cfg.ntx_devs /\ ctx'.tx_ports = MapPorts(cfg.tx_devs, ids)
        BY <2>4, <2>6, <2>7, <3>2 DEF CfgOK
      <4>2. PortsMapped(cfg.tx_devs, ids) = cfg.ntx_devs
        BY <2>4, <2>6, <4>1 DEF TxMapped, CfgOK
      <4>3. ~MapReadsNil(cfg.tx_devs, ids)
        BY <2>1, <2>2, <2>6, <4>1 DEF MkContextCrashes
      <4>4. cfg.ntx_devs \in Nat /\ Len(cfg.tx_devs) = cfg.ntx_devs
        BY <2>3, <2>4, <4>1, ReadConfigDevs DEF DevsOK, CfgOK
      <4>5. /\ Len(ids) \in Nat
            /\ \A p, q \in 1 .. Len(ids) : ids[p] = ids[q] => p = q
            /\ \A p \in 1 .. Len(ids) : ids[p] = hw.pciids[p]
        BY DEF Visible, PortsInv, Ports
      <4> HIDE DEF ids
      <4>6. MapPorts(cfg.tx_devs, ids)[t] \in 1 .. Len(ids)
        BY <4>1, <4>2, <4>4, <4>5, AllMapped
      <4>7. TxObjects(v.json)[n].address = ids[MapPorts(cfg.tx_devs, ids)[t]]
        BY <2>3, <2>9, <3>2, <4>1, <4>5, <4>6
      <4>8. n = t
        BY <2>3, <2>7, <4>1, <4>2, <4>3, <4>5, <4>7, OwnDevice
      <4> QED
        BY <2>7, <4>8
    <3> QED
      BY <3>1, <3>2
  <2>11. t <= TX_PLACES
    <3>1. cfg.nrx_devs \in Int /\ cfg.ntx_devs \in Int /\ ctx'.ntxifs \in Int
      BY <2>4, <2>6 DEF CfgOK
    <3>2. ctx'.ntxifs <= TX_PLACES
      BY <2>5, <2>6
    <3> QED
      BY <2>7, <3>1, <3>2, PlacesAssumption
  <2>12. /\ ctx'.vset[t] = TxSet(objs, "vlanids", t)
         /\ ctx'.tx_dup => ctx'.mset[t] = TxSet(objs, "macs", t)
    <3>1. /\ ctx' = mk_context(cfg, Visible)
          /\ TxObjects(v.json) = objs
          /\ Len(TxObjects(v.json)) > 0
      BY <2>1, <2>2, <2>3, <2>8
    <3> DEFINE d == ctx'
    <3> HIDE DEF d
    <3>2. d = mk_context(cfg, Visible) /\ d # NULL /\ t \in 1 .. d.ntxifs
      BY <2>2, <2>7, <3>1 DEF d
    <3>3. InPlace(d, TxObjects(v.json), t)
      <4> DEFINE c == cfg
                 s == Visible
      <4>1. c = read_config(v.json) /\ d = mk_context(c, s)
        BY <2>3, <3>2
      <4>2. v \in Invocations
        BY <2>3
      <4>3. Len(TxObjects(v.json)) > 0 /\ d # NULL /\ t \in 1 .. d.ntxifs /\ t <= TX_PLACES
        BY <2>11, <3>1, <3>2
      <4> HIDE DEF c, s
      <4>4. \A e : e = mk_context(c, s) /\ e # NULL /\ t \in 1 .. e.ntxifs =>
                InPlace(e, TxObjects(v.json), t)
        BY <4>1, <4>2, <4>3, SetsInPlace
      <4> QED
        BY <4>1, <4>3, <4>4, Zenon
    <3> QED
      BY <3>1, <3>3 DEF d, InPlace
  <2> QED
    BY <2>7, <2>10, <2>12
<1>2. ASSUME ~MkContext PROVE OriginInv'
  <2>1. UNCHANGED <<args, json, cfg, hw, ctx>>
    BY <1>2 DEF Next, Main, CrackArgs, ArgsDone, InitialiseDpdk, StartIface, StartCrashes, Kill,
       StartDone, RunSim, LinksRound, Launch, WaitSlaves, StopIface, StopDone, GobblerReturns,
       Signal, LinkChange, Terminated, vars, Exit, env
  <2>2. DOMAIN mac' = DOMAIN mac
    BY <1>2 DEF Next, Main, CrackArgs, ArgsDone, InitialiseDpdk, StartIface, StartCrashes, Kill,
       StartDone, RunSim, LinksRound, Launch, WaitSlaves, StopIface, StopDone, GobblerReturns,
       Signal, LinkChange, Terminated, vars, Exit, macVars
  <2>3. stage' = "context" => cfg.nrx_devs > 0 /\ ArgsFit(cfg)
    BY <1>2 DEF Next, Main, CrackArgs, ArgsDone, InitialiseDpdk, StartIface, StartCrashes, Kill,
       StartDone, RunSim, LinksRound, Launch, WaitSlaves, StopIface, StopDone, GobblerReturns,
       Signal, LinkChange, Terminated, vars, Exit, OriginInv
  <2>4. SetsKnown => SetsKnown'
    BY <2>1 DEF SetsKnown, Describes, Port, Tx, Rx
  <2> QED
    BY <2>1, <2>2, <2>3, <2>4 DEF OriginInv, Ports
<1> QED
  BY <1>1, <1>2

\* The macs of an interface are those of its context until it is started, and
\* then these with the address of its port for the zeros.  No other interface
\* changes the address of a port that is started.
MacsInv ==
    ctx # NULL /\ ctx.tx_dup =>
        /\ DOMAIN mset = Ifaces
        /\ \A f \in Ifaces :
            /\ "RUNNING" \in flags[f] => mset[f] = FillZeros(ctx.mset[f[2]], mac[Port(f)])
            /\ stage = "start" /\ "RUNNING" \notin flags[f] => mset[f] = ctx.mset[f[2]]

LEMMA InitMacsInv == Init => MacsInv
BY DEF Init, MacsInv

LEMMA StepMacsInv ==
    ContextInv /\ FlagsInv /\ PortsInv /\ OriginInv /\ MacsInv /\ [Next]_vars => MacsInv'
<1> SUFFICES ASSUME ContextInv, FlagsInv, PortsInv, OriginInv, MacsInv, [Next]_vars,
                    ctx' # NULL, ctx'.tx_dup
             PROVE  MacsInv'
  BY DEF MacsInv
<1>1. CASE MkContext
  <2>1. /\ flags' = [f \in Ifaces' |-> {}]
        /\ mset' = [f \in Ifaces' |-> IF ctx'.tx_dup THEN ctx'.mset[f[2]] ELSE NULL]
    BY <1>1 DEF MkContext
  <2> QED
    BY <2>1 DEF MacsInv
<1>2. ASSUME NEW ok \in BOOLEAN, NEW pushed \in BOOLEAN, StartIface(ok, pushed) PROVE MacsInv'
  <2> DEFINE f == StartList[cur]
             p == Port(f)
             m == IF pushed /\ DefaultMac(cur) # NULL THEN DefaultMac(cur) ELSE mac[p]
  <2>1. ctx # NULL /\ ctx.tx_dup /\ ctx' = ctx /\ ContextOK(ctx) /\ stage = "start"
    BY <1>2 DEF StartIface, FlagsInv, ContextInv
  <2>2. f \in Ifaces /\ p \in Ports
    <3>1. cur \in 1 .. Len(StartList)
      BY <1>2, <2>1, ListFacts DEF StartIface, FlagsInv
    <3>2. f \in Ifaces
      BY <2>1, <3>1, ListFacts
    <3> QED
      BY <2>1, <3>2, PortsTheirOwn DEF EveryDeviceMapped
  <2>3. CASE UNCHANGED <<flags, mset, mac>>
    <3>1. stage' = "start" => stage = "start"
      BY <2>1
    <3> QED
      BY <2>1, <2>3, <3>1, SameLists DEF MacsInv, FillZeros
  <2>4. CASE ~UNCHANGED <<flags, mset, mac>>
    <3>1. /\ p \notin started
          /\ "RUNNING" \notin flags[f]
          /\ flags' = [flags EXCEPT ![f] = @ \cup {"RUNNING"}]
          /\ mac' = [mac EXCEPT ![p] = m]
          /\ mset' = [mset EXCEPT ![f] = FillZeros(@, m)]
      BY <1>2, <2>4 DEF StartIface, macVars
    <3> HIDE DEF f, p, m
    <3>2. /\ DOMAIN mset = Ifaces /\ DOMAIN mset' = Ifaces /\ DOMAIN mac = Ports
          /\ flags \in [Ifaces -> SUBSET {"RUNNING", "LINK_UP"}]
          /\ mset[f] = ctx.mset[f[2]]
      BY <2>1, <2>2, <3>1 DEF MacsInv, OriginInv, FlagsInv
    <3>3. mset'[f] = FillZeros(ctx.mset[f[2]], mac'[p]) /\ "RUNNING" \in flags'[f]
      BY <2>2, <3>1, <3>2
    <3>4. ASSUME NEW g \in Ifaces, g # f
          PROVE  /\ flags'[g] = flags[g] /\ mset'[g] = mset[g]
                 /\ "RUNNING" \in flags[g] => mac'[Port(g)] = mac[Port(g)]
      <4>1. flags'[g] = flags[g] /\ mset'[g] = mset[g]
        BY <3>1, <3>2, <3>4
      <4>2. "RUNNING" \in flags[g] => Port(g) # p
        BY <2>1, <3>1 DEF FlagsInv
      <4>3. Port(g) \in Ports
        BY <2>1, PortsTheirOwn DEF EveryDeviceMapped
      <4> QED
        BY <3>1, <3>2, <4>1, <4>2, <4>3
    <3>5. ASSUME NEW g \in Ifaces
          PROVE  /\ "RUNNING" \in flags'[g] => mset'[g] = FillZeros(ctx.mset[g[2]], mac'[Port(g)])
                 /\ stage' = "start" /\ "RUNNING" \notin flags'[g] => mset'[g] = ctx.mset[g[2]]
      <4>1. CASE g = f
        BY <3>3, <4>1 DEF p
      <4>2. CASE g # f
        BY <2>1, <3>4, <4>2 DEF MacsInv
      <4> QED
        BY <4>1, <4>2
    <3> QED
      BY <2>1, <3>2, <3>5, SameLists DEF MacsInv, FillZeros
  <2> QED
    BY <2>3, <2>4
<1>3. ASSUME ~MkContext, ~\E ok, pushed \in BOOLEAN : StartIface(ok, pushed) PROVE MacsInv'
  <2>1. UNCHANGED <<ctx, mset, mac>> /\ (stage' = "start" => stage = "start")
    BY <1>3 DEF Next, Main, CrackArgs, ArgsDone, InitialiseDpdk, StartCrashes, Kill,
       StartDone, RunSim, LinksRound, Launch, WaitSlaves, StopIface, StopDone, GobblerReturns,
       Signal, LinkChange, Terminated, vars, Exit, macVars
  <2>2. ctx # NULL /\ ctx.tx_dup
    BY <2>1
  <2>3. flags' # flags => stage' # "start" /\ (StartDone \/ LinksRound \/ StopIface)
    BY <1>3, <2>2 DEF Next, Main, CrackArgs, ArgsDone, InitialiseDpdk, StartCrashes, Kill,
       StartDone, RunSim, LinksRound, Launch, WaitSlaves, StopIface, StopDone, GobblerReturns,
       Signal, LinkChange, Terminated, vars, Exit
  <2>4. \A f \in Ifaces : "RUNNING" \in flags'[f] => "RUNNING" \in flags[f]
    <3>1. flags \in [Ifaces -> SUBSET {"RUNNING", "LINK_UP"}]
      BY <2>2 DEF FlagsInv
    <3>2. CASE StartDone
      BY <3>1, <3>2 DEF StartDone
    <3>3. CASE LinksRound
      BY <3>1, <3>3 DEF LinksRound
    <3>4. CASE StopIface
      BY <3>1, <3>4 DEF StopIface
    <3> QED
      BY <2>3, <3>2, <3>3, <3>4
  <2> QED
    BY <2>1, <2>2, <2>3, <2>4, SameLists DEF MacsInv, FillZeros
<1> QED
  BY <1>1, <1>2, <1>3

\* Each tx interface has the vlan ids and macs listed for its own device, and an
\* empty mac has become the one the device had when it was started: neither the
\* elements that are skipped, the order of the ports, nor what other interfaces
\* set can give it another's.  The first device without a list has no set.  Of a
\* later one the theorem says nothing: its pointer was never written.
THEOREM SetsAreRight == Spec => []SetsAsConfigured
<1> DEFINE Inv == ContextInv /\ FlagsInv /\ PortsInv /\ OriginInv /\ MacsInv
<1>1. Init => Inv
  BY InitContextInv, InitFlagsInv, InitPortsInv, InitOriginInv, InitMacsInv
<1>2. Inv /\ [Next]_vars => Inv'
  BY StepContextInv, StepFlagsInv, StepPortsInv, StepOriginInv, StepMacsInv
<1>3. Inv => SetsAsConfigured
  <2> DEFINE objs == TxObjects(json)
             Listed(t, list, k) == IF list.elems[k] = Zeros THEN mac[Port(Tx(t))] ELSE list.elems[k]
  <2> SUFFICES ASSUME Inv, ctx # NULL, NEW t \in 1 .. ctx.ntxifs, NEW n \in 1 .. Len(objs),
                      Describes(objs[n], t)
               PROVE  /\ IF jw_array_len(objs[n].vlanids) > 0
                         THEN \A k \in 1 .. Len(objs[n].vlanids.elems) :
                                objs[n].vlanids.elems[k] # NULL =>
                                    ctx.vset[t][k] = objs[n].vlanids.elems[k]
                         ELSE t = 1 => ctx.vset[t] = NULL
                      /\ ctx.tx_dup =>
                         IF jw_array_len(objs[n].macs) > 0
                         THEN "RUNNING" \in flags[Tx(t)] =>
                              \A k \in 1 .. Len(objs[n].macs.elems) :
                                objs[n].macs.elems[k] # NULL =>
                                    mset[Tx(t)][k] = Listed(t, objs[n].macs, k)
                         ELSE t = 1 => ctx.mset[t] = NULL
    BY DEF SetsAsConfigured
  <2>1. /\ t \in 1 .. Len(objs) /\ objs[n] = objs[t]
        /\ ctx.vset[t] = TxSet(objs, "vlanids", t)
        /\ ctx.tx_dup => ctx.mset[t] = TxSet(objs, "macs", t)
    BY DEF OriginInv, SetsKnown
  <2>2. PICK v \in Invocations : json = v.json
    BY DEF OriginInv
  <2>3. /\ jw_array_len(objs[t].vlanids) \in Nat \cup {-1}
        /\ jw_array_len(objs[t].macs) \in Nat \cup {-1}
        /\ jw_array_len(objs[t].macs) > 0 => Copied(objs[t].macs.elems) \notin {NULL, UNSET}
    BY <2>1, <2>2, ConfigsAssumption, PointersAssumption DEF IsList
  <2> DEFINE ids == objs[t].vlanids
             macs == objs[t].macs
  <2>4. ctx.vset[t] = IF jw_array_len(ids) > 0 THEN Copied(ids.elems)
                      ELSE IF t = 1 THEN NULL ELSE UNSET
    <3> HIDE DEF objs
    <3> QED
      BY <2>1 DEF TxSet
  <2>5. ctx.tx_dup /\ jw_array_len(macs) > 0 => ctx.mset[t] = Copied(macs.elems)
    <3> HIDE DEF objs
    <3> QED
      BY <2>1 DEF TxSet
  <2>6. IF jw_array_len(ids) > 0
        THEN \A k \in 1 .. Len(ids.elems) : ids.elems[k] # NULL => ctx.vset[t][k] = ids.elems[k]
        ELSE t = 1 => ctx.vset[t] = NULL
    <3> HIDE DEF ids
    <3> QED
      BY <2>4 DEF Copied
  <2>7. ASSUME ctx.tx_dup, jw_array_len(macs) > 0, "RUNNING" \in flags[Tx(t)],
               NEW k \in 1 .. Len(macs.elems), macs.elems[k] # NULL
        PROVE  mset[Tx(t)][k] = Listed(t, macs, k)
    <3>1. Tx(t) \in Ifaces /\ Tx(t)[2] = t
      <4>1. ctx.ntxifs = ctx.nrxifs /\ ctx.nrxifs \in Nat
        BY <2>7 DEF ContextInv, ContextOK
      <4>2. Tx(t) = <<"rx", t>> /\ StartList = [i \in 1 .. ctx.nrxifs |-> <<"rx", i>>]
        BY <2>7 DEF Tx, Rx, StartList, RxIfs
      <4>3. Len(StartList) = ctx.nrxifs /\ StartList[t] = <<"rx", t>>
        BY <4>1, <4>2
      <4>4. t \in 1 .. Len(StartList)
        BY <4>1, <4>3
      <4>5. StartList[t] \in Ifaces
        BY <4>4, Zenon DEF Ifaces
      <4>6. Tx(t)[2] = t
        BY <4>2
      <4> QED
        BY <4>2, <4>3, <4>5, <4>6, Zenon
    <3>2. mset[Tx(t)] = FillZeros(Copied(macs.elems), mac[Port(Tx(t))])
      BY <2>5, <2>7, <3>1 DEF MacsInv
    <3>3. Copied(macs.elems) \notin {NULL, UNSET}
      BY <2>3, <2>7
    <3>4. Len(macs.elems) \in Nat
      BY <2>3, <2>7 DEF jw_array_len
    <3> HIDE DEF macs
    <3>5. Copied(macs.elems)[k] = macs.elems[k] /\ Len(Copied(macs.elems)) = Len(macs.elems)
      BY <2>7, <3>4 DEF Copied
    <3> QED
      BY <3>2, <3>3, <3>5 DEF FillZeros
  <2>8. ctx.tx_dup /\ ~(jw_array_len(macs) > 0) /\ t = 1 => ctx.mset[t] = NULL
    <3> HIDE DEF objs
    <3> QED
      BY <2>1 DEF TxSet
  <2> QED
    BY <2>1, <2>6, <2>7, <2>8
<1> QED
  BY <1>1, <1>2, <1>3, PTL DEF Spec

-----------------------------------------------------------------------------
(* The command line.                                                       *)

LEMMA GroupsTyped ==
    ASSUME NEW groups, InGroups(groups), NEW g \in 1 .. Len(groups)
    PROVE  /\ groups[g].letters \in Seq(STRING) /\ groups[g].data \in Seq(Word)
           /\ Len(groups[g].letters) \in Nat /\ Len(groups[g].data) \in Nat
<1> DEFINE G == [letters : Seq(STRING), data : Seq(Word)]
<1>1. groups \in Seq(G)
  BY DEF InGroups
<1> HIDE DEF G
<1>2. groups[g] \in G
  BY <1>1
<1>3. groups[g].letters \in Seq(STRING) /\ groups[g].data \in Seq(Word)
  BY <1>2 DEF G
<1> QED
  BY <1>3

\* Where the groups of a line begin among its words.
Layout(groups, start) ==
    LET W == Words(groups)
    IN  /\ start \in [1 .. Len(groups) + 1 -> Nat]
        /\ start[1] = 0
        /\ W \in Seq(Word)
        /\ Len(W) = start[Len(groups) + 1]
        /\ \A g \in 1 .. Len(groups) :
            /\ start[g + 1] = start[g] + 1 + Len(groups[g].data)
            /\ start[g + 1] <= Len(W)
            /\ W[start[g] + 1] = Cluster(groups[g].letters)
            /\ \A k \in 1 .. Len(groups[g].data) : W[(start[g] + 1) + k] = groups[g].data[k]

LEMMA LayoutExists ==
    ASSUME NEW groups, InGroups(groups)
    PROVE  \E start : Layout(groups, start)
<1> DEFINE one(g) == <<Cluster(groups[g].letters)>> \o groups[g].data
           seqs == [g \in 1 .. Len(groups) |-> one(g)]
           W == Words(groups)
<1>0. Len(groups) \in Nat
  BY DEF InGroups
<1>1. ASSUME NEW g \in 1 .. Len(groups)
      PROVE  /\ one(g) \in Seq(Word)
             /\ Len(one(g)) = 1 + Len(groups[g].data)
             /\ one(g)[1] = Cluster(groups[g].letters)
             /\ \A k \in 1 .. Len(groups[g].data) : one(g)[1 + k] = groups[g].data[k]
  <2>1. groups[g].letters \in Seq(STRING) /\ groups[g].data \in Seq(Word)
    BY GroupsTyped
  <2>2. Cluster(groups[g].letters) \in Word
    BY <2>1 DEF Cluster, Word
  <2> DEFINE c == Cluster(groups[g].letters)
             d == groups[g].data
  <2> HIDE DEF c, d
  <2>3. <<c>> \in Seq(Word) /\ Len(<<c>>) = 1 /\ <<c>>[1] = c /\ d \in Seq(Word) /\ Len(d) \in Nat
    BY <2>1, <2>2 DEF c, d
  <2>4. /\ <<c>> \o d \in Seq(Word)
        /\ Len(<<c>> \o d) = 1 + Len(d)
        /\ \A k \in 1 .. 1 + Len(d) : (<<c>> \o d)[k] = IF k <= 1 THEN <<c>>[k] ELSE d[k - 1]
    BY <2>3, ConcatProperties
  <2> DEFINE both == <<c>> \o d
  <2> HIDE DEF both
  <2>5. both[1] = c /\ \A k \in 1 .. Len(d) : both[1 + k] = d[k]
    <3>1. \A k \in 1 .. 1 + Len(d) : both[k] = IF k <= 1 THEN <<c>>[k] ELSE d[k - 1]
      BY <2>4 DEF both
    <3>2. 1 \in 1 .. 1 + Len(d)
      BY <2>3
    <3>3. \A k \in 1 .. Len(d) : 1 + k \in 1 .. 1 + Len(d) /\ ~(1 + k <= 1) /\ (1 + k) - 1 = k
      BY <2>3
    <3> QED
      BY <2>3, <3>1, <3>2, <3>3
  <2> QED
    BY <2>4, <2>5 DEF both, c, d
<1> HIDE DEF one
<1>2. seqs \in Seq(Seq(Word)) /\ Len(seqs) = Len(groups) /\ W = FlattenSeq(seqs)
  <2>1. seqs \in [1 .. Len(groups) -> Seq(Word)]
    BY <1>1
  <2>2. W = FlattenSeq(seqs)
    BY DEF Words, one
  <2> HIDE DEF seqs
  <2> QED
    BY <1>0, <2>1, <2>2
<1> HIDE DEF seqs, W
<1>3. PICK start : W \in Seq(Word) /\ Starts(seqs, W, start)
  BY <1>2, FlattenStarts
<1>4. /\ start \in [1 .. Len(groups) + 1 -> Nat]
      /\ start[1] = 0
      /\ Len(W) = start[Len(groups) + 1]
      /\ \A g \in 1 .. Len(groups) + 1 : start[g] <= Len(W)
  BY <1>2, <1>3 DEF Starts
<1>5. ASSUME NEW g \in 1 .. Len(groups)
      PROVE  /\ start[g + 1] = start[g] + 1 + Len(groups[g].data)
             /\ start[g + 1] <= Len(W)
             /\ W[start[g] + 1] = Cluster(groups[g].letters)
             /\ \A k \in 1 .. Len(groups[g].data) : W[(start[g] + 1) + k] = groups[g].data[k]
  <2>1. start[g] \in Nat /\ g + 1 \in 1 .. Len(groups) + 1 /\ Len(groups[g].data) \in Nat
    BY <1>0, <1>4, GroupsTyped
  <2>2. /\ start[g + 1] = start[g] + Len(one(g))
        /\ \A k \in 1 .. Len(one(g)) : W[start[g] + k] = one(g)[k]
    BY <1>2, <1>3 DEF Starts, seqs
  <2>3. 1 \in 1 .. Len(one(g))
    BY <1>1, <2>1
  <2>4. W[start[g] + 1] = Cluster(groups[g].letters)
    BY <1>1, <2>2, <2>3
  <2>5. ASSUME NEW k \in 1 .. Len(groups[g].data)
        PROVE  W[(start[g] + 1) + k] = groups[g].data[k]
    <3>1. 1 + k \in 1 .. Len(one(g)) /\ start[g] + (1 + k) = (start[g] + 1) + k
      BY <1>1, <2>1
    <3>2. one(g)[1 + k] = groups[g].data[k]
      BY <1>1
    <3>3. W[start[g] + (1 + k)] = one(g)[1 + k]
      BY <2>2, <3>1, Zenon
    <3> QED
      BY <3>1, <3>2, <3>3, Zenon
  <2>6. start[g + 1] = start[g] + 1 + Len(groups[g].data)
    <3>1. Len(one(g)) = 1 + Len(groups[g].data)
      BY <1>1
    <3>2. start[g + 1] = start[g] + (1 + Len(groups[g].data))
      BY <2>2, <3>1, Zenon
    <3>3. \A a, m \in Nat : a + (1 + m) = a + 1 + m
      OBVIOUS
    <3> QED
      BY <2>1, <3>2, <3>3, Zenon
  <2>7. start[g + 1] <= Len(W)
    BY <1>4, <2>1
  <2> QED
    BY <2>4, <2>5, <2>6, <2>7
<1>6. W \in Seq(Word)
  BY <1>3
<1>7. Layout(groups, start)
  <2> HIDE DEF one, seqs
  <2>1. /\ start \in [1 .. Len(groups) + 1 -> Nat] /\ start[1] = 0
        /\ W \in Seq(Word) /\ Len(W) = start[Len(groups) + 1]
    BY <1>4, <1>6, Zenon
  <2> QED
    BY <1>5, <2>1, Zenon DEF Layout, W
<1> QED
  BY <1>7

\* The count of the letters that take a word goes up with such a letter.
LEMMA TakenSteps ==
    ASSUME NEW letters, NEW n \in Nat
    PROVE  /\ Taken(letters, 0) = 0
           /\ Taken(letters, n) \in Nat
           /\ letters[n + 1] \in DOMAIN TakesWord => Taken(letters, n + 1) = Taken(letters, n) + 1
           /\ letters[n + 1] \notin DOMAIN TakesWord => Taken(letters, n + 1) = Taken(letters, n)
           /\ \A m \in Nat : n <= m => Taken(letters, n) <= Taken(letters, m)
<1> DEFINE T == DOMAIN TakesWord
           At(m) == {k \in 1 .. m : letters[k] \in T}
<1> HIDE DEF T
<1>1. ASSUME NEW m \in Nat
      PROVE  IsFiniteSet(At(m)) /\ Cardinality(At(m)) \in Nat /\ Taken(letters, m) = Cardinality(At(m))
  <2>1. IsFiniteSet(1 .. m)
    BY FS_Interval
  <2>2. IsFiniteSet(At(m))
    BY <2>1, FS_Subset
  <2>3. Taken(letters, m) = Cardinality(At(m))
    BY DEF Taken, T
  <2> QED
    BY <2>2, <2>3, FS_CardinalityType
<1>2. At(0) = {}
  OBVIOUS
<1>3. letters[n + 1] \in T => At(n + 1) = At(n) \cup {n + 1}
  OBVIOUS
<1>4. letters[n + 1] \notin T => At(n + 1) = At(n)
  OBVIOUS
<1>5. n + 1 \notin At(n)
  OBVIOUS
<1>6. \A m \in Nat : n <= m => At(n) \subseteq At(m)
  OBVIOUS
<1> HIDE DEF At
<1>7. Taken(letters, 0) = 0
  BY <1>1, <1>2, FS_EmptySet
<1>8. letters[n + 1] \in T => Taken(letters, n + 1) = Taken(letters, n) + 1
  BY <1>1, <1>3, <1>5, FS_AddElement
<1>9. letters[n + 1] \notin T => Taken(letters, n + 1) = Taken(letters, n)
  BY <1>1, <1>4
<1>10. \A m \in Nat : n <= m => Taken(letters, n) <= Taken(letters, m)
  BY <1>1, <1>6, FS_Subset
<1> QED
  BY <1>1, <1>7, <1>8, <1>9, <1>10 DEF T

\* The places up to the i-th letter of the g-th group.
UpTo(groups, g, i) == {p \in Places(groups) : p[1] < g \/ (p[1] = g /\ p[2] <= i)}

LEMMA PlacesAre ==
    ASSUME NEW groups
    PROVE  \A p : p \in Places(groups) <=>
                    \E g \in 1 .. Len(groups) :
                        \E i \in 1 .. Len(groups[g].letters) : p = <<g, i>>
BY DEF Places

LEMMA UpToSteps ==
    ASSUME NEW groups, InGroups(groups), NEW g \in 1 .. Len(groups), NEW i \in Nat
    PROVE  /\ UpTo(groups, 0, 0) = {}
           /\ UpTo(groups, g, 0) = UpTo(groups, g - 1, IF g = 1 THEN 0 ELSE Len(groups[g - 1].letters))
           /\ i < Len(groups[g].letters) =>
                UpTo(groups, g, i + 1) = UpTo(groups, g, i) \cup {<<g, i + 1>>}
           /\ UpTo(groups, Len(groups), Len(groups[Len(groups)].letters)) = Places(groups)
<1>0. Len(groups) \in Nat /\ Len(groups[g].letters) \in Nat
  BY GroupsTyped DEF InGroups
<1>1. \A p \in Places(groups) :
        /\ p[1] \in 1 .. Len(groups)
        /\ p[2] \in 1 .. Len(groups[p[1]].letters)
        /\ Len(groups[p[1]].letters) \in Nat
        /\ p = <<p[1], p[2]>>
  BY PlacesAre, GroupsTyped
<1>2. UpTo(groups, 0, 0) = {}
  BY <1>1 DEF UpTo
<1>3. UpTo(groups, g, 0) = UpTo(groups, g - 1, IF g = 1 THEN 0 ELSE Len(groups[g - 1].letters))
  BY <1>1 DEF UpTo
<1>4. ASSUME i < Len(groups[g].letters)
      PROVE  UpTo(groups, g, i + 1) = UpTo(groups, g, i) \cup {<<g, i + 1>>}
  <2>1. <<g, i + 1>> \in Places(groups)
    BY <1>0, <1>4, PlacesAre
  <2>2. \A p \in Places(groups) : p[2] <= i + 1 <=> p[2] <= i \/ p[2] = i + 1
    BY <1>1
  <2> QED
    BY <1>1, <2>1, <2>2 DEF UpTo
<1>5. UpTo(groups, Len(groups), Len(groups[Len(groups)].letters)) = Places(groups)
  BY <1>0, <1>1 DEF UpTo
<1> QED
  BY <1>2, <1>3, <1>4, <1>5

\* One more letter changes what it asks for, and nothing else.
SaidIn(groups, places, l) == {p \in places : groups[p[1]].letters[p[2]] = l}

GivenIn(groups, places, l) ==
    IF SaidIn(groups, places, l) = {} THEN Defaults[TakesWord[l]]
    ELSE WordAt(groups, LastOf(SaidIn(groups, places, l)))

OptionRecord(c, d, s, i, n, e) ==
    [ cfg_fname |-> c, dump_size |-> d, sim_id |-> s,
      async |-> i, forreal |-> n, expand |-> e ]

\* What a switch sets its option to.
Switched(l) == ~Defaults[Switches[l]]

LEMMA SwitchesAre ==
    ASSUME NEW l
    PROVE  /\ l = "i" => Switches[l] = "async" /\ Switched(l) = FALSE
           /\ l = "n" => Switches[l] = "forreal" /\ Switched(l) = FALSE
           /\ l = "e" => Switches[l] = "expand" /\ Switched(l) = TRUE
<1>1. Defaults["async"] /\ Defaults["forreal"] /\ ~Defaults["expand"]
  BY DEF Defaults
<1>2. /\ (~Defaults["async"]) = FALSE
      /\ (~Defaults["forreal"]) = FALSE
      /\ (~Defaults["expand"]) = TRUE
  BY <1>1, Zenon
<1>3. Switches["i"] = "async" /\ Switches["n"] = "forreal" /\ Switches["e"] = "expand"
  BY DEF Switches
<1>4. l = "i" => Switched(l) = FALSE
  BY <1>2, <1>3, Zenon DEF Switched
<1>5. l = "n" => Switched(l) = FALSE
  BY <1>2, <1>3, Zenon DEF Switched
<1>6. l = "e" => Switched(l) = TRUE
  BY <1>2, <1>3, Zenon DEF Switched
<1> QED
  BY <1>3, <1>4, <1>5, <1>6, Zenon

LEMMA TruthOf == ASSUME NEW S PROVE \E b \in BOOLEAN : b = (S = {})
<1>1. CASE S = {}
  <2>1. TRUE = (S = {})
    BY <1>1, Zenon
  <2> QED
    BY <2>1, Zenon
<1>2. CASE S # {}
  <2>1. FALSE = (S = {})
    BY <1>2, Zenon
  <2> QED
    BY <2>1, Zenon
<1> QED
  BY <1>1, <1>2

\* The options with their three truth values named.
LEMMA OptionsAre ==
    ASSUME NEW groups, NEW places
    PROVE  \E i, n, e \in BOOLEAN :
             /\ i <=> SaidIn(groups, places, "i") = {}
             /\ n <=> SaidIn(groups, places, "n") = {}
             /\ e <=> SaidIn(groups, places, "e") # {}
             /\ OptionsFor(groups, places) =
                  OptionRecord(GivenIn(groups, places, "c"), GivenIn(groups, places, "d"),
                               GivenIn(groups, places, "s"), i, n, e)
<1> DEFINE Said(l) == SaidIn(groups, places, l)
           Given(l) == GivenIn(groups, places, l)
<1>1. OptionsFor(groups, places) =
        OptionRecord(Given("c"), Given("d"), Given("s"),
                     Said("i") = {}, Said("n") = {}, Said("e") # {})
  BY DEF OptionsFor, GivenIn, SaidIn, OptionRecord
<1> HIDE DEF Said, Given
<1>2. PICK i \in BOOLEAN : i = (Said("i") = {})
  BY TruthOf
<1>3. PICK n \in BOOLEAN : n = (Said("n") = {})
  BY TruthOf
<1>4. PICK e \in BOOLEAN : e = (Said("e") # {})
  <2>1. PICK b \in BOOLEAN : b = (Said("e") = {})
    BY TruthOf
  <2>2. (~b) = (Said("e") # {})
    BY <2>1, Zenon
  <2>3. \E b1 \in BOOLEAN : b1 = (~b)
    BY <2>1
  <2> QED
    BY <2>2, <2>3, Zenon
<1>5. OptionsFor(groups, places) = OptionRecord(Given("c"), Given("d"), Given("s"), i, n, e)
  BY <1>1, <1>2, <1>3, <1>4, Zenon
<1>6. (i <=> Said("i") = {}) /\ (n <=> Said("n") = {}) /\ (e <=> Said("e") # {})
  BY <1>2, <1>3, <1>4, Zenon
<1> QED
  BY <1>5, <1>6, Zenon DEF Said, Given

LEMMA NoLetters == ASSUME NEW groups PROVE OptionsFor(groups, {}) = Defaults
<1>1. \A l : SaidIn(groups, {}, l) = {}
  BY DEF SaidIn
<1>2. \A l : GivenIn(groups, {}, l) = Defaults[TakesWord[l]]
  BY <1>1 DEF GivenIn
<1>3. /\ Defaults[TakesWord["c"]] = Name("./gobbler.cfg")
      /\ Defaults[TakesWord["d"]] = Name("0")
      /\ Defaults[TakesWord["s"]] = NoSim
  BY DEF TakesWord, Defaults
<1>4. PICK i, n, e \in BOOLEAN :
        /\ i <=> SaidIn(groups, {}, "i") = {}
        /\ n <=> SaidIn(groups, {}, "n") = {}
        /\ e <=> SaidIn(groups, {}, "e") # {}
        /\ OptionsFor(groups, {}) =
             OptionRecord(GivenIn(groups, {}, "c"), GivenIn(groups, {}, "d"),
                          GivenIn(groups, {}, "s"), i, n, e)
  BY OptionsAre
<1>5. i = TRUE /\ n = TRUE /\ e = FALSE
  BY <1>1, <1>4
<1>6. OptionsFor(groups, {}) =
        OptionRecord(Name("./gobbler.cfg"), Name("0"), NoSim, TRUE, TRUE, FALSE)
  <2>1. OptionsFor(groups, {}) =
          OptionRecord(GivenIn(groups, {}, "c"), GivenIn(groups, {}, "d"),
                       GivenIn(groups, {}, "s"), i, n, e)
    BY <1>4
  <2>2. /\ GivenIn(groups, {}, "c") = Name("./gobbler.cfg")
        /\ GivenIn(groups, {}, "d") = Name("0")
        /\ GivenIn(groups, {}, "s") = NoSim
    BY <1>2, <1>3
  <2> QED
    BY <1>5, <2>1, <2>2, Zenon
<1> QED
  BY <1>6, Zenon DEF Defaults, OptionRecord

LEMMA SaidSteps ==
    ASSUME NEW groups, InGroups(groups), NEW g \in 1 .. Len(groups), NEW i \in Nat,
           i < Len(groups[g].letters), NEW m
    PROVE  /\ groups[g].letters[i + 1] # m =>
                /\ SaidIn(groups, UpTo(groups, g, i + 1), m) = SaidIn(groups, UpTo(groups, g, i), m)
                /\ GivenIn(groups, UpTo(groups, g, i + 1), m) = GivenIn(groups, UpTo(groups, g, i), m)
           /\ groups[g].letters[i + 1] = m =>
                /\ SaidIn(groups, UpTo(groups, g, i + 1), m) # {}
                /\ GivenIn(groups, UpTo(groups, g, i + 1), m) = WordAt(groups, <<g, i + 1>>)
<1> DEFINE now == <<g, i + 1>>
           old == UpTo(groups, g, i)
           new == UpTo(groups, g, i + 1)
<1>1. new = old \cup {now}
  BY UpToSteps
<1>2. CASE groups[g].letters[i + 1] # m
  <2>1. SaidIn(groups, new, m) = SaidIn(groups, old, m)
    BY <1>1, <1>2 DEF SaidIn
  <2> QED
    BY <1>2, <2>1 DEF GivenIn
<1>3. CASE groups[g].letters[i + 1] = m
  <2> DEFINE at == SaidIn(groups, new, m)
  <2>1. now \in at
    BY <1>1, <1>3 DEF SaidIn
  <2>2. \A q \in at : /\ q[1] \in Nat /\ q[2] \in Nat /\ q = <<q[1], q[2]>>
                      /\ q[1] < g \/ (q[1] = g /\ q[2] <= i + 1)
    <3>1. at \subseteq new /\ new \subseteq Places(groups)
      BY DEF SaidIn, UpTo
    <3>2. \A q \in Places(groups) : q[1] \in Nat /\ q[2] \in Nat /\ q = <<q[1], q[2]>>
      BY PlacesAre, GroupsTyped
    <3>3. \A q \in new : q[1] < g \/ (q[1] = g /\ q[2] <= i + 1)
      BY DEF UpTo
    <3> HIDE DEF at, new
    <3> QED
      BY <3>1, <3>2, <3>3
  <2> DEFINE Latest(p) == \A q \in at : q[1] < p[1] \/ (q[1] = p[1] /\ q[2] <= p[2])
  <2>3. now[1] = g /\ now[2] = i + 1
    OBVIOUS
  <2> HIDE DEF at
  <2>4. Latest(now)
    BY <2>2
  <2>5. ASSUME NEW p \in at, Latest(p) PROVE p = now
    <3>1. g < p[1] \/ (g = p[1] /\ i + 1 <= p[2])
      BY <2>1, <2>3, <2>5
    <3>2. p[1] = g /\ p[2] = i + 1
      BY <2>2, <3>1
    <3> QED
      BY <2>2, <3>2
  <2>6. LastOf(at) = now
    <3>1. LastOf(at) = CHOOSE p \in at : Latest(p)
      BY DEF LastOf
    <3> HIDE DEF Latest, now
    <3> QED
      BY <2>1, <2>4, <2>5, <3>1
  <2> QED
    BY <1>3, <2>1, <2>6 DEF GivenIn, at
<1> QED
  BY <1>2, <1>3

\* What a letter does to the options, with w for its word.
Follows(old, l, w, new) ==
    /\ l \in DOMAIN TakesWord => new = [old EXCEPT ![TakesWord[l]] = w]
    /\ l \in DOMAIN Switches => new = [old EXCEPT ![Switches[l]] = Switched(l)]
    /\ l = "v" => new = old

LEMMA OptionSteps ==
    ASSUME NEW groups, InGroups(groups), NEW g \in 1 .. Len(groups), NEW i \in Nat,
           i < Len(groups[g].letters)
    PROVE  Follows(OptionsFor(groups, UpTo(groups, g, i)), groups[g].letters[i + 1],
                   WordAt(groups, <<g, i + 1>>), OptionsFor(groups, UpTo(groups, g, i + 1)))
<1> DEFINE l == groups[g].letters[i + 1]
           w == WordAt(groups, <<g, i + 1>>)
           old == OptionsFor(groups, UpTo(groups, g, i))
           new == OptionsFor(groups, UpTo(groups, g, i + 1))
           Given(m) == GivenIn(groups, UpTo(groups, g, i), m)
           Said(m) == SaidIn(groups, UpTo(groups, g, i), m)
           NewGiven(m) == GivenIn(groups, UpTo(groups, g, i + 1), m)
           NewSaid(m) == SaidIn(groups, UpTo(groups, g, i + 1), m)
<1>1. PICK async, forreal, expand \in BOOLEAN :
        /\ async <=> Said("i") = {}
        /\ forreal <=> Said("n") = {}
        /\ expand <=> Said("e") # {}
        /\ old = OptionRecord(Given("c"), Given("d"), Given("s"), async, forreal, expand)
  BY OptionsAre
<1>2. PICK async1, forreal1, expand1 \in BOOLEAN :
        /\ async1 <=> NewSaid("i") = {}
        /\ forreal1 <=> NewSaid("n") = {}
        /\ expand1 <=> NewSaid("e") # {}
        /\ new = OptionRecord(NewGiven("c"), NewGiven("d"), NewGiven("s"), async1, forreal1, expand1)
  BY OptionsAre
<1>3. ASSUME NEW m
      PROVE  /\ l # m => NewSaid(m) = Said(m) /\ NewGiven(m) = Given(m)
             /\ l = m => NewSaid(m) # {} /\ NewGiven(m) = w
  BY SaidSteps
<1> HIDE DEF Given, Said, NewGiven, NewSaid, l, w, old, new
<1>4. /\ l # "c" => NewGiven("c") = Given("c")
      /\ l # "d" => NewGiven("d") = Given("d")
      /\ l # "s" => NewGiven("s") = Given("s")
  BY <1>3
<1>5. /\ l # "i" => async1 = async
      /\ l # "n" => forreal1 = forreal
      /\ l # "e" => expand1 = expand
  BY <1>1, <1>2, <1>3
<1>6. ASSUME l = "c" PROVE Follows(old, l, w, new)
  <2>1. NewGiven("c") = w
    BY <1>2, <1>3, <1>6
  <2>2. new = OptionRecord(w, Given("d"), Given("s"), async, forreal, expand)
    BY <1>2, <1>4, <1>5, <1>6, <2>1
  <2>3. new = [old EXCEPT !.cfg_fname = w]
    BY <1>1, <2>2 DEF OptionRecord
  <2> QED
    BY <1>6, <2>3 DEF Follows, TakesWord, Switches
<1>7. ASSUME l = "d" PROVE Follows(old, l, w, new)
  <2>1. NewGiven("d") = w
    BY <1>2, <1>3, <1>7
  <2>2. new = OptionRecord(Given("c"), w, Given("s"), async, forreal, expand)
    BY <1>2, <1>4, <1>5, <1>7, <2>1
  <2>3. new = [old EXCEPT !.dump_size = w]
    BY <1>1, <2>2 DEF OptionRecord
  <2> QED
    BY <1>7, <2>3 DEF Follows, TakesWord, Switches
<1>8. ASSUME l = "s" PROVE Follows(old, l, w, new)
  <2>1. NewGiven("s") = w
    BY <1>2, <1>3, <1>8
  <2>2. new = OptionRecord(Given("c"), Given("d"), w, async, forreal, expand)
    BY <1>2, <1>4, <1>5, <1>8, <2>1
  <2>3. new = [old EXCEPT !.sim_id = w]
    BY <1>1, <2>2 DEF OptionRecord
  <2> QED
    BY <1>8, <2>3 DEF Follows, TakesWord, Switches
<1>9. ASSUME l = "i" PROVE Follows(old, l, w, new)
  <2>1. async1 = Switched(l)
    BY <1>2, <1>3, <1>9, SwitchesAre
  <2>2. new = OptionRecord(Given("c"), Given("d"), Given("s"), Switched(l), forreal, expand)
    BY <1>2, <1>4, <1>5, <1>9, <2>1
  <2>3. new = [old EXCEPT !.async = Switched(l)]
    BY <1>1, <2>2 DEF OptionRecord
  <2> QED
    BY <1>9, <2>3, SwitchesAre DEF Follows, TakesWord, Switches
<1>10. ASSUME l = "n" PROVE Follows(old, l, w, new)
  <2>1. forreal1 = Switched(l)
    BY <1>2, <1>3, <1>10, SwitchesAre
  <2>2. new = OptionRecord(Given("c"), Given("d"), Given("s"), async, Switched(l), expand)
    BY <1>2, <1>4, <1>5, <1>10, <2>1
  <2>3. new = [old EXCEPT !.forreal = Switched(l)]
    BY <1>1, <2>2 DEF OptionRecord
  <2> QED
    BY <1>10, <2>3, SwitchesAre DEF Follows, TakesWord, Switches
<1>11. ASSUME l = "e" PROVE Follows(old, l, w, new)
  <2>1. expand1 = Switched(l)
    BY <1>2, <1>3, <1>11, SwitchesAre
  <2>2. new = OptionRecord(Given("c"), Given("d"), Given("s"), async, forreal, Switched(l))
    BY <1>2, <1>4, <1>5, <1>11, <2>1
  <2>3. new = [old EXCEPT !.expand = Switched(l)]
    BY <1>1, <2>2 DEF OptionRecord
  <2> QED
    BY <1>11, <2>3, SwitchesAre DEF Follows, TakesWord, Switches
<1>12. ASSUME l = "v" PROVE Follows(old, l, w, new)
  <2>1. new = old
    BY <1>1, <1>2, <1>4, <1>5, <1>12
  <2> QED
    BY <1>12, <2>1 DEF Follows, TakesWord, Switches
<1>13. l \in DOMAIN TakesWord => l \in {"c", "d", "s"}
  BY DEF TakesWord
<1>14. l \in DOMAIN Switches => l \in {"i", "n", "e"}
  BY DEF Switches
<1>15. Follows(old, l, w, new)
  BY <1>6, <1>7, <1>8, <1>9, <1>10, <1>11, <1>12, <1>13, <1>14 DEF Follows
<1> QED
  BY <1>15 DEF old, l, w, new

\* How many words are read once i letters of the g-th group are.
Read(groups, start, g, i) ==
    IF g = 0 THEN 0 ELSE start[g] + 1 + Taken(groups[g].letters, i)

LastLetter(groups, g) == IF g = 0 THEN 0 ELSE Len(groups[g].letters)

LEMMA ReadTyped ==
    ASSUME NEW groups, InGroups(groups), NEW start, Layout(groups, start),
           NEW g \in 0 .. Len(groups), NEW i \in Nat
    PROVE  /\ Len(groups) \in Nat
           /\ Words(groups) \in Seq(Word) /\ Len(Words(groups)) \in Nat
           /\ start[1] = 0 /\ Len(Words(groups)) = start[Len(groups) + 1]
           /\ \A h \in 1 .. Len(groups) + 1 : start[h] \in Nat
           /\ Read(groups, start, g, i) \in Nat
<1>1. Len(groups) \in Nat
  BY DEF InGroups
<1>2. /\ start \in [1 .. Len(groups) + 1 -> Nat]
      /\ Words(groups) \in Seq(Word)
      /\ start[1] = 0 /\ Len(Words(groups)) = start[Len(groups) + 1]
  BY DEF Layout
<1>3. Len(Words(groups)) \in Nat
  BY <1>2
<1>4. g # 0 => start[g] \in Nat /\ Taken(groups[g].letters, i) \in Nat
  BY <1>1, <1>2, TakenSteps
<1> QED
  BY <1>1, <1>2, <1>3, <1>4 DEF Read

\* A group that is not the last has exactly the words its letters take, and the
\* next word is the next cluster; after the last, none is a cluster.
LEMMA ReadGroup ==
    ASSUME NEW groups, InGroups(groups), NEW start, Layout(groups, start),
           NEW g \in 0 .. Len(groups),
           NEW pos, pos = Read(groups, start, g, LastLetter(groups, g))
    PROVE  /\ g < Len(groups) =>
                /\ pos < Len(Words(groups))
                /\ Words(groups)[pos + 1] = Cluster(groups[g + 1].letters)
                /\ Read(groups, start, g + 1, 0) = pos + 1
           /\ g = Len(groups) /\ pos < Len(Words(groups)) => ~Words(groups)[pos + 1].dash
<1> DEFINE W == Words(groups)
           n == Taken(groups[g].letters, LastLetter(groups, g))
<1>1. /\ Len(groups) \in Nat /\ Len(W) \in Nat
      /\ start[1] = 0 /\ Len(W) = start[Len(groups) + 1]
      /\ \A h \in 1 .. Len(groups) + 1 : start[h] \in Nat
  BY ReadTyped
<1>2. \A h \in 1 .. Len(groups) :
        /\ start[h + 1] = start[h] + 1 + Len(groups[h].data)
        /\ start[h + 1] <= Len(W)
        /\ W[start[h] + 1] = Cluster(groups[h].letters)
        /\ \A k \in 1 .. Len(groups[h].data) : W[(start[h] + 1) + k] = groups[h].data[k]
        /\ Len(groups[h].data) \in Nat
  BY GroupsTyped DEF Layout
<1>3. g > 0 => /\ n \in Nat
               /\ pos = start[g] + 1 + n
               /\ g < Len(groups) => Len(groups[g].data) = n
               /\ Len(groups[g].data) > n => ~groups[g].data[n + 1].dash
  <2> SUFFICES ASSUME g > 0
               PROVE  /\ n \in Nat
                      /\ pos = start[g] + 1 + n
                      /\ g < Len(groups) => Len(groups[g].data) = n
                      /\ Len(groups[g].data) > n => ~groups[g].data[n + 1].dash
    OBVIOUS
  <2>1. g \in 1 .. Len(groups) /\ g # 0
    BY <1>1
  <2>2. LastLetter(groups, g) = Len(groups[g].letters) /\ Len(groups[g].letters) \in Nat
    BY <2>1, GroupsTyped DEF LastLetter
  <2>3. n \in Nat
    BY <2>2, TakenSteps
  <2>4. pos = start[g] + 1 + n
    BY <2>1 DEF Read
  <2>5. n = Taken(groups[g].letters, Len(groups[g].letters))
    BY <2>2
  <2> HIDE DEF n
  <2>6. /\ g < Len(groups) => Len(groups[g].data) = n
        /\ Len(groups[g].data) > n => ~groups[g].data[n + 1].dash
    BY <2>1, <2>5 DEF InGroups
  <2> QED
    BY <2>3, <2>4, <2>6
<1> HIDE DEF n, W
<1>4. ASSUME g < Len(groups)
      PROVE  /\ pos < Len(W)
             /\ W[pos + 1] = Cluster(groups[g + 1].letters)
             /\ Read(groups, start, g + 1, 0) = pos + 1
  <2>1. pos = start[g + 1]
    <3>1. CASE g = 0
      BY <1>1, <3>1 DEF Read
    <3>2. CASE g > 0
      BY <1>1, <1>2, <1>3, <1>4, <3>2
    <3> QED
      BY <1>1, <3>1, <3>2
  <2>2. g + 1 \in 1 .. Len(groups) /\ g + 1 # 0 /\ start[g + 1] \in Nat
    BY <1>1, <1>4
  <2>3. start[g + 1] < Len(W) /\ W[start[g + 1] + 1] = Cluster(groups[g + 1].letters)
    <3>1. /\ start[(g + 1) + 1] = start[g + 1] + 1 + Len(groups[g + 1].data)
          /\ start[(g + 1) + 1] <= Len(W)
          /\ W[start[g + 1] + 1] = Cluster(groups[g + 1].letters)
          /\ Len(groups[g + 1].data) \in Nat
      BY <1>2, <2>2
    <3> QED
      BY <1>1, <2>2, <3>1
  <2>4. Read(groups, start, g + 1, 0) = start[g + 1] + 1
    <3>1. Read(groups, start, g + 1, 0) = start[g + 1] + 1 + Taken(groups[g + 1].letters, 0)
      BY <2>2 DEF Read
    <3>2. Taken(groups[g + 1].letters, 0) = 0
      BY TakenSteps
    <3> QED
      BY <2>2, <3>1, <3>2
  <2> QED
    BY <2>1, <2>3, <2>4
<1>5. ASSUME g = Len(groups), pos < Len(W) PROVE ~W[pos + 1].dash
  <2>1. g > 0
    <3>1. g = 0 => pos = 0 /\ Len(W) = 0
      BY <1>1, <1>5 DEF Read
    <3> QED
      BY <1>1, <1>5, <3>1
  <2>2. g \in 1 .. Len(groups) /\ start[g] \in Nat
    BY <1>1, <2>1
  <2>3. Len(W) = start[g] + 1 + Len(groups[g].data) /\ Len(groups[g].data) \in Nat
    BY <1>1, <1>2, <1>5, <2>2
  <2>4. n \in Nat /\ pos = start[g] + 1 + n
    BY <1>3, <2>1
  <2>5. Len(groups[g].data) > n /\ n + 1 \in 1 .. Len(groups[g].data)
    BY <1>5, <2>2, <2>3, <2>4
  <2>6. W[(start[g] + 1) + (n + 1)] = groups[g].data[n + 1]
    BY <1>2, <2>2, <2>5
  <2>7. (start[g] + 1) + (n + 1) = pos + 1
    BY <2>2, <2>4
  <2> QED
    BY <1>3, <2>1, <2>5, <2>6, <2>7
<1> QED
  BY <1>4, <1>5 DEF W

\* The next word is the one for the next letter, when it takes one.
LEMMA ReadLetter ==
    ASSUME NEW groups, InGroups(groups), NEW start, Layout(groups, start),
           NEW g \in 1 .. Len(groups), NEW i \in Nat, i < Len(groups[g].letters),
           NEW pos, pos = Read(groups, start, g, i),
           NEW l, l = groups[g].letters[i + 1]
    PROVE  /\ l \in DOMAIN TakesWord /\ pos < Len(Words(groups)) =>
                /\ Words(groups)[pos + 1] = WordAt(groups, <<g, i + 1>>)
                /\ Read(groups, start, g, i + 1) = pos + 1
           /\ l \notin DOMAIN TakesWord => Read(groups, start, g, i + 1) = pos
<1> DEFINE W == Words(groups)
           letters == groups[g].letters
           data == groups[g].data
           n == Taken(letters, i)
           n1 == Taken(letters, i + 1)
<1>1. Len(groups) \in Nat /\ Len(W) \in Nat /\ start[g] \in Nat
  <2>1. g \in 0 .. Len(groups) /\ g \in 1 .. Len(groups) + 1
    BY DEF InGroups
  <2>2. Len(groups) \in Nat /\ Len(W) \in Nat /\ \A h \in 1 .. Len(groups) + 1 : start[h] \in Nat
    BY <2>1, ReadTyped, Zenon
  <2> QED
    BY <2>1, <2>2, Zenon
<1>2. Len(letters) \in Nat /\ Len(data) \in Nat
  BY GroupsTyped
<1>3. /\ start[g + 1] = start[g] + 1 + Len(data)
      /\ Len(W) = start[Len(groups) + 1]
      /\ \A k \in 1 .. Len(data) : W[(start[g] + 1) + k] = data[k]
  BY DEF Layout
<1>4. /\ n \in Nat /\ n1 \in Nat
      /\ l \in DOMAIN TakesWord => n1 = n + 1
      /\ l \notin DOMAIN TakesWord => n1 = n
      /\ n1 <= Taken(letters, Len(letters))
  <2>1. i + 1 \in Nat /\ i + 1 <= Len(letters) /\ Len(letters) \in Nat
    BY <1>2
  <2>2. l = letters[i + 1]
    OBVIOUS
  <2> HIDE DEF letters
  <2>3. n \in Nat /\ n1 \in Nat
    BY <2>1, TakenSteps
  <2>4. n1 <= Taken(letters, Len(letters))
    BY <2>1, TakenSteps
  <2>5. l \in DOMAIN TakesWord => n1 = n + 1
    BY <2>2, TakenSteps
  <2>6. l \notin DOMAIN TakesWord => n1 = n
    BY <2>2, TakenSteps
  <2> QED
    BY <2>3, <2>4, <2>5, <2>6
<1>5. g < Len(groups) => Len(data) = Taken(letters, Len(letters))
  BY DEF InGroups
<1>6. pos = start[g] + 1 + n /\ Read(groups, start, g, i + 1) = start[g] + 1 + n1
  BY DEF Read
<1>7. WordAt(groups, <<g, i + 1>>) = data[n1]
  BY DEF WordAt
<1> HIDE DEF W, letters, data, n, n1
<1>8. ASSUME l \in DOMAIN TakesWord, pos < Len(W) PROVE W[pos + 1] = data[n1]
  <2>1. n1 \in 1 .. Len(data)
    <3>1. CASE g < Len(groups)
      BY <1>2, <1>4, <1>5, <1>8, <3>1
    <3>2. CASE g = Len(groups)
      <4>1. Len(W) = start[g] + 1 + Len(data)
        BY <1>3, <3>2
      <4>2. n1 = n + 1 /\ n \in Nat /\ pos = start[g] + 1 + n /\ pos < Len(W)
        BY <1>4, <1>6, <1>8
      <4> QED
        BY <1>1, <1>2, <4>1, <4>2
    <3> QED
      BY <1>1, <3>1, <3>2
  <2>2. pos + 1 = (start[g] + 1) + n1
    <3>1. n \in Nat /\ n1 = n + 1 /\ pos = start[g] + 1 + n
      BY <1>4, <1>6, <1>8
    <3>2. \A a, m \in Nat : (a + 1 + m) + 1 = (a + 1) + (m + 1)
      OBVIOUS
    <3> QED
      BY <1>1, <3>1, <3>2, Zenon
  <2> QED
    BY <1>3, <2>1, <2>2
<1>9. ASSUME l \in DOMAIN TakesWord PROVE Read(groups, start, g, i + 1) = pos + 1
  <2>1. n \in Nat /\ n1 = n + 1
    BY <1>4, <1>9
  <2>2. \A a, m \in Nat : a + 1 + (m + 1) = (a + 1 + m) + 1
    OBVIOUS
  <2> QED
    BY <1>1, <1>6, <2>1, <2>2, Zenon
<1>10. l \notin DOMAIN TakesWord => Read(groups, start, g, i + 1) = pos
  BY <1>4, <1>6
<1>11. l \in DOMAIN TakesWord /\ pos < Len(W) => W[pos + 1] = WordAt(groups, <<g, i + 1>>)
  BY <1>7, <1>8
<1> QED
  BY <1>9, <1>10, <1>11 DEF W

\* What is left of a sequence after its first n elements.
Remains(x, y, n) == Len(y) = n + Len(x) /\ \A k \in 1 .. Len(x) : x[k] = y[n + k]

LEMMA RemainsTail ==
    ASSUME NEW S, NEW x \in Seq(S), NEW y \in Seq(S), NEW n \in Nat, Remains(x, y, n)
    PROVE  /\ n + Len(x) = Len(y)
           /\ x = <<>> <=> n = Len(y)
           /\ x # <<>> => /\ n < Len(y) /\ Head(x) = y[n + 1] /\ Head(x) \in S
                          /\ Tail(x) \in Seq(S) /\ Remains(Tail(x), y, n + 1)
<1>1. Len(y) = n + Len(x) /\ Len(x) \in Nat /\ Len(y) \in Nat
  BY DEF Remains
<1>2. ASSUME x # <<>>
      PROVE  /\ n < Len(y) /\ Head(x) = y[n + 1] /\ Head(x) \in S
             /\ Tail(x) \in Seq(S) /\ Remains(Tail(x), y, n + 1)
  <2>1. Len(x) > 0 /\ Head(x) = x[1] /\ Head(x) \in S
    BY <1>2
  <2>2. /\ Tail(x) \in Seq(S) /\ Len(Tail(x)) = Len(x) - 1
        /\ \A k \in 1 .. Len(Tail(x)) : Tail(x)[k] = x[k + 1]
    BY <1>2
  <2>3. \A k \in 1 .. Len(x) : x[k] = y[n + k]
    BY DEF Remains
  <2>4. x[1] = y[n + 1]
    BY <1>1, <2>1, <2>3
  <2> DEFINE t == Tail(x)
  <2> HIDE DEF t
  <2>5. Len(t) = Len(x) - 1 /\ \A k \in 1 .. Len(t) : t[k] = x[k + 1]
    BY <2>2 DEF t
  <2>6. \A k \in 1 .. Len(t) : t[k] = y[(n + 1) + k]
    <3> SUFFICES ASSUME NEW k \in 1 .. Len(t) PROVE t[k] = y[(n + 1) + k]
      OBVIOUS
    <3>1. k + 1 \in 1 .. Len(x) /\ n + (k + 1) = (n + 1) + k
      BY <1>1, <2>5
    <3> QED
      BY <2>3, <2>5, <3>1
  <2>7. Len(y) = (n + 1) + Len(t)
    BY <1>1, <2>5
  <2> QED
    BY <1>1, <2>1, <2>2, <2>4, <2>6, <2>7 DEF Remains, t
<1>3. x = <<>> <=> Len(x) = 0
  OBVIOUS
<1> QED
  BY <1>1, <1>2, <1>3

\* The scan is past the i-th letter of the g-th group.
ScanAt(groups, start, s, g, i) ==
    /\ g \in 0 .. Len(groups)
    /\ i \in 0 .. LastLetter(groups, g)
    /\ s.opt \in Seq(STRING)
    /\ IF g = 0 THEN s.opt = <<>> ELSE Remains(s.opt, groups[g].letters, i)
    /\ s.rest \in Seq(Word)
    /\ Remains(s.rest, Words(groups), Read(groups, start, g, i))
    /\ s.options = OptionsFor(groups, UpTo(groups, g, i))
    /\ s.done => g = Len(groups) /\ s.opt = <<>>

ScanFields == {"rest", "opt", "options", "exit", "done"}

LEMMA ScanStarts ==
    ASSUME NEW groups, InGroups(groups), NEW start, Layout(groups, start)
    PROVE  /\ DOMAIN Scan(Words(groups)) = ScanFields
           /\ ScanAt(groups, start, Scan(Words(groups)), 0, 0)
<1> DEFINE s == Scan(Words(groups))
           W == Words(groups)
<1>1. /\ DOMAIN s = ScanFields
      /\ s.rest = W /\ s.opt = <<>> /\ s.options = Defaults /\ ~s.done
  BY DEF Scan, ScanFields
<1>2. W \in Seq(Word) /\ Len(W) \in Nat /\ Len(groups) \in Nat
  BY ReadTyped
<1>3. Read(groups, start, 0, 0) = 0
  BY DEF Read
<1> HIDE DEF s, W
<1>4. Remains(W, W, 0)
  BY <1>2 DEF Remains
<1>5. UpTo(groups, 0, 0) = {}
  <2>1. \A p \in Places(groups) : p[1] \in Nat /\ p[1] > 0
    BY <1>2, PlacesAre
  <2> QED
    BY <2>1 DEF UpTo
<1>6. s.options = OptionsFor(groups, UpTo(groups, 0, 0))
  BY <1>1, <1>5, NoLetters
<1>7. 0 \in 0 .. LastLetter(groups, 0) /\ <<>> \in Seq(STRING)
  BY DEF LastLetter
<1> QED
  BY <1>1, <1>2, <1>3, <1>4, <1>6, <1>7 DEF ScanAt, s, W

LEMMA ScanEnds ==
    ASSUME NEW groups, InGroups(groups), NEW start, Layout(groups, start),
           NEW s, s.done, NEW g, NEW i, ScanAt(groups, start, s, g, i)
    PROVE  s.options = Meant(groups)
<1>1. Len(groups) \in Nat /\ g = Len(groups) /\ s.opt = <<>>
  BY DEF ScanAt, InGroups
<1>2. UpTo(groups, g, i) = Places(groups)
  <2>1. CASE g = 0
    <3>1. Len(groups) = 0
      BY <1>1, <2>1
    <3>2. Places(groups) = {}
      BY <3>1, PlacesAre
    <3> QED
      BY <3>2 DEF UpTo
  <2>2. CASE g # 0
    <3>1. g \in 1 .. Len(groups) /\ i \in Nat
      BY <1>1, <2>2 DEF ScanAt
    <3>2. groups[g].letters \in Seq(STRING) /\ Remains(<<>>, groups[g].letters, i)
      BY <1>1, <2>2, <3>1, GroupsTyped DEF ScanAt
    <3>3. i = Len(groups[g].letters)
      BY <3>1, <3>2 DEF Remains
    <3> QED
      BY <1>1, <3>1, <3>3, UpToSteps
  <2> QED
    BY <2>1, <2>2
<1> QED
  BY <1>2 DEF ScanAt, Meant

\* A step of the scan reads a cluster or a letter, and ends it only where the
\* groups end.
LEMMA ScanAdvances ==
    ASSUME NEW groups, InGroups(groups), NEW start, Layout(groups, start),
           NEW s, DOMAIN s = ScanFields, ~s.done, s.exit = -1,
           NEW g, NEW i, ScanAt(groups, start, s, g, i),
           NEW s1, s1 = ScanStep(s), s1.exit = -1
    PROVE  \E g1, i1 : ScanAt(groups, start, s1, g1, i1)
<1> DEFINE W == Words(groups)
           letters == groups[g].letters
           pos == Read(groups, start, g, i)
<1>1. /\ Len(groups) \in Nat /\ g \in 0 .. Len(groups) /\ g \in Nat
      /\ LastLetter(groups, g) \in Nat /\ i \in Nat /\ i <= LastLetter(groups, g)
      /\ pos \in Nat
      /\ W \in Seq(Word)
  <2>1. Len(groups) \in Nat /\ g \in 0 .. Len(groups) /\ i \in 0 .. LastLetter(groups, g)
    BY DEF ScanAt, InGroups
  <2>2. LastLetter(groups, g) \in Nat
    BY <2>1, GroupsTyped DEF LastLetter
  <2> QED
    BY <2>1, <2>2, ReadTyped
<1>2. /\ s.opt \in Seq(STRING) /\ s.rest \in Seq(Word)
      /\ g = 0 => s.opt = <<>>
      /\ g # 0 => Remains(s.opt, letters, i)
      /\ Remains(s.rest, W, pos)
      /\ s.options = OptionsFor(groups, UpTo(groups, g, i))
  BY DEF ScanAt
<1>3. /\ s.rest = <<>> <=> pos = Len(W)
      /\ s.rest # <<>> => /\ pos < Len(W) /\ Head(s.rest) = W[pos + 1]
                          /\ Tail(s.rest) \in Seq(Word) /\ Remains(Tail(s.rest), W, pos + 1)
  BY <1>1, <1>2, RemainsTail
<1>4. CASE s.opt = <<>>
  <2>1. s1 = NextWord(s)
    BY <1>4 DEF ScanStep
  <2>2. i = LastLetter(groups, g)
    BY <1>1, <1>2, <1>4, GroupsTyped DEF LastLetter, Remains
  <2>3. /\ g < Len(groups) =>
              /\ pos < Len(W) /\ W[pos + 1] = Cluster(groups[g + 1].letters)
              /\ Read(groups, start, g + 1, 0) = pos + 1
        /\ g = Len(groups) /\ pos < Len(W) => ~W[pos + 1].dash
    BY <1>1, <2>2, ReadGroup
  <2>4. CASE g = Len(groups)
    <3>1. s1 = [s EXCEPT !.done = TRUE]
      BY <1>3, <2>1, <2>3, <2>4 DEF NextWord
    <3>2. s1.opt = s.opt /\ s1.rest = s.rest /\ s1.options = s.options
      BY <3>1
    <3>3. ScanAt(groups, start, s1, g, i)
      BY <1>4, <2>4, <3>2 DEF ScanAt
    <3> QED
      BY <3>3
  <2>5. CASE g < Len(groups)
    <3>1. /\ s.rest # <<>> /\ Head(s.rest) = Cluster(groups[g + 1].letters)
          /\ Head(s.rest).dash /\ Head(s.rest).letters = groups[g + 1].letters
      <4>1. pos < Len(W) /\ pos # Len(W)
        BY <1>1, <2>3, <2>5
      <4> QED
        BY <1>3, <2>3, <2>5, <4>1 DEF Cluster
    <3>2. s1 = [s EXCEPT !.opt = groups[g + 1].letters, !.rest = Tail(@)]
      BY <2>1, <3>1 DEF NextWord
    <3>3. /\ s1.opt = groups[g + 1].letters /\ s1.rest = Tail(s.rest)
          /\ s1.options = s.options /\ s1.done = s.done
      BY <3>2 DEF ScanFields
    <3>4. g + 1 \in 1 .. Len(groups) /\ g + 1 # 0 /\ (g + 1) - 1 = g /\ (g + 1 = 1 <=> g = 0)
      BY <1>1, <2>5
    <3>5. groups[g + 1].letters \in Seq(STRING) /\ Remains(s1.opt, groups[g + 1].letters, 0)
      <4>1. groups[g + 1].letters \in Seq(STRING) /\ Len(groups[g + 1].letters) \in Nat
        BY <3>4, GroupsTyped
      <4> QED
        BY <3>3, <4>1 DEF Remains
    <3>6. UpTo(groups, g + 1, 0) = UpTo(groups, g, i)
      BY <2>2, <3>4, UpToSteps DEF LastLetter
    <3>7. 0 \in 0 .. LastLetter(groups, g + 1)
      BY <3>4, GroupsTyped DEF LastLetter
    <3>8. s1.rest \in Seq(Word) /\ Remains(s1.rest, W, Read(groups, start, g + 1, 0))
      BY <1>3, <2>3, <2>5, <3>1, <3>3
    <3>9. ScanAt(groups, start, s1, g + 1, 0)
      BY <1>2, <3>3, <3>4, <3>5, <3>6, <3>7, <3>8 DEF ScanAt
    <3> QED
      BY <3>9
  <2> QED
    BY <1>1, <2>4, <2>5
<1>5. CASE s.opt # <<>>
  <2> DEFINE l == Head(s.opt)
  <2>1. s1 = Letter(s)
    BY <1>5 DEF ScanStep
  <2>2. g \in 1 .. Len(groups) /\ g # 0 /\ letters \in Seq(STRING)
    BY <1>1, <1>2, <1>5, GroupsTyped
  <2>3. /\ i < Len(letters) /\ l = letters[i + 1]
        /\ Tail(s.opt) \in Seq(STRING) /\ Remains(Tail(s.opt), letters, i + 1)
    <3>1. s.opt \in Seq(STRING) /\ letters \in Seq(STRING) /\ i \in Nat /\ Remains(s.opt, letters, i)
      BY <1>1, <1>2, <2>2
    <3> HIDE DEF letters
    <3> DEFINE opt == s.opt
    <3> HIDE DEF opt
    <3>2. opt \in Seq(STRING) /\ Remains(opt, letters, i) /\ opt # <<>>
      BY <1>5, <3>1 DEF opt
    <3>3. /\ i < Len(letters) /\ Head(opt) = letters[i + 1]
          /\ Tail(opt) \in Seq(STRING) /\ Remains(Tail(opt), letters, i + 1)
      BY <3>1, <3>2, RemainsTail
    <3> QED
      BY <3>3 DEF opt
  <2>4. i + 1 \in 0 .. LastLetter(groups, g)
    BY <1>1, <2>2, <2>3 DEF LastLetter
  <2>5. /\ l \in DOMAIN TakesWord /\ pos < Len(W) =>
              /\ W[pos + 1] = WordAt(groups, <<g, i + 1>>)
              /\ Read(groups, start, g, i + 1) = pos + 1
        /\ l \notin DOMAIN TakesWord => Read(groups, start, g, i + 1) = pos
    <3>1. /\ InGroups(groups) /\ Layout(groups, start)
          /\ i \in Nat /\ i < Len(groups[g].letters) /\ l = groups[g].letters[i + 1]
      BY <1>1, <2>2, <2>3
    <3> DEFINE here == Read(groups, start, g, i)
    <3>2. here = Read(groups, start, g, i) /\ pos = here
      BY <1>1
    <3> HIDE DEF l, here
    <3>3. /\ l \in DOMAIN TakesWord /\ here < Len(Words(groups)) =>
              /\ Words(groups)[here + 1] = WordAt(groups, <<g, i + 1>>)
              /\ Read(groups, start, g, i + 1) = here + 1
          /\ l \notin DOMAIN TakesWord => Read(groups, start, g, i + 1) = here
      <4>1. \A p, x : p = Read(groups, start, g, i) /\ x = groups[g].letters[i + 1] =>
                /\ x \in DOMAIN TakesWord /\ p < Len(Words(groups)) =>
                    /\ Words(groups)[p + 1] = WordAt(groups, <<g, i + 1>>)
                    /\ Read(groups, start, g, i + 1) = p + 1
                /\ x \notin DOMAIN TakesWord => Read(groups, start, g, i + 1) = p
        BY <2>2, <3>1, ReadLetter
      <4> QED
        BY <3>1, <3>2, <4>1, Zenon
    <3> QED
      BY <3>2, <3>3, Zenon
  <2> DEFINE new == OptionsFor(groups, UpTo(groups, g, i + 1))
             w == WordAt(groups, <<g, i + 1>>)
  <2>6. Follows(s.options, l, w, new)
    <3>1. Follows(OptionsFor(groups, UpTo(groups, g, i)), groups[g].letters[i + 1], w, new)
      BY <1>1, <2>2, <2>3, OptionSteps
    <3>2. s.options = OptionsFor(groups, UpTo(groups, g, i)) /\ l = groups[g].letters[i + 1]
      BY <1>2, <2>3
    <3> QED
      BY <3>1, <3>2, Zenon
  <2> HIDE DEF l, new, w, pos, W, letters
  <2>7. ASSUME s1.opt = Tail(s.opt), s1.options = new, s1.done = s.done,
               s1.rest \in Seq(Word), Remains(s1.rest, W, Read(groups, start, g, i + 1))
        PROVE  ScanAt(groups, start, s1, g, i + 1)
    BY <1>1, <2>2, <2>3, <2>4, <2>7 DEF ScanAt, new, W, letters
  <2>8. CASE l \in DOMAIN TakesWord
    <3>0. l \notin DOMAIN Switches /\ l # "v" /\ l # "?"
      BY <2>8 DEF TakesWord, Switches
    <3>1. s1 = get_nxt(s, TakesWord[l])
      BY <2>1, <2>8, <3>0 DEF Letter, l
    <3>2. s.rest # <<>>
      <4>1. SUFFICES ASSUME s.rest = <<>> PROVE FALSE
        OBVIOUS
      <4>2. s1 = [s EXCEPT !.exit = 1, !.done = TRUE]
        BY <3>1, <4>1 DEF get_nxt
      <4>3. s1.exit = 1
        BY <4>2 DEF ScanFields
      <4> QED
        BY <4>3
    <3>3. s1 = [s EXCEPT !.options[TakesWord[l]] = Head(s.rest), !.opt = Tail(@), !.rest = Tail(@)]
      BY <3>1, <3>2 DEF get_nxt
    <3>4. /\ s1.options = [s.options EXCEPT ![TakesWord[l]] = Head(s.rest)]
          /\ s1.opt = Tail(s.opt) /\ s1.rest = Tail(s.rest) /\ s1.done = s.done
      BY <3>3 DEF ScanFields
    <3>5. Head(s.rest) = w /\ Read(groups, start, g, i + 1) = pos + 1
      BY <1>3, <2>5, <2>8, <3>2 DEF w
    <3>6. s1.options = new
      BY <2>6, <2>8, <3>4, <3>5 DEF Follows
    <3>7. s1.rest \in Seq(Word) /\ Remains(s1.rest, W, Read(groups, start, g, i + 1))
      BY <1>3, <3>2, <3>4, <3>5
    <3> QED
      BY <2>7, <3>4, <3>6, <3>7
  <2>9. CASE l \in DOMAIN Switches
    <3>1. l \notin DOMAIN TakesWord /\ l # "v" /\ l # "?"
      BY <2>9 DEF Switches, TakesWord
    <3>2. s1 = [s EXCEPT !.options[Switches[l]] = ~Defaults[Switches[l]], !.opt = Tail(@)]
      BY <2>1, <2>9, <3>1 DEF Letter, l
    <3>3. s1 = [s EXCEPT !.options[Switches[l]] = Switched(l), !.opt = Tail(@)]
      BY <3>2, Zenon DEF Switched
    <3>4. /\ s1.options = [s.options EXCEPT ![Switches[l]] = Switched(l)]
          /\ s1.opt = Tail(s.opt) /\ s1.rest = s.rest /\ s1.done = s.done
      BY <3>3 DEF ScanFields
    <3> QED
      BY <1>2, <2>5, <2>6, <2>7, <2>9, <3>1, <3>4 DEF Follows
  <2>10. CASE l = "v"
    <3>1. l \notin DOMAIN TakesWord /\ l \notin DOMAIN Switches
      BY <2>10 DEF Switches, TakesWord
    <3>2. s1 = [s EXCEPT !.opt = Tail(@)]
      BY <2>1, <2>10, <3>1 DEF Letter, l
    <3>3. s1.options = s.options /\ s1.opt = Tail(s.opt) /\ s1.rest = s.rest /\ s1.done = s.done
      BY <3>2 DEF ScanFields
    <3> QED
      BY <1>2, <2>5, <2>6, <2>7, <2>10, <3>1, <3>3 DEF Follows
  <2>11. CASE l \notin DOMAIN TakesWord /\ l \notin DOMAIN Switches /\ l # "v"
    <3>1. \E e \in {0, 1} : s1 = [s EXCEPT !.exit = e, !.done = TRUE]
      BY <2>1, <2>11 DEF Letter, l
    <3>2. s1.exit # -1
      BY <3>1 DEF ScanFields
    <3> QED
      BY <3>2
  <2> QED
    BY <2>8, <2>9, <2>10, <2>11
<1> QED
  BY <1>4, <1>5

LEMMA ScanKeepsFields ==
    ASSUME NEW s, DOMAIN s = ScanFields
    PROVE  DOMAIN ScanStep(s) = ScanFields
BY DEF ScanStep, NextWord, Letter, get_nxt

\* The scan is somewhere in the groups as long as there is no exit, and at their
\* end when crack_args returns.
LineInv ==
    /\ InGroups(args)
    /\ DOMAIN scan = ScanFields
    /\ ~scan.done => scan.exit = -1
    /\ scan.exit = -1 =>
        \E start : Layout(args, start) /\ \E g, i : ScanAt(args, start, scan, g, i)
    /\ stage \notin {"args", "exit"} => scan.done /\ scan.exit = -1

LEMMA InitLineInv == Init => LineInv
<1> SUFFICES ASSUME Init PROVE LineInv
  OBVIOUS
<1>1. PICK v \in Invocations : args = v.args /\ scan = Scan(Words(v.args))
  BY DEF Init
<1>2. InGroups(args)
  BY <1>1, LinesAssumption
<1>3. PICK start : Layout(args, start)
  BY <1>2, LayoutExists
<1>4. DOMAIN scan = ScanFields /\ ScanAt(args, start, scan, 0, 0)
  BY <1>1, <1>2, <1>3, ScanStarts
<1>5. ~scan.done /\ scan.exit = -1
  BY <1>1 DEF Scan
<1>6. stage = "args"
  BY DEF Init
<1> QED
  BY <1>2, <1>3, <1>4, <1>5, <1>6 DEF LineInv

LEMMA StepLineInv == LineInv /\ [Next]_vars => LineInv'
<1> SUFFICES ASSUME LineInv, [Next]_vars PROVE LineInv'
  OBVIOUS
<1>1. args' = args
  BY DEF Next, Main, CrackArgs, ArgsDone, InitialiseDpdk, MkContext, StartIface, StartCrashes, Kill,
       StartDone, RunSim, LinksRound, Launch, WaitSlaves, StopIface, StopDone, GobblerReturns,
       Signal, LinkChange, Terminated, vars, Exit, env
<1>2. CASE CrackArgs
  <2>1. stage = "args" /\ stage' = "args" /\ ~scan.done /\ scan' = ScanStep(scan)
    BY <1>2 DEF CrackArgs
  <2>2. DOMAIN scan' = ScanFields
    BY <2>1, ScanKeepsFields DEF LineInv
  <2>3. ~scan'.done => scan'.exit = -1
    BY <2>1 DEF LineInv, ScanStep, NextWord, Letter, get_nxt, ScanFields
  <2>4. ASSUME scan'.exit = -1
        PROVE  \E start : Layout(args, start) /\ \E g, i : ScanAt(args, start, scan', g, i)
    <3>1. PICK start : Layout(args, start) /\ \E g, i : ScanAt(args, start, scan, g, i)
      BY <2>1 DEF LineInv
    <3>2. PICK g, i : ScanAt(args, start, scan, g, i)
      BY <3>1
    <3>3. InGroups(args) /\ DOMAIN scan = ScanFields /\ scan.exit = -1
      BY <2>1 DEF LineInv
    <3>4. \E g1, i1 : ScanAt(args, start, scan', g1, i1)
      BY <2>1, <2>4, <3>1, <3>2, <3>3, ScanAdvances
    <3> QED
      BY <3>1, <3>4
  <2> QED
    BY <1>1, <2>1, <2>2, <2>3, <2>4 DEF LineInv
<1>3. CASE ~CrackArgs
  <2>1. scan' = scan
    BY <1>3 DEF Next, Main, ArgsDone, InitialiseDpdk, MkContext, StartIface, StartCrashes, Kill,
       StartDone, RunSim, LinksRound, Launch, WaitSlaves, StopIface, StopDone, GobblerReturns,
       Signal, LinkChange, Terminated, vars, Exit
  <2>2. stage' \notin {"args", "exit"} =>
          stage \notin {"args", "exit"} \/ (scan.done /\ scan.exit = -1)
    BY <1>3 DEF Next, Main, ArgsDone, InitialiseDpdk, MkContext, StartIface, StartCrashes, Kill,
       StartDone, RunSim, LinksRound, Launch, WaitSlaves, StopIface, StopDone, GobblerReturns,
       Signal, LinkChange, Terminated, vars, Exit
  <2> QED
    BY <1>1, <2>1, <2>2 DEF LineInv
<1> QED
  BY <1>2, <1>3

\* The options the process runs with are those its command line was meant to
\* give: whichever way its letters are clustered, each word goes to the letter that
\* takes it, and of a letter given twice the last word counts.
THEOREM OptionsAreMeant == Spec => []OptionsAsMeant
<1>1. LineInv => OptionsAsMeant
  BY ScanEnds DEF LineInv, OptionsAsMeant
<1> QED
  BY <1>1, InitLineInv, StepLineInv, PTL DEF Spec
=============================================================================
