------------------------------ MODULE Lifecycle ------------------------------
(***************************************************************************)
(* The life of a gobbler process: main() in gobbler.c, with crack_args,    *)
(* initialise_dpdk, start_ifaces and stop_all (init.c), all_links_up       *)
(* (tools.c) and the threads it launches.  The process is the one that     *)
(* runs after daemonise; its parent has gone.                              *)
(*                                                                         *)
(* A thread is in its loop or has returned; module Gobble is the loop.     *)
(* Ports, links and lcores belong to DPDK and are modelled from the calls  *)
(* made to it: a port that is started cannot be configured again.          *)
(***************************************************************************)
EXTENDS Context, CommandLine

CONSTANTS
    Invocations,    \* command lines, in groups, with what the file they name says
    Systems,        \* what a system may offer: ports with their macs, mbufs
    LINK_ROUNDS     \* the rounds all_links_up makes: 200

ASSUME RoundsAssumption == LINK_ROUNDS \in Nat \ {0}

\* What the json library gives for an array, or for what is none.
IsList(v) ==
    /\ jw_array_len(v) \in Nat \cup {-1}
    /\ jw_array_len(v) > 0 => v.elems = [k \in 1 .. Len(v.elems) |-> v.elems[k]]

\* What the json library gives for the fields; the numbers of descriptors are
\* not checked by the code, and are assumed not to be negative.
ASSUME ConfigsAssumption ==
    \A v \in Invocations :
        /\ IsList(v.json.rx_devs)
        /\ IsList(v.json.tx_devs)
        /\ \A n \in 1 .. Len(TxObjects(v.json)) :
                IsList(TxObjects(v.json)[n].vlanids) /\ IsList(TxObjects(v.json)[n].macs)
        /\ v.json.duprx2tx \in BOOLEAN
        /\ v.json.mbufs \in Int
        /\ v.json.rx_des \in Nat
        /\ v.json.tx_des \in Nat

ASSUME LinesAssumption == \A v \in Invocations : InGroups(v.args)

\* A pointer to an array is not nil.
ASSUME PointersAssumption ==
    \A v \in Invocations :
        /\ jw_array_len(v.json.tx_devs) > 0 =>
                read_config(v.json).vlans # NULL /\ read_config(v.json).macs # NULL
        /\ \A n \in 1 .. Len(TxObjects(v.json)) :
                LET list == TxObjects(v.json)[n].macs
                IN  jw_array_len(list) > 0 => Copied(list.elems) \notin {NULL, UNSET}

ASSUME SystemsAssumption ==
    \A s \in Systems : s.avail \in Nat /\ DOMAIN s.macs = 1 .. Len(s.pciids)

\* No two ports have the same PCI address.
ASSUME PciIdsAssumption ==
    \A s \in Systems :
        /\ Len(s.pciids) \in Nat
        /\ \A p, q \in 1 .. Len(s.pciids) : s.pciids[p] = s.pciids[q] => p = q

VARIABLES
    args,       \* the command line; never changes
    json,       \* what the configuration file says; never changes
    cfg,        \* what read_config makes of it; never changes
    hw,         \* the system; never changes
    scan,       \* crack_args: how far it is, and the options so far
    ctx,        \* the context; NULL until mk_context has built it
    stage,      \* what main is doing
    status,     \* the exit status; -1 until the process ends
    ok2run,     \* the global run flag, cleared by the signal handler
    cur,        \* index of main's for loop that is running
    waited,     \* rounds all_links_up has waited
    flags,      \* per interface, IFFL_RUNNING and IFFL_LINK_UP
    mset,       \* per interface, its mac addresses for packets
    mac,        \* per port, the mac address it has
    thread,     \* per lcore: "idle", "loop" or "finished"
    started,    \* the ports DPDK has started
    link        \* the ports whose link is up

env == <<args, json, cfg, hw>>
macVars == <<mset, mac>>
vars == <<env, scan, ctx, stage, status, ok2run, cur, waited, flags, macVars, thread, started, link>>

\* A mac address of zeros, which an empty string is read as.
Zeros == "00:00:00:00:00:00"

Lcores == EnabledLcores(CpuMask(cfg))
Ports == 1 .. Len(hw.pciids)

-----------------------------------------------------------------------------
(* Interfaces.  One that is duplicated is the same object in both lists.   *)

Rx(i) == <<"rx", i>>
Tx(i) == IF ctx.tx_dup THEN Rx(i) ELSE <<"tx", i>>

RxIfs == [i \in 1 .. ctx.nrxifs |-> Rx(i)]
TxIfs == IF ctx.ntxifs > 0 THEN [i \in 1 .. ctx.ntxifs |-> Tx(i)] ELSE <<>>

\* Faulty variant: only what receives is stopped.
StopList_RxOnly == RxIfs

\* start_ifaces and stop_all visit the rx, then the tx interfaces; what is
\* duplicated is started once, and visited twice when all is stopped.
StartList == IF ctx.tx_dup THEN RxIfs ELSE RxIfs \o TxIfs
StopList == RxIfs \o TxIfs

Ifaces == {StartList[k] : k \in 1 .. Len(StartList)}
Port(f) == IF f[1] = "rx" THEN ctx.rx_ports[f[2]] ELSE ctx.tx_ports[f[2]]

\* The lowest core is the master's, which runs main.
Master == CHOOSE l \in Lcores : \A m \in Lcores : l <= m
Slaves == Lcores \ {Master}

Init ==
    /\ \E v \in Invocations :
        /\ args = v.args
        /\ json = v.json
        /\ cfg = read_config(v.json)
        /\ scan = Scan(Words(v.args))
    /\ hw \in Systems
    /\ ctx = NULL
    /\ stage = "args"
    /\ status = -1
    /\ ok2run = TRUE
    /\ cur = 1
    /\ waited = 0
    /\ flags = [f \in {} |-> {}]
    /\ mset = [f \in {} |-> NULL]
    /\ mac = hw.macs
    /\ thread = [l \in Lcores |-> "idle"]
    /\ started = {}
    /\ link \in SUBSET Ports

Exit(code) == stage' = "exit" /\ status' = code

\* The exit status of a process that a signal ends: 128 and its number.
Killed == 128

-----------------------------------------------------------------------------
(* Setting up.                                                             *)

\* crack_args.  A file that cannot be read, or holds no object (not parsed), gives
\* no configuration.  A process that goes on detaches (daemonise), opens its log
\* and turns to DPDK.
CrackArgs ==
    /\ stage = "args"
    /\ ~scan.done
    /\ scan' = ScanStep(scan)
    /\ UNCHANGED <<env, ctx, stage, status, ok2run, cur, waited, flags, macVars, thread, started,
                   link>>

ArgsDone(parsed) ==
    /\ stage = "args"
    /\ scan.done
    /\ IF scan.exit # -1 THEN Exit(scan.exit)
       ELSE IF parsed THEN stage' = "dpdk" /\ status' = status
       ELSE Exit(1)
    /\ UNCHANGED <<env, scan, ctx, ok2run, cur, waited, flags, macVars, thread, started, link>>

\* main from its check for root to the signal handlers.  The process may not be
\* root, or DPDK refuse its arguments (not ok); -n leaves DPDK alone.
InitialiseDpdk(ok) ==
    /\ stage = "dpdk"
    /\ IF ok /\ cfg.nrx_devs > 0 /\ ArgsFit(cfg)
       THEN stage' = "context" /\ status' = status
       ELSE Exit(1)
    /\ UNCHANGED <<env, scan, ctx, ok2run, cur, waited, flags, macVars, thread, started, link>>

\* What DPDK shows of the system: without initialisation it reports no ports.
Visible ==
    [ pciids |-> IF scan.options.forreal THEN hw.pciids ELSE <<>>,
      avail |-> hw.avail ]

\* No context, or fewer cores than threads: rte_exit.
MkContext ==
    /\ stage = "context"
    /\ LET c == IF MkContextCrashes(cfg, Visible) THEN NULL ELSE mk_context(cfg, Visible)
       IN  /\ ctx' = c
           /\ IF c = NULL
              THEN /\ Exit(IF MkContextCrashes(cfg, Visible) THEN Killed ELSE 1)
                   /\ UNCHANGED <<flags, mset>>
              ELSE /\ flags' = [f \in Ifaces' |-> {}]
                   /\ mset' = [f \in Ifaces' |-> IF c.tx_dup THEN c.mset[f[2]] ELSE NULL]
                   /\ IF Cardinality(Lcores) < c.nthreads
                      THEN Exit(1)
                      ELSE stage' = "start" /\ status' = status
    /\ UNCHANGED <<env, scan, ok2run, cur, waited, mac, thread, started, link>>

\* The default mac for the interface started as the k-th; NULL if there is none.
DefaultMac(k) == IF k <= Len(cfg.default_macs) THEN cfg.default_macs[k] ELSE NULL

\* The zeros in a set of macs give way to the address the device has by now.
\* A set that is not there is UNSET where its pointer was never written: it may
\* be nil all the same.
FillZeros(set, m) ==
    IF set \in {NULL, UNSET} THEN NULL
    ELSE [k \in 1 .. Len(set) |-> IF set[k] = Zeros THEN m ELSE set[k]]

\* start_one_iface: configure, set up the queues and start the port.  Each of
\* the calls may fail (not ok), the first one must if the port is started.
\* Then its default mac is set, which DPDK may refuse (not pushed).
StartIface(ok, pushed) ==
    /\ stage = "start"
    /\ cur <= Len(StartList)
    /\ LET f == StartList[cur]
           p == Port(f)
           m == IF pushed /\ DefaultMac(cur) # NULL THEN DefaultMac(cur) ELSE mac[p]
       IN  IF "RUNNING" \in flags[f]
           THEN cur' = cur + 1 /\ UNCHANGED <<stage, status, flags, macVars, started>>
           ELSE IF ok /\ p \notin started
           THEN /\ started' = started \cup {p}
                /\ flags' = [flags EXCEPT ![f] = @ \cup {"RUNNING"}]
                /\ mac' = [mac EXCEPT ![p] = m]
                /\ mset' = [mset EXCEPT ![f] = FillZeros(@, m)]
                /\ cur' = cur + 1
                /\ UNCHANGED <<stage, status>>
           ELSE Exit(1) /\ UNCHANGED <<flags, macVars, started, cur>>
    /\ UNCHANGED <<env, scan, ctx, ok2run, waited, thread, link>>

\* The set of macs behind a pointer that was never written is looked at.
StartCrashes ==
    /\ stage = "start"
    /\ cur <= Len(StartList)
    /\ mset[StartList[cur]] = UNSET
    /\ Exit(Killed)
    /\ UNCHANGED <<env, scan, ctx, ok2run, cur, waited, flags, macVars, thread, started, link>>

\* All started.  A simulation is run instead of the threads; otherwise
\* all_links_up begins by clearing what is known of every link.
StartDone ==
    /\ stage = "start"
    /\ cur > Len(StartList)
    /\ IF scan.options.sim_id # NoSim
       THEN stage' = "sim" /\ flags' = flags
       ELSE stage' = "links" /\ flags' = [f \in Ifaces |-> flags[f] \ {"LINK_UP"}]
    /\ cur' = 1
    /\ UNCHANGED <<env, scan, ctx, status, ok2run, waited, macVars, thread, started, link>>

RunSim ==
    /\ stage = "sim"
    /\ stage' = "stop"
    /\ UNCHANGED <<env, scan, ctx, status, ok2run, cur, waited, flags, macVars, thread, started, link>>

\* The test in all_links_up for a link that must still be asked about: the
\* flags or'd with the link's flag are zero.
AskLink(f) == flags[f] \cup {"LINK_UP"} = {}

\* One round of all_links_up: ask (query_lstate) about the links not known to
\* be up; go on when all asked are up, or when the rounds are used up.
LinksRound ==
    /\ stage = "links"
    /\ LET asked == {f \in Ifaces : AskLink(f)}
           up == {f \in asked : Port(f) \in link}
       IN  IF ~ok2run
           THEN Exit(1) /\ UNCHANGED <<flags, waited>>
           ELSE /\ flags' = [f \in Ifaces |->
                                IF f \in up THEN flags[f] \cup {"LINK_UP"} ELSE flags[f]]
                /\ waited' = waited + 1
                /\ stage' = IF asked = up \/ waited' = LINK_ROUNDS THEN "launch" ELSE "links"
                /\ status' = status
    /\ UNCHANGED <<env, scan, ctx, ok2run, cur, macVars, thread, started, link>>

-----------------------------------------------------------------------------
(* Running.                                                                *)

\* Faulty variant: the run flag is set when the threads are launched.
Launch_SetsFlag ==
    /\ stage = "launch"
    /\ thread' = [l \in Lcores |-> "loop"]
    /\ ok2run' = TRUE
    /\ stage' = "gobble"
    /\ UNCHANGED <<env, scan, ctx, status, cur, waited, flags, macVars, started, link>>

\* rte_eal_mp_remote_launch starts a loop on each slave, then one here.
Launch ==
    /\ stage = "launch"
    /\ thread' = [l \in Lcores |-> "loop"]
    /\ stage' = "gobble"
    /\ UNCHANGED <<env, scan, ctx, status, ok2run, cur, waited, flags, macVars, started, link>>

\* A thread finds the run flag cleared at the head of its loop and returns.
GobblerReturns(l) ==
    /\ thread[l] = "loop"
    /\ ~ok2run
    /\ thread' = [thread EXCEPT ![l] = "finished"]
    /\ UNCHANGED <<env, scan, ctx, stage, status, ok2run, cur, waited, flags, macVars, started, link>>

\* Faulty variant: main goes on when its own loop has ended.
WaitSlaves_OwnOnly ==
    /\ stage = "gobble"
    /\ thread[Master] = "finished"
    /\ stage' = "stop"
    /\ UNCHANGED <<env, scan, ctx, status, ok2run, cur, waited, flags, macVars, thread, started, link>>

\* The master's own loop has ended; rte_eal_wait_lcore returns for a slave
\* when it has finished (and never with an error: gobble returns 0), so the
\* loop over the slaves ends when all have.
WaitSlaves ==
    /\ stage = "gobble"
    /\ thread[Master] = "finished"
    /\ \A l \in Slaves : thread[l] = "finished"
    /\ stage' = "stop"
    /\ UNCHANGED <<env, scan, ctx, status, ok2run, cur, waited, flags, macVars, thread, started, link>>

\* Faulty variant: the interface stays marked as running.
StopIface_KeepsFlag ==
    /\ stage = "stop"
    /\ cur <= Len(StopList)
    /\ LET f == StopList[cur]
       IN  IF "RUNNING" \in flags[f]
           THEN started' = started \ {Port(f)}
           ELSE UNCHANGED started
    /\ cur' = cur + 1
    /\ UNCHANGED <<env, scan, ctx, stage, status, ok2run, waited, flags, macVars, thread, link>>

\* stop_one_if.
StopIface ==
    /\ stage = "stop"
    /\ cur <= Len(StopList)
    /\ LET f == StopList[cur]
       IN  IF "RUNNING" \in flags[f]
           THEN /\ started' = started \ {Port(f)}
                /\ flags' = [flags EXCEPT ![f] = @ \ {"RUNNING"}]
           ELSE UNCHANGED <<flags, started>>
    /\ cur' = cur + 1
    /\ UNCHANGED <<env, scan, ctx, stage, status, ok2run, waited, macVars, thread, link>>

\* What run_sim returned is what main returns: 1 after a simulation it knows.
RunSimResult == IF scan.options.sim_id = Name("link_stat") THEN 1 ELSE 0

StopDone ==
    /\ stage = "stop"
    /\ cur > Len(StopList)
    /\ Exit(RunSimResult)
    /\ UNCHANGED <<env, scan, ctx, ok2run, cur, waited, flags, macVars, thread, started, link>>

-----------------------------------------------------------------------------
(* The environment: SIGINT or SIGTERM, links coming up and going down.     *)

\* Before the handlers are installed a signal ends the process.
Kill ==
    /\ stage \in {"args", "dpdk"}
    /\ Exit(Killed)
    /\ UNCHANGED <<env, scan, ctx, ok2run, cur, waited, flags, macVars, thread, started, link>>

Signal ==
    /\ stage \notin {"args", "dpdk", "exit"}
    /\ ok2run
    /\ ok2run' = FALSE
    /\ UNCHANGED <<env, scan, ctx, stage, status, cur, waited, flags, macVars, thread, started, link>>

LinkChange(p) ==
    /\ stage # "exit"
    /\ link' = IF p \in link THEN link \ {p} ELSE link \cup {p}
    /\ UNCHANGED <<env, scan, ctx, stage, status, ok2run, cur, waited, flags, macVars, thread, started>>

Terminated == stage = "exit" /\ UNCHANGED vars

Main ==
    \/ CrackArgs
    \/ \E parsed \in BOOLEAN : ArgsDone(parsed)
    \/ \E ok \in BOOLEAN : InitialiseDpdk(ok)
    \/ MkContext
    \/ \E ok, pushed \in BOOLEAN : StartIface(ok, pushed)
    \/ StartCrashes
    \/ StartDone
    \/ RunSim
    \/ LinksRound
    \/ Launch
    \/ WaitSlaves
    \/ StopIface
    \/ StopDone

Next ==
    \/ Main
    \/ \E l \in Lcores : GobblerReturns(l)
    \/ Kill
    \/ Signal
    \/ \E p \in Ports : LinkChange(p)
    \/ Terminated

Spec == Init /\ [][Next]_vars

\* main and every thread have a core of their own.  That a thread in its loop
\* reaches the head of the loop again and again is StopsWhenTold of Gobble.
MaxLcore == 15
FairSpec ==
    /\ Spec
    /\ WF_vars(Main)
    /\ \A l \in 0 .. MaxLcore : WF_vars(l \in Lcores /\ GobblerReturns(l))

-----------------------------------------------------------------------------
(* Properties.                                                             *)

\* What the packet loop relies on (ContextAssumption of Gobble) holds for
\* every context mk_context returns: dropping is all that is done without a tx
\* interface, and a duplicated tx list is as long as the rx list.
ContextSound ==
    ctx # NULL =>
        /\ ctx.nrxifs > 0
        /\ ctx.ntxifs <= 0 => ctx.xmit_type = "DROP"
        /\ ctx.tx_dup => ctx.ntxifs = ctx.nrxifs

\* The pool mk_context made has an mbuf for every descriptor of every
\* interface, whatever the configuration asked for and however often the size
\* had to be reduced.
PoolHoldsDescriptors == ctx # NULL => ctx.pool >= ctx.need

\* Two interface objects have a port in common only if the configuration names
\* one device in both lists, and every interface has a port of the system.
EveryDeviceMapped ==
    ctx # NULL =>
        \A f, g \in Ifaces :
            /\ Port(f) \in Ports
            /\ f # g /\ f[1] = g[1] => Port(f) # Port(g)

\* IFFL_RUNNING tells the truth: a port is stopped only if it is started, also
\* where the same interface is in both lists that stop_all walks.
RunningIsStarted ==
    ctx # NULL => \A f \in Ifaces : "RUNNING" \in flags[f] => Port(f) \in started

\* No port is stopped under a thread that still polls it.
PortsUpWhileGobbling ==
    \A l \in Lcores : thread[l] = "loop" => \A f \in Ifaces : Port(f) \in started

\* A process that ends normally (and not with the result of a simulation) has
\* stopped every port it started, and no thread is left.
CleanExit ==
    status = 0 => started = {} /\ \A l \in Lcores : thread[l] # "loop"

\* A signal ends the process, at whatever stage it arrives.
SignalEndsIt == ~ok2run ~> stage = "exit"

\* The comment at all_links_up: "Returns 1 if they all came up, 0 if there was
\* an error or timeout."  When main goes on to launch the threads, every
\* interface is known to be up.
LinksUpWhenLaunched ==
    stage = "launch" => \A f \in Ifaces : "LINK_UP" \in flags[f]

\* The options the process runs with are those its command line was meant to
\* give, however the letters were clustered: each word goes to its letter.
OptionsAsMeant == stage \notin {"args", "exit"} => scan.options = Meant(args)

\* The element of tx_devs that describes a tx interface: the one with the
\* address of its port, or the one in its place where devices are duplicated.
Describes(dev, t) ==
    IF ctx.tx_dup
    THEN t <= Len(TxObjects(json)) /\ dev = TxObjects(json)[t]
    ELSE dev.address = hw.pciids[Port(Tx(t))]

\* A tx interface inserts the vlan ids and the macs listed for its own device, and
\* no other's; an empty mac has become the one the device has after its default
\* was set.  The first device without a list has none.  Left out is what the code
\* never wrote: the pointer of a later device without a list, which is read all the
\* same (218 and 221 clear one pointer each; gobbler/README.md, 214-216, has the
\* default id used "when there is no array given"), and the place of an element of
\* another kind ("leave 0s if not", 264).
SetsAsConfigured ==
    ctx # NULL =>
        \A t \in 1 .. ctx.ntxifs, n \in 1 .. Len(TxObjects(json)) :
            LET dev == TxObjects(json)[n]
                Listed(list, k) == IF list.elems[k] = Zeros THEN mac[Port(Tx(t))] ELSE list.elems[k]
            IN  Describes(dev, t) =>
                /\ IF jw_array_len(dev.vlanids) > 0
                   THEN \A k \in 1 .. Len(dev.vlanids.elems) :
                            dev.vlanids.elems[k] # NULL => ctx.vset[t][k] = dev.vlanids.elems[k]
                   ELSE t = 1 => ctx.vset[t] = NULL
                /\ ctx.tx_dup =>
                   IF jw_array_len(dev.macs) > 0
                   THEN "RUNNING" \in flags[Tx(t)] =>
                        \A k \in 1 .. Len(dev.macs.elems) :
                            dev.macs.elems[k] # NULL => mset[Tx(t)][k] = Listed(dev.macs, k)
                   ELSE t = 1 => ctx.mset[t] = NULL
=============================================================================
