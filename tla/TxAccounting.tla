---------------------------- MODULE TxAccounting ----------------------------
(***************************************************************************)
(* The counters of the packet loop: the totals of gobble() and the         *)
(* statistics of each interface, written by flush_if, by the transmit      *)
(* cases of gobble() and by the error callback start_one_iface registers.  *)
(* Each action is the action of Gobble with what it does to the counters.  *)
(*                                                                         *)
(* given, lost and freed are not kept by the program: they say what really *)
(* happened to the packets, for the properties to compare with.            *)
(***************************************************************************)
EXTENDS Gobble, Functions

CONSTANT MaxRx      \* bound on the packets received in all

ASSUME MaxRxAssumption == MaxRx \in Nat

VARIABLES
    rcount,     \* packets received in all
    tcount,     \* packets transmitted in all
    drops,      \* "total drops across all interfaces"
    rxed,       \* stats.rxed, per rx interface
    txed,       \* stats.txed, per tx interface
    sdrops,     \* stats.drops, per tx interface: what the callback adds to
    given,      \* per tx interface, packets handed to rte_eth_tx_buffer
    lost,       \* per tx interface, packets DPDK could not send and freed
    freed       \* packets freed because the mode is to drop

stats == <<rxed, txed, sdrops>>
fate == <<given, lost, freed>>
counters == <<rcount, tcount, drops, stats, fate>>
accVars == <<vars, counters>>

RxIf == 0 .. ctx.nrxifs - 1

AccInit ==
    /\ Init
    /\ rcount = 0 /\ tcount = 0 /\ drops = 0 /\ freed = 0
    /\ rxed = [r \in RxIf |-> 0]
    /\ txed = [t \in TxIf |-> 0]
    /\ sdrops = [t \in TxIf |-> 0]
    /\ given = [t \in TxIf |-> 0]
    /\ lost = [t \in TxIf |-> 0]

\* DPDK gets sent packets of a full or flushed buffer of tx interface t on the
\* wire and gives the others to the callback.
Sent(t, sent, unsent) ==
    /\ txed' = [txed EXCEPT ![t] = @ + sent]
    /\ tcount' = tcount + sent
    /\ lost' = [lost EXCEPT ![t] = @ + unsent]

\* Faulty variant: stats.drops is not cleared before the flush.
AccFlush_KeepsDrops(sent) ==
    /\ FlushStep
    /\ sent <= buflen[cur]
    /\ LET unsent == buflen[cur] - sent
       IN  /\ Sent(cur, sent, unsent)
           /\ sdrops' = [sdrops EXCEPT ![cur] = @ + unsent]
           /\ drops' = drops + sdrops[cur] + unsent
    /\ UNCHANGED <<rcount, rxed, given, freed>>

\* flush_if: stats.drops is cleared, "just to get the number dropped this call".
AccFlush(sent) ==
    /\ FlushStep
    /\ sent <= buflen[cur]
    /\ LET unsent == buflen[cur] - sent
       IN  /\ Sent(cur, sent, unsent)
           /\ sdrops' = [sdrops EXCEPT ![cur] = unsent]
           /\ drops' = drops + unsent
    /\ UNCHANGED <<rcount, rxed, given, freed>>

AccPoll(n) ==
    /\ RxPoll(n)
    /\ rcount + n <= MaxRx
    /\ rcount' = rcount + n
    /\ rxed' = [rxed EXCEPT ![cur] = @ + n]
    /\ UNCHANGED <<tcount, drops, txed, sdrops, fate>>

\* rte_eth_tx_buffer returns 0: nothing was sent.
AccBuffer ==
    /\ TxBuffer
    /\ given' = [given EXCEPT ![tcif] = @ + 1]
    /\ UNCHANGED <<rcount, tcount, drops, stats, lost, freed>>

\* Faulty variant: no callback is registered, what was not sent leaks.
AccBufferFull_NoCallback(sent) ==
    /\ TxBufferFull
    /\ sent <= TxBufSize
    /\ txed' = [txed EXCEPT ![tcif] = @ + sent]
    /\ tcount' = tcount + sent
    /\ given' = [given EXCEPT ![tcif] = @ + 1]
    /\ UNCHANGED <<rcount, drops, rxed, sdrops, lost, freed>>

\* Faulty variant: a forced flush is counted as one packet sent.
AccBufferFull_CountsOne(sent) ==
    /\ TxBufferFull
    /\ sent <= TxBufSize
    /\ txed' = [txed EXCEPT ![tcif] = @ + 1]
    /\ tcount' = tcount + sent
    /\ lost' = [lost EXCEPT ![tcif] = @ + TxBufSize - sent]
    /\ sdrops' = [sdrops EXCEPT ![tcif] = @ + TxBufSize - sent]
    /\ given' = [given EXCEPT ![tcif] = @ + 1]
    /\ UNCHANGED <<rcount, drops, rxed, freed>>

\* It "could have forced a flush and sent more than 1": the callback adds what
\* was not sent to stats.drops, the loop never looks there.
AccBufferFull(sent) ==
    /\ TxBufferFull
    /\ sent <= TxBufSize
    /\ Sent(tcif, sent, TxBufSize - sent)
    /\ sdrops' = [sdrops EXCEPT ![tcif] = @ + TxBufSize - sent]
    /\ given' = [given EXCEPT ![tcif] = @ + 1]
    /\ UNCHANGED <<rcount, drops, rxed, freed>>

AccFree ==
    /\ FreeBurst
    /\ freed' = freed + left
    /\ UNCHANGED <<rcount, tcount, drops, stats, given, lost>>

\* Steps of the loop, and the signal, that touch no counter.
AccOther ==
    /\ \/ \E d \in Ticks : LoopTop(d)
       \/ \E n \in Burst : Trash(n)
       \/ LoopExit \/ SkipFlush \/ FlushDone \/ BurstDone \/ PollDone
       \/ TrashDone \/ PrintStats \/ SkipStats \/ Signal
       \/ Terminated
    /\ UNCHANGED counters

AccNext ==
    \/ \E n \in 0 .. TxBufSize : AccFlush(n) \/ AccBufferFull(n)
    \/ \E n \in Burst : AccPoll(n)
    \/ AccBuffer
    \/ AccFree
    \/ AccOther

AccSpec == AccInit /\ [][AccNext]_accVars

-----------------------------------------------------------------------------
(* Properties.                                                             *)

\* The type invariant of the counters.
AccTypeOK ==
    /\ TypeOK
    /\ {rcount, tcount, drops, freed} \subseteq Nat
    /\ rxed \in [RxIf -> Nat]
    /\ {txed, sdrops, given, lost} \subseteq [TxIf -> Nat]

\* Each tx interface's own statistics explain every packet handed to it: sent,
\* lost, or still in its buffer, through forced and regular flushes alike.
InterfaceBalance ==
    \A t \in TxIf : given[t] = buflen[t] + txed[t] + lost[t]

\* The totals printed on the stats line are those of the interfaces.
TotalsAgree ==
    /\ rcount = SumFunction(rxed)
    /\ tcount = SumFunction(txed)

\* The drop total never claims a drop that did not happen, in spite of a
\* callback counter that is cleared, added to and read in different places.
DropsSound == drops <= SumFunction(lost)

Ledger_ == INSTANCE Ledger WITH
    MaxMove <- TxBufSize,
    taken <- rcount,
    held <- left + SumFunction(buflen),
    sent <- tcount,
    lost <- freed + SumFunction(lost)

\* The thread implements the ledger: no packet is transmitted or freed twice,
\* none before it was received, and the totals account for every one of them.
ImplementsLedger == Ledger_!Spec

\* gobbler.c, at the declaration: drops is the "total drops across all
\* interfaces".  Checked where the loop has just flushed everything.
DropsComplete ==
    pc = "poll" /\ (\A t \in TxIf : bwrites[t] = 0) => drops = SumFunction(lost)
=============================================================================
