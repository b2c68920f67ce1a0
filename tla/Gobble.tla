------------------------------- MODULE Gobble -------------------------------
(***************************************************************************)
(* The packet loop of one gobbler thread: gobble() in gobbler.c, with the  *)
(* DPDK transmit buffer it writes to (rte_eth_tx_buffer, an external       *)
(* library) modelled from how the loop and start_one_iface use it.         *)
(*                                                                         *)
(* Packets are counted, not named.  What each step does to the running     *)
(* totals is added by TxAccounting, which extends this module; this module *)
(* keeps only state whose range is finite, so that liveness can be checked *)
(* without a bound on the number of packets received.                      *)
(*                                                                         *)
(* Interfaces are numbered from 0, as the arrays rx_ifs and tx_ifs are.    *)
(***************************************************************************)
EXTENDS Integers

CONSTANTS
    Contexts,       \* the contexts a thread may be given (mk_context's results)
    MAX_PKT_BURST,  \* packets one rx_burst may return, and the flush threshold
    DrainDelay,     \* drain_delay, in clock ticks
    StatsDelay      \* stats_delay, in clock ticks

XmitTypes == {"RETURN_TO_SENDER", "SEND_DOWNSTREAM", "SEND_DOWNSTREAM_VLAN", "DROP"}

\* What the loop relies on in its context; module Context derives it from
\* mk_context.  A configuration without tx_devs gives -1 tx interfaces, and
\* without a tx interface there is nothing but dropping.
ASSUME ContextAssumption ==
    \A c \in Contexts :
        /\ c.nrxifs \in Nat \ {0}
        /\ c.ntxifs \in Int
        /\ c.xmit_type \in XmitTypes
        /\ c.tx_dup \in BOOLEAN
        /\ c.tx_dup => c.ntxifs = c.nrxifs
        /\ c.ntxifs <= 0 => c.xmit_type = "DROP"

ASSUME DelayAssumption ==
    /\ MAX_PKT_BURST \in Nat \ {0}
    /\ DrainDelay \in Nat
    /\ StatsDelay \in Nat \ {0}

\* The capacity start_one_iface gives every transmit buffer.
TxBufSize == 2 * MAX_PKT_BURST

Burst == 0 .. MAX_PKT_BURST

VARIABLES
    ctx,        \* the context; never changes
    ok2run,     \* the global run flag, cleared by the signal handler
    pc,         \* which part of the loop body runs next
    cur,        \* i or j: the index of the for loop that is running
    tx_idx,     \* round robin index of the next tx interface
    tcif,       \* the tx interface in hand; -1 is the nil pointer
    npkts,      \* result of the latest rx_burst
    left,       \* packets of the burst the switch has not handled yet
    bwrites,    \* per tx interface, the loop's own count of buffered writes
    buflen,     \* per tx interface, the length DPDK keeps in the tx buffer
    age,        \* this_clock - last_clock, never above DrainDelay + 1
    stats_wait  \* stats_clock - this_clock, never below -1

tx == <<tx_idx, tcif>>
bufs == <<bwrites, buflen>>
clocks == <<age, stats_wait>>
vars == <<ctx, ok2run, pc, cur, tx, npkts, left, bufs, clocks>>

TxIf == 0 .. ctx.ntxifs - 1

Min2(a, b) == IF a < b THEN a ELSE b
Max2(a, b) == IF a > b THEN a ELSE b

\* stats_clock starts at 0, long before any clock reading: stats are due.
Init ==
    /\ ctx \in Contexts
    /\ ok2run = TRUE
    /\ pc = "top"
    /\ cur = 0
    /\ tx_idx = 0
    /\ tcif = -1
    /\ npkts = 0
    /\ left = 0
    /\ bwrites = [t \in TxIf |-> 0]
    /\ buflen = [t \in TxIf |-> 0]
    /\ age = 0
    /\ stats_wait = -1

-----------------------------------------------------------------------------
(* The head of the while loop.                                             *)

\* Faulty variant: the run flag is not tested.
LoopTop_NoTest(d) ==
    /\ pc = "top"
    /\ age' = Min2(age + d, DrainDelay + 1)
    /\ stats_wait' = Max2(stats_wait - d, -1)
    /\ pc' = "flush"
    /\ cur' = 0
    /\ UNCHANGED <<ctx, ok2run, tx, npkts, left, bufs>>

\* while( ok2run ): this_clock = rte_rdtsc(), and the clock has moved on by d.
LoopTop(d) ==
    /\ pc = "top"
    /\ ok2run
    /\ age' = Min2(age + d, DrainDelay + 1)
    /\ stats_wait' = Max2(stats_wait - d, -1)
    /\ pc' = "flush"
    /\ cur' = 0
    /\ UNCHANGED <<ctx, ok2run, tx, npkts, left, bufs>>

\* The loop ends; what is still in the tx buffers stays there.
LoopExit ==
    /\ pc = "top"
    /\ ~ok2run
    /\ pc' = "done"
    /\ UNCHANGED <<ctx, ok2run, cur, tx, npkts, left, bufs, clocks>>

-----------------------------------------------------------------------------
(* The flush pass over the tx interfaces.                                  *)

\* Faulty variants: only one of the two reasons to flush.
NeedsFlush_DrainOnly(t) == bwrites[t] > 0 /\ age > DrainDelay
NeedsFlush_FullOnly(t) == bwrites[t] > MAX_PKT_BURST

\* Too full to take another burst, or something waits and the drain is due.
NeedsFlush(t) ==
    \/ bwrites[t] > MAX_PKT_BURST
    \/ bwrites[t] > 0 /\ age > DrainDelay

\* Faulty variant: the count of writes is not reset.
FlushIf_NoReset(t) ==
    /\ buflen' = [buflen EXCEPT ![t] = 0]
    /\ bwrites' = bwrites

\* flush_if: DPDK sends what it can and frees the rest; the buffer is empty.
FlushIf(t) ==
    /\ buflen' = [buflen EXCEPT ![t] = 0]
    /\ bwrites' = [bwrites EXCEPT ![t] = 0]

\* A flush also restarts the drain clock, the one clock all interfaces share.
FlushStep ==
    /\ pc = "flush"
    /\ cur < ctx.ntxifs
    /\ NeedsFlush(cur)
    /\ FlushIf(cur)
    /\ age' = 0
    /\ tcif' = cur
    /\ cur' = cur + 1
    /\ UNCHANGED <<ctx, ok2run, pc, tx_idx, npkts, left, stats_wait>>

\* Faulty variant: the drain clock restarts whether or not there was a flush.
SkipFlush_Restarts ==
    /\ pc = "flush"
    /\ cur < ctx.ntxifs
    /\ ~NeedsFlush(cur)
    /\ age' = 0
    /\ tcif' = cur
    /\ cur' = cur + 1
    /\ UNCHANGED <<ctx, ok2run, pc, tx_idx, npkts, left, bufs, stats_wait>>

SkipFlush ==
    /\ pc = "flush"
    /\ cur < ctx.ntxifs
    /\ ~NeedsFlush(cur)
    /\ tcif' = cur
    /\ cur' = cur + 1
    /\ UNCHANGED <<ctx, ok2run, pc, tx_idx, npkts, left, bufs, clocks>>

FlushDone ==
    /\ pc = "flush"
    /\ cur >= ctx.ntxifs
    /\ pc' = "poll"
    /\ cur' = 0
    /\ UNCHANGED <<ctx, ok2run, tx, npkts, left, bufs, clocks>>

-----------------------------------------------------------------------------
(* The receive pass: poll each rx interface, transmit or free its burst.   *)

\* Faulty variant: the index wraps one too late.
PickTx_Late ==
    IF ctx.ntxifs > 0
    THEN /\ tcif' = tx_idx
         /\ tx_idx' = IF tx_idx + 1 > ctx.ntxifs THEN 0 ELSE tx_idx + 1
    ELSE UNCHANGED tx

\* The round robin index moves on for every poll, also one that finds nothing.
PickTx ==
    IF ctx.ntxifs > 0
    THEN /\ tcif' = tx_idx
         /\ tx_idx' = IF tx_idx + 1 >= ctx.ntxifs THEN 0 ELSE tx_idx + 1
    ELSE UNCHANGED tx

RxPoll(n) ==
    /\ pc = "poll"
    /\ cur < ctx.nrxifs
    /\ PickTx
    /\ npkts' = n
    /\ left' = n
    /\ IF n > 0
       THEN pc' = "xmit" /\ cur' = cur
       ELSE pc' = "poll" /\ cur' = cur + 1
    /\ UNCHANGED <<ctx, ok2run, bufs, clocks>>

\* Faulty variant: a write is counted only when something was sent.
TxBuffer_SentOnly ==
    /\ pc = "xmit"
    /\ ctx.xmit_type # "DROP"
    /\ left > 0
    /\ buflen[tcif] + 1 < TxBufSize
    /\ buflen' = [buflen EXCEPT ![tcif] = @ + 1]
    /\ left' = left - 1
    /\ UNCHANGED <<ctx, ok2run, pc, cur, tx, npkts, bwrites, clocks>>

\* rte_eth_tx_buffer of the next packet of the burst, there is room: no write.
TxBuffer ==
    /\ pc = "xmit"
    /\ ctx.xmit_type # "DROP"
    /\ left > 0
    /\ buflen[tcif] + 1 < TxBufSize
    /\ buflen' = [buflen EXCEPT ![tcif] = @ + 1]
    /\ bwrites' = [bwrites EXCEPT ![tcif] = @ + 1]
    /\ left' = left - 1
    /\ UNCHANGED <<ctx, ok2run, pc, cur, tx, npkts, clocks>>

\* The packet fills the buffer: DPDK flushes it, unknown to the loop, which
\* counts one more write than the buffer holds from here on.
TxBufferFull ==
    /\ pc = "xmit"
    /\ ctx.xmit_type # "DROP"
    /\ left > 0
    /\ buflen[tcif] + 1 >= TxBufSize
    /\ buflen' = [buflen EXCEPT ![tcif] = 0]
    /\ bwrites' = [bwrites EXCEPT ![tcif] = @ + 1]
    /\ left' = left - 1
    /\ UNCHANGED <<ctx, ok2run, pc, cur, tx, npkts, clocks>>

\* The default case of the switch: free the whole burst.
FreeBurst ==
    /\ pc = "xmit"
    /\ ctx.xmit_type = "DROP"
    /\ left > 0
    /\ left' = 0
    /\ UNCHANGED <<ctx, ok2run, pc, cur, tx, npkts, bufs, clocks>>

BurstDone ==
    /\ pc = "xmit"
    /\ left = 0
    /\ pc' = "poll"
    /\ cur' = cur + 1
    /\ UNCHANGED <<ctx, ok2run, tx, npkts, left, bufs, clocks>>

PollDone ==
    /\ pc = "poll"
    /\ cur = ctx.nrxifs
    /\ pc' = "trash"
    /\ cur' = 0
    /\ UNCHANGED <<ctx, ok2run, tx, npkts, left, bufs, clocks>>

-----------------------------------------------------------------------------
(* The rest of the body: what arrived on tx interfaces, and the stats line. *)

\* Unless they are the rx interfaces, the tx interfaces are read and emptied.
\* The number read replaces npkts.
Trash(n) ==
    /\ pc = "trash"
    /\ ~ctx.tx_dup
    /\ cur < ctx.ntxifs
    /\ npkts' = n
    /\ tcif' = cur
    /\ cur' = cur + 1
    /\ UNCHANGED <<ctx, ok2run, pc, tx_idx, left, bufs, clocks>>

TrashDone ==
    /\ pc = "trash"
    /\ ctx.tx_dup \/ cur >= ctx.ntxifs
    /\ pc' = "stats"
    /\ UNCHANGED <<ctx, ok2run, cur, tx, npkts, left, bufs, clocks>>

\* Faulty variant: the stats line is printed by the busy loop only.
StatsDue_WhenBusy == npkts # 0 /\ stats_wait < 0

StatsDue == npkts = 0 /\ stats_wait < 0

PrintStats ==
    /\ pc = "stats"
    /\ StatsDue
    /\ stats_wait' = StatsDelay
    /\ pc' = "top"
    /\ UNCHANGED <<ctx, ok2run, cur, tx, npkts, left, bufs, age>>

SkipStats ==
    /\ pc = "stats"
    /\ ~StatsDue
    /\ pc' = "top"
    /\ UNCHANGED <<ctx, ok2run, cur, tx, npkts, left, bufs, clocks>>

-----------------------------------------------------------------------------
\* SIGINT or SIGTERM, at any point of the loop.
Signal ==
    /\ ok2run
    /\ ok2run' = FALSE
    /\ UNCHANGED <<ctx, pc, cur, tx, npkts, left, bufs, clocks>>

\* The thread has returned.
Terminated ==
    /\ pc = "done"
    /\ UNCHANGED vars

\* Every reading of the time stamp counter is later than the one before it; a
\* step longer than both delays does no more than one that is just longer.
Ticks == 1 .. Max2(DrainDelay, StatsDelay) + 1

\* The steps of the thread.
Thread ==
    \/ \E d \in Ticks : LoopTop(d)
    \/ LoopExit
    \/ FlushStep
    \/ SkipFlush
    \/ FlushDone
    \/ \E n \in Burst : RxPoll(n)
    \/ TxBuffer
    \/ TxBufferFull
    \/ FreeBurst
    \/ BurstDone
    \/ PollDone
    \/ \E n \in Burst : Trash(n)
    \/ TrashDone
    \/ PrintStats
    \/ SkipStats

Next == Thread \/ Signal \/ Terminated

Spec == Init /\ [][Next]_vars

\* A lcore is given to the thread alone and runs it: its steps keep coming.
\* Nothing makes a signal arrive, or a packet.
FairSpec == Spec /\ WF_vars(Thread)

-----------------------------------------------------------------------------
(* Properties.                                                             *)

Steps == {"top", "flush", "poll", "xmit", "trash", "stats", "done"}

\* The type invariant: the loop indices stay in the arrays they index, the
\* buffer stays below its capacity, and a burst is transmitted only with a tx
\* interface in hand.
TypeOK ==
    /\ ctx \in Contexts
    /\ ok2run \in BOOLEAN
    /\ pc \in Steps
    /\ cur \in Nat
    /\ pc \in {"flush", "trash"} /\ cur > 0 => cur <= ctx.ntxifs
    /\ pc = "poll" => cur <= ctx.nrxifs
    /\ pc = "xmit" => cur < ctx.nrxifs
    /\ tx_idx \in Nat
    /\ ctx.ntxifs > 0 => tx_idx < ctx.ntxifs
    /\ tcif \in TxIf \cup {-1}
    /\ pc = "xmit" /\ ctx.ntxifs > 0 => tcif \in TxIf
    /\ npkts \in Burst
    /\ left \in 0 .. npkts
    /\ pc # "xmit" => left = 0
    /\ bwrites \in [TxIf -> Nat]
    /\ buflen \in [TxIf -> 0 .. TxBufSize - 1]
    /\ age \in 0 .. DrainDelay + 1
    /\ stats_wait \in -1 .. StatsDelay

\* Nothing is stranded: the loop's own count of writes never falls below what
\* the tx buffer holds, so a buffer with packets in it is always seen as one
\* to flush.  The count goes wrong whenever DPDK flushes on its own ("bwrites
\* isn't accurate"); it may only go wrong upwards.
WritesCoverBuffer == \A t \in TxIf : buflen[t] <= bwrites[t]

\* What the flush pass is for (the comment above its test): when it is over,
\* no tx buffer holds more than one burst, so one full read always fits.
RoomForFullRead ==
    pc = "poll" /\ cur = 0 =>
        \A t \in TxIf : buflen[t] + MAX_PKT_BURST <= TxBufSize

\* After a flush pass either the shared drain clock is recent, or no
\* interface has a packet waiting: a pass that finds the drain overdue never
\* leaves all waiting packets where they are.
NothingOverdue ==
    pc = "poll" /\ cur = 0 /\ age > DrainDelay => \A t \in TxIf : buflen[t] = 0

\* The loop's count of writes does not grow without bound although DPDK's own
\* flushes never reset it: an interface takes at most its share of the polls
\* of one pass before the flush pass sees it.
PollsPerPass == (ctx.nrxifs + ctx.ntxifs - 1) \div ctx.ntxifs
WritesBounded ==
    \A t \in TxIf : bwrites[t] <= MAX_PKT_BURST * (1 + PollsPerPass)

\* Once told to stop, the thread leaves the loop, whatever traffic arrives.
StopsWhenTold == ~ok2run ~> pc = "done"

Waiting(t) == t \in TxIf /\ buflen[t] > 0

\* The comment at the flush test: "ensure periodic flush when slow".  A packet
\* put into the first or the second tx buffer leaves it, unless the thread is
\* stopped.
PeriodicFlush ==
    \A t \in 0 .. 1 : Waiting(t) ~> ~Waiting(t) \/ pc = "done"

\* The same where it does hold: a single tx interface has the drain clock to
\* itself and is flushed however slow or steady the traffic is.
OneTxDrains ==
    Waiting(0) /\ ctx.ntxifs = 1 ~> ~Waiting(0) \/ pc = "done"

\* What holds with any number of tx interfaces: once no more packets are
\* received, every tx buffer is emptied.
DrainsWhenQuiet ==
    <>[](pc # "xmit") => []<>((\A t \in TxIf : ~Waiting(t)) \/ pc = "done")

\* Where the last device polled in each pass is idle, the counts are printed
\* again and again, however busy the others are.
StatsWhenIdle ==
    <>[](pc = "stats" => npkts = 0) => []<><<PrintStats>>_vars \/ <>(pc = "done")
=============================================================================
