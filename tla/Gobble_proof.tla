---------------------------- MODULE Gobble_proof ----------------------------
(***************************************************************************)
(* Proofs about the packet loop, for every context, burst size and delay:  *)
(* its type invariant, that no packet is stranded in a tx buffer, what a   *)
(* flush pass guarantees to the receive pass that follows it; and about    *)
(* its counters: what they say of the packets, and that the loop with them *)
(* implements the ledger.                                                  *)
(***************************************************************************)
EXTENDS TxAccounting, DataLemmas

\* What the context assumption says of the context a thread runs with.
LEMMA CtxFacts ==
    ASSUME ctx \in Contexts
    PROVE  /\ ctx.nrxifs \in Nat \ {0}
           /\ ctx.ntxifs \in Int
           /\ ctx.xmit_type # "DROP" => ctx.ntxifs > 0
BY ContextAssumption

LEMMA UpdateTyped ==
    ASSUME NEW I, NEW S, NEW f \in [I -> S], NEW t, NEW v \in S
    PROVE  [f EXCEPT ![t] = v] \in [I -> S]
  OBVIOUS

\* A packet that finds room leaves the buffer within its size.
LEMMA BufferTyped ==
    ASSUME TypeOK, TxBuffer
    PROVE  buflen' \in [TxIf -> 0 .. TxBufSize - 1]
<1>1. buflen \in [TxIf -> 0 .. TxBufSize - 1]
  BY DEF TypeOK
<1>2. /\ buflen' = [buflen EXCEPT ![tcif] = buflen[tcif] + 1]
      /\ buflen[tcif] + 1 < TxBufSize
  BY DEF TxBuffer
<1>3. tcif \in TxIf => buflen[tcif] + 1 \in 0 .. TxBufSize - 1
  BY <1>1, <1>2, DelayAssumption DEF TxBufSize
<1>4. CASE tcif \in TxIf
  BY <1>1, <1>2, <1>3, <1>4, UpdateTyped
<1>5. CASE tcif \notin TxIf
  BY <1>1, <1>2, <1>5
<1> QED
  BY <1>4, <1>5

LEMMA InitTypeOK == Init => TypeOK
<1> SUFFICES ASSUME Init PROVE TypeOK
  OBVIOUS
<1>1. ctx \in Contexts
  BY DEF Init
<1> QED
  BY <1>1, CtxFacts, DelayAssumption DEF Init, TypeOK, Steps, TxIf, Burst, TxBufSize

\* The type invariant is inductive as it stands.
LEMMA StepTypeOK == TypeOK /\ [Next]_vars => TypeOK'
<1> SUFFICES ASSUME TypeOK, [Next]_vars PROVE TypeOK'
  OBVIOUS
<1>c. /\ ctx \in Contexts
      /\ ctx.nrxifs \in Nat \ {0}
      /\ ctx.ntxifs \in Int
      /\ ctx.xmit_type # "DROP" => ctx.ntxifs > 0
  BY CtxFacts DEF TypeOK
<1> USE <1>c, DelayAssumption DEF TypeOK, Steps, TxIf, Burst, TxBufSize
<1>1. ASSUME NEW d \in Ticks, LoopTop(d) PROVE TypeOK'
  BY <1>1 DEF LoopTop, Ticks, Min2, Max2, tx, bufs
<1>2. CASE LoopExit
  BY <1>2 DEF LoopExit, tx, bufs, clocks
<1>3. CASE FlushStep
  BY <1>3 DEF FlushStep, FlushIf
<1>4. CASE SkipFlush
  BY <1>4 DEF SkipFlush, bufs, clocks
<1>5. CASE FlushDone
  BY <1>5 DEF FlushDone, tx, bufs, clocks
<1>6. ASSUME NEW n \in Burst, RxPoll(n) PROVE TypeOK'
  <2>1. /\ tx_idx' \in Nat /\ (ctx.ntxifs > 0 => tx_idx' < ctx.ntxifs /\ tcif' \in TxIf)
        /\ tcif' \in TxIf \cup {-1}
    BY <1>6 DEF RxPoll, PickTx, tx
  <2> QED
    BY <1>6, <2>1 DEF RxPoll, bufs, clocks
<1>7. CASE TxBuffer
  <2>1. tcif \in 0 .. ctx.ntxifs - 1
    BY <1>7 DEF TxBuffer
  <2>2. bwrites' \in [TxIf -> Nat]
    BY <1>7, <2>1 DEF TxBuffer
  <2>3. buflen' \in [TxIf -> 0 .. TxBufSize - 1]
    BY <1>7, BufferTyped
  <2> QED
    BY <1>7, <2>1, <2>2, <2>3 DEF TxBuffer, tx, clocks
<1>8. CASE TxBufferFull
  <2>1. tcif \in 0 .. ctx.ntxifs - 1
    BY <1>8 DEF TxBufferFull
  <2>2. bwrites' \in [TxIf -> Nat]
    BY <1>8, <2>1 DEF TxBufferFull
  <2>3. buflen' \in [TxIf -> 0 .. TxBufSize - 1]
    BY <1>8, <2>1 DEF TxBufferFull
  <2> QED
    BY <1>8, <2>1, <2>2, <2>3 DEF TxBufferFull, tx, clocks
<1>9. CASE FreeBurst
  BY <1>9 DEF FreeBurst, tx, bufs, clocks
<1>10. CASE BurstDone
  BY <1>10 DEF BurstDone, tx, bufs, clocks
<1>11. CASE PollDone
  BY <1>11 DEF PollDone, tx, bufs, clocks
<1>12. ASSUME NEW n \in Burst, Trash(n) PROVE TypeOK'
  BY <1>12 DEF Trash, bufs, clocks
<1>13. CASE TrashDone
  BY <1>13 DEF TrashDone, tx, bufs, clocks
<1>14. CASE PrintStats
  BY <1>14 DEF PrintStats, tx, bufs
<1>15. CASE SkipStats
  BY <1>15 DEF SkipStats, tx, bufs, clocks
<1>16. CASE Signal
  BY <1>16 DEF Signal, tx, bufs, clocks
<1>17. CASE UNCHANGED vars
  BY <1>17 DEF vars, tx, bufs, clocks
<1> QED
  BY <1>1, <1>2, <1>3, <1>4, <1>5, <1>6, <1>7, <1>8, <1>9, <1>10, <1>11, <1>12,
     <1>13, <1>14, <1>15, <1>16, <1>17 DEF Next, Thread, Terminated

\* The type invariant of the loop holds of every thread mk_context's contexts
\* are given to: no index of gobble() leaves its array.
THEOREM TypeCorrect == Spec => []TypeOK
BY InitTypeOK, StepTypeOK, PTL DEF Spec

-----------------------------------------------------------------------------
(* Nothing is stranded.                                                    *)

\* Every step that lengthens a tx buffer counts a write on the same interface,
\* and only a flush, which empties the buffer, resets the count.
LEMMA StepWritesCover == TypeOK /\ WritesCoverBuffer /\ [Next]_vars => WritesCoverBuffer'
<1> SUFFICES ASSUME TypeOK, WritesCoverBuffer, [Next]_vars PROVE WritesCoverBuffer'
  OBVIOUS
<1>c. /\ bwrites \in [TxIf -> Nat]
      /\ buflen \in [TxIf -> Nat]
      /\ ctx.ntxifs \in Int
  BY CtxFacts, DelayAssumption DEF TypeOK, TxBufSize
<1>u. ASSUME UNCHANGED <<ctx, bufs>> PROVE WritesCoverBuffer'
  BY <1>u DEF WritesCoverBuffer, bufs, TxIf
<1>1. CASE FlushStep
  BY <1>1, <1>c DEF FlushStep, FlushIf, WritesCoverBuffer, TxIf
<1>2. CASE TxBuffer
  BY <1>2, <1>c DEF TxBuffer, WritesCoverBuffer, TxIf
<1>3. CASE TxBufferFull
  BY <1>3, <1>c DEF TxBufferFull, WritesCoverBuffer, TxIf
<1>4. ASSUME NEW d \in Ticks, LoopTop(d) PROVE WritesCoverBuffer'
  BY <1>4, <1>u DEF LoopTop
<1>5. ASSUME NEW n \in Burst, RxPoll(n) \/ Trash(n) PROVE WritesCoverBuffer'
  BY <1>5, <1>u DEF RxPoll, Trash
<1>6. CASE LoopExit \/ SkipFlush \/ FlushDone \/ FreeBurst \/ BurstDone
  BY <1>6, <1>u DEF LoopExit, SkipFlush, FlushDone, FreeBurst, BurstDone
<1>7. CASE PollDone \/ TrashDone \/ PrintStats \/ SkipStats \/ Signal
  BY <1>7, <1>u DEF PollDone, TrashDone, PrintStats, SkipStats, Signal
<1>8. CASE UNCHANGED vars
  BY <1>8, <1>u DEF vars
<1> QED
  BY <1>1, <1>2, <1>3, <1>4, <1>5, <1>6, <1>7, <1>8 DEF Next, Thread, Terminated

\* No interface ever holds a packet that the loop's count of writes does not
\* cover: the test of the flush pass sees every packet that waits.
THEOREM NothingStranded == Spec => []WritesCoverBuffer
<1>1. Init => WritesCoverBuffer
  BY DEF Init, WritesCoverBuffer
<1> QED
  BY <1>1, InitTypeOK, StepTypeOK, StepWritesCover, PTL DEF Spec

-----------------------------------------------------------------------------
(* What the flush pass guarantees.                                         *)

\* An interface the flush pass has dealt with has room for a burst, and waits
\* for nothing if the drain is still overdue.
Dealt(t) ==
    /\ bwrites[t] <= MAX_PKT_BURST
    /\ age > DrainDelay => bwrites[t] = 0

\* The strengthening of the two flush properties: it also says how far the
\* pass has come.  A flush makes "overdue" false for everyone, which is what
\* keeps the claim about the interfaces already passed.
FlushProgress ==
    /\ pc = "flush" => \A t \in TxIf : t < cur => Dealt(t)
    /\ pc = "poll" /\ cur = 0 => \A t \in TxIf : Dealt(t)

LEMMA StepFlushProgress == TypeOK /\ FlushProgress /\ [Next]_vars => FlushProgress'
<1> SUFFICES ASSUME TypeOK, FlushProgress, [Next]_vars PROVE FlushProgress'
  OBVIOUS
<1>c. /\ bwrites \in [TxIf -> Nat]
      /\ ctx.nrxifs \in Nat \ {0}
      /\ ctx.ntxifs \in Int
      /\ cur \in Nat
      /\ age \in 0 .. DrainDelay + 1
      /\ MAX_PKT_BURST \in Nat \ {0}
      /\ DrainDelay \in Nat
      /\ pc = "xmit" => cur < ctx.nrxifs
  BY CtxFacts, DelayAssumption DEF TypeOK
<1> USE DEF FlushProgress, Dealt, TxIf
<1>1. ASSUME NEW d \in Ticks, LoopTop(d) PROVE FlushProgress'
  BY <1>1, <1>c DEF LoopTop
<1>2. CASE FlushStep
  BY <1>2, <1>c DEF FlushStep, FlushIf
<1>3. CASE SkipFlush
  BY <1>3, <1>c DEF SkipFlush, NeedsFlush, bufs, clocks
<1>4. CASE FlushDone
  BY <1>4, <1>c DEF FlushDone, bufs, clocks
<1>5. ASSUME NEW n \in Burst, RxPoll(n) PROVE FlushProgress'
  BY <1>5, <1>c DEF RxPoll
<1>6. CASE TxBuffer \/ TxBufferFull \/ FreeBurst
  BY <1>6 DEF TxBuffer, TxBufferFull, FreeBurst
<1>7. CASE BurstDone
  BY <1>7, <1>c DEF BurstDone
<1>8. ASSUME NEW n \in Burst, Trash(n) PROVE FlushProgress'
  BY <1>8 DEF Trash
<1>9. CASE LoopExit \/ PollDone \/ TrashDone \/ PrintStats \/ SkipStats
  BY <1>9 DEF LoopExit, PollDone, TrashDone, PrintStats, SkipStats
<1>10. CASE Signal
  BY <1>10 DEF Signal, bufs, clocks
<1>11. CASE UNCHANGED vars
  BY <1>11 DEF vars, bufs, clocks
<1> QED
  BY <1>1, <1>2, <1>3, <1>4, <1>5, <1>6, <1>7, <1>8, <1>9, <1>10, <1>11
     DEF Next, Thread, Terminated

LEMMA FlushInvariant == Spec => [](TypeOK /\ WritesCoverBuffer /\ FlushProgress)
<1>1. Init => WritesCoverBuffer /\ FlushProgress
  BY DEF Init, WritesCoverBuffer, FlushProgress
<1> QED
  BY <1>1, InitTypeOK, StepTypeOK, StepWritesCover, StepFlushProgress, PTL DEF Spec

\* After a flush pass every tx buffer has room for one full read.
THEOREM FlushMakesRoom == Spec => []RoomForFullRead
<1>1. TypeOK /\ WritesCoverBuffer /\ FlushProgress => RoomForFullRead
  <2> SUFFICES ASSUME TypeOK, WritesCoverBuffer, FlushProgress, pc = "poll", cur = 0,
                      NEW t \in TxIf
               PROVE  buflen[t] + MAX_PKT_BURST <= TxBufSize
    BY DEF RoomForFullRead
  <2>1. buflen[t] \in Nat /\ bwrites[t] \in Nat
    BY DelayAssumption DEF TypeOK, TxBufSize
  <2>2. buflen[t] <= bwrites[t] /\ bwrites[t] <= MAX_PKT_BURST
    BY DEF WritesCoverBuffer, FlushProgress, Dealt
  <2> QED
    BY <2>1, <2>2, DelayAssumption DEF TxBufSize
<1> QED
  BY <1>1, FlushInvariant, PTL

\* A flush pass that finds the drain overdue leaves no packet waiting unless
\* it restarted the shared drain clock.
THEOREM NoneLeftOverdue == Spec => []NothingOverdue
<1>1. TypeOK /\ WritesCoverBuffer /\ FlushProgress => NothingOverdue
  <2> SUFFICES ASSUME TypeOK, WritesCoverBuffer, FlushProgress, pc = "poll", cur = 0,
                      age > DrainDelay, NEW t \in TxIf
               PROVE  buflen[t] = 0
    BY DEF NothingOverdue
  <2>1. buflen[t] \in Nat
    BY DelayAssumption DEF TypeOK, TxBufSize
  <2>2. buflen[t] <= bwrites[t] /\ bwrites[t] = 0
    BY DEF WritesCoverBuffer, FlushProgress, Dealt
  <2> QED
    BY <2>1, <2>2
<1> QED
  BY <1>1, FlushInvariant, PTL

-----------------------------------------------------------------------------
(* The count of writes.                                                    *)

LEMMA DivideUp ==
    ASSUME NEW a \in Nat, NEW n \in Nat \ {0}, NEW p \in Nat, p * n <= a
    PROVE  p <= a \div n
<1>1. a \div n \in Nat /\ a < n * (a \div n) + n
  OBVIOUS
<1>2. SUFFICES ASSUME NEW q \in Nat, a < n * q + n, ~ (p <= q) PROVE FALSE
  BY <1>1
<1>3. PICK d \in Nat : p = q + 1 + d
  <2>1. p - q - 1 \in Nat /\ p = q + 1 + (p - q - 1)
    BY <1>2
  <2> QED
    BY <2>1
<1>4. p * n = n * q + n + d * n /\ d * n \in Nat
  BY <1>2, <1>3
<1> QED
  BY <1>2, <1>4

\* The polls until an interface is next in turn, the polls made in this pass,
\* and the writes still to come from the burst in hand.
Ahead(t) == IF t >= tx_idx THEN t - tx_idx ELSE t - tx_idx + ctx.ntxifs

Polls == IF pc = "xmit" THEN cur + 1 ELSE cur

Coming(t) == IF pc = "xmit" /\ ctx.xmit_type # "DROP" /\ t = tcif THEN left ELSE 0

\* An interface had p turns among so many polls, and its writes are no more than those
\* left by the flush pass and a burst for each turn.
Turns(t, polls, writes) ==
    \E p \in Nat : p * ctx.ntxifs <= polls /\ writes <= MAX_PKT_BURST * (1 + p)

\* In the receive pass the turns of an interface are told by where the round
\* robin stands; in the rest of the loop they are those of the whole pass.
TurnsTaken ==
    \A t \in TxIf :
        IF pc \in {"poll", "xmit"}
        THEN Turns(t, Polls + Ahead(t), bwrites[t] + Coming(t))
        ELSE Turns(t, ctx.nrxifs + ctx.ntxifs - 1, bwrites[t])

LEMMA StepTurnsTaken ==
    TypeOK /\ FlushProgress' /\ TurnsTaken /\ [Next]_vars => TurnsTaken'
<1> SUFFICES ASSUME TypeOK, FlushProgress', TurnsTaken, [Next]_vars PROVE TurnsTaken'
  OBVIOUS
<1>c. /\ bwrites \in [TxIf -> Nat]
      /\ ctx.nrxifs \in Nat \ {0}
      /\ ctx.ntxifs \in Int
      /\ cur \in Nat /\ tx_idx \in Nat /\ left \in Nat
      /\ ctx.ntxifs > 0 => tx_idx < ctx.ntxifs
      /\ pc = "poll" => cur <= ctx.nrxifs
      /\ MAX_PKT_BURST \in Nat \ {0}
      /\ \A t \in TxIf : t \in Nat /\ t < ctx.ntxifs
  BY CtxFacts, DelayAssumption DEF TypeOK, TxIf, Burst
\* Outside the receive pass the count can only be reset.
<1>o. ASSUME pc \notin {"poll", "xmit"}, pc' \notin {"poll", "xmit"}, ctx' = ctx,
             \A t \in TxIf : bwrites'[t] \in {0, bwrites[t]}
      PROVE  TurnsTaken'
  <2>1. ASSUME NEW t \in TxIf PROVE Turns(t, ctx.nrxifs + ctx.ntxifs - 1, bwrites[t])'
    <3>1. PICK p \in Nat : /\ p * ctx.ntxifs <= ctx.nrxifs + ctx.ntxifs - 1
                           /\ bwrites[t] <= MAX_PKT_BURST * (1 + p)
      BY <1>o DEF TurnsTaken, Turns
    <3>2. bwrites'[t] <= MAX_PKT_BURST * (1 + p)
      <4>1. MAX_PKT_BURST * (1 + p) \in Nat
        BY <1>c
      <4> QED
        BY <1>o, <1>c, <3>1, <4>1
    <3> QED
      BY <1>o, <3>1, <3>2 DEF Turns
  <2> QED
    BY <1>o, <2>1 DEF TurnsTaken, TxIf
<1>1. ASSUME NEW d \in Ticks, LoopTop(d) PROVE TurnsTaken'
  BY <1>1, <1>o DEF LoopTop, bufs
<1>2. CASE LoopExit \/ SkipFlush \/ TrashDone \/ PrintStats \/ SkipStats
  BY <1>2, <1>o DEF LoopExit, SkipFlush, TrashDone, PrintStats, SkipStats, bufs
<1>3. ASSUME NEW n \in Burst, Trash(n) PROVE TurnsTaken'
  BY <1>3, <1>o DEF Trash, bufs
<1>4. CASE FlushStep
  BY <1>4, <1>o, <1>c DEF FlushStep, FlushIf, TxIf
\* After the flush pass no interface has had a turn.
<1>5. CASE FlushDone
  <2> SUFFICES ASSUME NEW t \in TxIf PROVE Turns(t, Polls + Ahead(t), bwrites[t] + Coming(t))'
    BY <1>5 DEF FlushDone, TurnsTaken, TxIf
  <2>1. bwrites'[t] <= MAX_PKT_BURST
    BY <1>5 DEF FlushDone, FlushProgress, Dealt, TxIf
  <2>2. Coming(t)' = 0 /\ Polls' = 0 /\ Ahead(t)' \in Nat /\ ctx' = ctx /\ bwrites' = bwrites
    BY <1>5, <1>c DEF FlushDone, Coming, Polls, Ahead, tx, bufs
  <2>3. 0 * ctx.ntxifs <= (Polls + Ahead(t))' /\ (bwrites[t] + Coming(t))' <= MAX_PKT_BURST * (1 + 0)
    BY <1>c, <2>1, <2>2
  <2> QED
    BY <2>2, <2>3 DEF Turns
<1>6. ASSUME NEW n \in Burst, RxPoll(n) PROVE TurnsTaken'
  <2> SUFFICES ASSUME NEW t \in TxIf PROVE Turns(t, Polls + Ahead(t), bwrites[t] + Coming(t))'
    BY <1>6 DEF RxPoll, TurnsTaken, TxIf
  <2>1. /\ pc = "poll" /\ ctx' = ctx /\ bwrites' = bwrites /\ tcif' = tx_idx
        /\ tx_idx' = IF tx_idx + 1 >= ctx.ntxifs THEN 0 ELSE tx_idx + 1
        /\ left' = n /\ n \in Nat /\ n <= MAX_PKT_BURST
        /\ Polls' = cur + 1 /\ Polls = cur /\ Coming(t) = 0
    BY <1>6, <1>c DEF RxPoll, PickTx, bufs, Polls, Burst, Coming
  <2>2. PICK p \in Nat : /\ p * ctx.ntxifs <= cur + Ahead(t)
                         /\ bwrites[t] <= MAX_PKT_BURST * (1 + p)
    BY <1>c, <2>1 DEF TurnsTaken, Turns
  <2>3. CASE t = tx_idx
    <3>1. Ahead(t) = 0 /\ Ahead(t)' = ctx.ntxifs - 1
      BY <1>c, <2>1, <2>3 DEF Ahead
    <3>2. Coming(t)' <= MAX_PKT_BURST /\ Coming(t)' \in Nat
      BY <1>c, <2>1 DEF Coming
    <3>3. (p + 1) * ctx.ntxifs = p * ctx.ntxifs + ctx.ntxifs
          /\ MAX_PKT_BURST * (1 + (p + 1)) = MAX_PKT_BURST * (1 + p) + MAX_PKT_BURST
          /\ p * ctx.ntxifs \in Int /\ MAX_PKT_BURST * (1 + p) \in Int
      BY <1>c
    <3>4. (p + 1) * ctx.ntxifs <= (Polls + Ahead(t))'
      BY <1>c, <2>1, <2>2, <3>1, <3>3
    <3>5. (bwrites[t] + Coming(t))' <= MAX_PKT_BURST * (1 + (p + 1))
      BY <1>c, <2>1, <2>2, <3>2, <3>3
    <3> QED
      BY <2>1, <3>4, <3>5 DEF Turns
  <2>4. CASE t # tx_idx
    <3>1. Ahead(t)' = Ahead(t) - 1 /\ Ahead(t) \in Int /\ Coming(t)' = 0
      BY <1>c, <2>1, <2>4 DEF Ahead, Coming
    <3>2. p * ctx.ntxifs <= (Polls + Ahead(t))' /\ (bwrites[t] + Coming(t))' <= MAX_PKT_BURST * (1 + p)
      BY <1>c, <2>1, <2>2, <3>1
    <3> QED
      BY <2>1, <3>2 DEF Turns
  <2> QED
    BY <2>3, <2>4
\* Transmitting turns what is to come into writes.
<1>7. CASE TxBuffer \/ TxBufferFull \/ FreeBurst \/ BurstDone
  <2> SUFFICES ASSUME NEW t \in TxIf PROVE Turns(t, Polls + Ahead(t), bwrites[t] + Coming(t))'
    BY <1>7 DEF TxBuffer, TxBufferFull, FreeBurst, BurstDone, TurnsTaken, TxIf
  <2>1. pc = "xmit" /\ ctx' = ctx /\ tx' = tx
    BY <1>7 DEF TxBuffer, TxBufferFull, FreeBurst, BurstDone
  <2>2. Polls' = Polls /\ Ahead(t)' = Ahead(t)
    BY <1>7, <2>1 DEF TxBuffer, TxBufferFull, FreeBurst, BurstDone, Polls, Ahead, tx
  <2>3. bwrites'[t] + Coming(t)' = bwrites[t] + Coming(t)
    BY <1>7, <1>c, <2>1 DEF TxBuffer, TxBufferFull, FreeBurst, BurstDone, Coming, tx, bufs
  <2>4. Turns(t, Polls + Ahead(t), bwrites[t] + Coming(t))
    BY <2>1 DEF TurnsTaken
  <2> QED
    BY <2>1, <2>2, <2>3, <2>4 DEF Turns
<1>8. CASE PollDone
  <2> SUFFICES ASSUME NEW t \in TxIf PROVE Turns(t, ctx.nrxifs + ctx.ntxifs - 1, bwrites[t])'
    BY <1>8 DEF PollDone, TurnsTaken, TxIf
  <2>1. PICK p \in Nat : /\ p * ctx.ntxifs <= ctx.nrxifs + Ahead(t)
                         /\ bwrites[t] <= MAX_PKT_BURST * (1 + p)
    BY <1>8, <1>c DEF PollDone, TurnsTaken, Turns, Polls, Coming
  <2>2. Ahead(t) \in Int /\ Ahead(t) <= ctx.ntxifs - 1 /\ p * ctx.ntxifs \in Int
    BY <1>c DEF Ahead
  <2>3. p * ctx.ntxifs <= ctx.nrxifs + ctx.ntxifs - 1
    BY <1>c, <2>1, <2>2
  <2> QED
    BY <1>8, <2>1, <2>3 DEF PollDone, Turns, bufs
<1>9. CASE Signal \/ UNCHANGED vars
  BY <1>9 DEF Signal, vars, tx, bufs, clocks, TurnsTaken, Turns, Polls, Ahead, Coming, TxIf
<1> QED
  BY <1>1, <1>2, <1>3, <1>4, <1>5, <1>6, <1>7, <1>8, <1>9 DEF Next, Thread, Terminated

\* The count of writes, which DPDK's own flushes never reset, stays below a
\* bound that the numbers of interfaces and the burst size give.
THEOREM WritesStayBounded == Spec => []WritesBounded
<1>1. Init => TurnsTaken
  <2> SUFFICES ASSUME Init, NEW t \in TxIf
               PROVE  Turns(t, ctx.nrxifs + ctx.ntxifs - 1, bwrites[t])
    BY DEF Init, TurnsTaken
  <2>1. ctx.nrxifs \in Nat \ {0} /\ ctx.ntxifs \in Nat \ {0} /\ bwrites[t] = 0
    BY CtxFacts DEF Init, TxIf
  <2>2. 0 * ctx.ntxifs <= ctx.nrxifs + ctx.ntxifs - 1 /\ bwrites[t] <= MAX_PKT_BURST * (1 + 0)
    BY <2>1, DelayAssumption
  <2> QED
    BY <2>2 DEF Turns
<1>2. TypeOK /\ TurnsTaken => WritesBounded
  <2> SUFFICES ASSUME TypeOK, TurnsTaken, NEW t \in TxIf
               PROVE  bwrites[t] <= MAX_PKT_BURST * (1 + PollsPerPass)
    BY DEF WritesBounded
  <2>0. /\ ctx.nrxifs \in Nat \ {0} /\ ctx.ntxifs \in Nat \ {0} /\ t \in 0 .. ctx.ntxifs - 1
        /\ bwrites[t] \in Nat /\ cur \in Nat /\ tx_idx \in Nat /\ tx_idx < ctx.ntxifs
        /\ (pc = "poll" => cur <= ctx.nrxifs) /\ (pc = "xmit" => cur < ctx.nrxifs)
        /\ left \in Nat /\ MAX_PKT_BURST \in Nat \ {0}
    BY CtxFacts, DelayAssumption DEF TypeOK, TxIf, Burst
  <2>1. PICK p \in Nat : /\ p * ctx.ntxifs <= ctx.nrxifs + ctx.ntxifs - 1
                         /\ bwrites[t] <= MAX_PKT_BURST * (1 + p)
    <3>1. CASE pc \in {"poll", "xmit"}
      <4>1. PICK p \in Nat : /\ p * ctx.ntxifs <= Polls + Ahead(t)
                             /\ bwrites[t] + Coming(t) <= MAX_PKT_BURST * (1 + p)
        BY <3>1 DEF TurnsTaken, Turns
      <4>2. /\ Polls + Ahead(t) \in Int /\ Polls + Ahead(t) <= ctx.nrxifs + ctx.ntxifs - 1
            /\ Coming(t) \in Nat
        BY <2>0, <3>1 DEF Polls, Ahead, Coming
      <4>3. p * ctx.ntxifs \in Int /\ MAX_PKT_BURST * (1 + p) \in Int
        BY <2>0
      <4>4. p * ctx.ntxifs <= ctx.nrxifs + ctx.ntxifs - 1 /\ bwrites[t] <= MAX_PKT_BURST * (1 + p)
        BY <2>0, <4>1, <4>2, <4>3
      <4> QED
        BY <4>4
    <3>2. CASE pc \notin {"poll", "xmit"}
      BY <3>2 DEF TurnsTaken, Turns
    <3> QED
      BY <3>1, <3>2
  <2>2. p <= PollsPerPass /\ PollsPerPass \in Nat
    <3>1. ctx.nrxifs + ctx.ntxifs - 1 \in Nat
      BY <2>0
    <3> QED
      BY <2>0, <2>1, <3>1, DivideUp DEF PollsPerPass
  <2>3. MAX_PKT_BURST * (1 + p) <= MAX_PKT_BURST * (1 + PollsPerPass)
    <3> HIDE DEF PollsPerPass
    <3>1. PICK d \in Nat : PollsPerPass = p + d
      <4>1. PollsPerPass - p \in Nat /\ PollsPerPass = p + (PollsPerPass - p)
        BY <2>2
      <4> QED
        BY <4>1
    <3>2. MAX_PKT_BURST * (1 + (p + d)) = MAX_PKT_BURST * (1 + p) + MAX_PKT_BURST * d
          /\ MAX_PKT_BURST * d \in Nat /\ MAX_PKT_BURST * (1 + p) \in Nat
      BY <2>0
    <3> QED
      BY <3>1, <3>2
  <2>4. MAX_PKT_BURST * (1 + p) \in Int /\ MAX_PKT_BURST * (1 + PollsPerPass) \in Int
    BY <2>0, <2>2
  <2> QED
    BY <2>0, <2>1, <2>3, <2>4
<1>3. TypeOK /\ FlushProgress' /\ TurnsTaken /\ [Next]_vars => TurnsTaken'
  BY StepTurnsTaken
<1> QED
  BY <1>1, <1>2, <1>3, FlushInvariant, PTL DEF Spec

-----------------------------------------------------------------------------
(* The counters.                                                           *)

\* A step of the counters is a step of the loop: whatever the loop guarantees
\* holds here too.
LEMMA AccRefinesLoop ==
    /\ AccInit => Init
    /\ [AccNext]_accVars => [Next]_vars
<1>1. AccInit => Init
  BY DEF AccInit
<1>2. ASSUME AccNext PROVE Next
  <2>1. ASSUME NEW n \in 0 .. TxBufSize, AccFlush(n) \/ AccBufferFull(n) PROVE Next
    BY <2>1 DEF AccFlush, AccBufferFull, Next, Thread
  <2>2. ASSUME NEW n \in Burst, AccPoll(n) PROVE Next
    BY <2>2 DEF AccPoll, Next, Thread
  <2>3. CASE AccBuffer \/ AccFree
    BY <2>3 DEF AccBuffer, AccFree, Next, Thread
  <2>4. CASE AccOther
    BY <2>4 DEF AccOther, Next, Thread
  <2> QED
    BY <1>2, <2>1, <2>2, <2>3, <2>4 DEF AccNext
<1>3. UNCHANGED accVars => UNCHANGED vars
  BY DEF accVars
<1> QED
  BY <1>1, <1>2, <1>3

\* The counters by name, and what the type invariants say that the steps need.
CounterTypes ==
    /\ ctx.ntxifs \in Int /\ ctx.nrxifs \in Nat
    /\ MAX_PKT_BURST \in Nat \ {0} /\ TxBufSize \in Nat
    /\ left \in Nat /\ left <= MAX_PKT_BURST /\ (pc # "xmit" => left = 0)
    /\ buflen \in [TxIf -> Nat]
    /\ rcount \in Nat /\ tcount \in Nat /\ drops \in Nat /\ freed \in Nat
    /\ rxed \in [RxIf -> Nat]
    /\ txed \in [TxIf -> Nat] /\ sdrops \in [TxIf -> Nat]
    /\ given \in [TxIf -> Nat] /\ lost \in [TxIf -> Nat]

LEMMA CounterFacts == TypeOK /\ AccTypeOK => CounterTypes
  BY CtxFacts, DelayAssumption DEF TypeOK, AccTypeOK, CounterTypes, TxBufSize, Burst

\* What each action does to the buffers and the counters.
LEMMA FlushEffect ==
    ASSUME TypeOK, NEW n \in 0 .. TxBufSize, AccFlush(n)
    PROVE  /\ cur \in TxIf /\ n \in Nat /\ n <= TxBufSize
           /\ buflen[cur] \in Nat /\ buflen[cur] - n \in Nat /\ buflen[cur] < TxBufSize
           /\ buflen' = [buflen EXCEPT ![cur] = 0]
           /\ txed' = [txed EXCEPT ![cur] = @ + n]
           /\ lost' = [lost EXCEPT ![cur] = @ + (buflen[cur] - n)]
           /\ sdrops' = [sdrops EXCEPT ![cur] = buflen[cur] - n]
           /\ tcount' = tcount + n
           /\ drops' = drops + (buflen[cur] - n)
           /\ UNCHANGED <<ctx, left, rcount, rxed, given, freed>>
<1>c. buflen \in [TxIf -> 0 .. TxBufSize - 1] /\ TxBufSize \in Nat /\ cur \in Nat /\ ctx.ntxifs \in Int
  BY CtxFacts, DelayAssumption DEF TypeOK, TxBufSize
<1>1. cur \in TxIf
  BY <1>c DEF AccFlush, FlushStep, TxIf
<1>2. n <= buflen[cur] /\ buflen[cur] \in 0 .. TxBufSize - 1
  BY <1>c, <1>1 DEF AccFlush
<1>3. n \in Nat /\ n <= TxBufSize /\ buflen[cur] \in Nat /\ buflen[cur] - n \in Nat /\ buflen[cur] < TxBufSize
  BY <1>c, <1>2
<1>4. /\ buflen' = [buflen EXCEPT ![cur] = 0]
      /\ txed' = [txed EXCEPT ![cur] = @ + n]
      /\ lost' = [lost EXCEPT ![cur] = @ + (buflen[cur] - n)]
      /\ sdrops' = [sdrops EXCEPT ![cur] = buflen[cur] - n]
      /\ tcount' = tcount + n
      /\ drops' = drops + (buflen[cur] - n)
      /\ UNCHANGED <<ctx, left, rcount, rxed, given, freed>>
  BY DEF AccFlush, FlushStep, FlushIf, Sent
<1> QED
  BY <1>1, <1>3, <1>4

LEMMA BufferFullEffect ==
    ASSUME TypeOK, NEW n \in 0 .. TxBufSize, AccBufferFull(n)
    PROVE  /\ tcif \in TxIf /\ n \in Nat /\ TxBufSize - n \in Nat
           /\ buflen[tcif] \in Nat /\ buflen[tcif] + 1 = TxBufSize
           /\ left' = left - 1 /\ left > 0
           /\ buflen' = [buflen EXCEPT ![tcif] = 0]
           /\ txed' = [txed EXCEPT ![tcif] = @ + n]
           /\ lost' = [lost EXCEPT ![tcif] = @ + (TxBufSize - n)]
           /\ sdrops' = [sdrops EXCEPT ![tcif] = @ + TxBufSize - n]
           /\ given' = [given EXCEPT ![tcif] = @ + 1]
           /\ tcount' = tcount + n
           /\ UNCHANGED <<ctx, rcount, drops, rxed, freed>>
<1>c. /\ buflen \in [TxIf -> 0 .. TxBufSize - 1] /\ TxBufSize \in Nat
      /\ pc = "xmit" /\ ctx.ntxifs > 0 => tcif \in TxIf
      /\ ctx.xmit_type # "DROP" => ctx.ntxifs > 0
  BY CtxFacts, DelayAssumption DEF TypeOK, TxBufSize
<1>1. tcif \in TxIf
  BY <1>c DEF AccBufferFull, TxBufferFull
<1>2. buflen[tcif] \in 0 .. TxBufSize - 1 /\ buflen[tcif] + 1 >= TxBufSize
  BY <1>c, <1>1 DEF AccBufferFull, TxBufferFull
<1>3. n \in Nat /\ TxBufSize - n \in Nat /\ buflen[tcif] \in Nat /\ buflen[tcif] + 1 = TxBufSize
  BY <1>c, <1>2
<1>4. /\ left' = left - 1 /\ left > 0
      /\ buflen' = [buflen EXCEPT ![tcif] = 0]
      /\ txed' = [txed EXCEPT ![tcif] = @ + n]
      /\ lost' = [lost EXCEPT ![tcif] = @ + (TxBufSize - n)]
      /\ sdrops' = [sdrops EXCEPT ![tcif] = @ + TxBufSize - n]
      /\ given' = [given EXCEPT ![tcif] = @ + 1]
      /\ tcount' = tcount + n
      /\ UNCHANGED <<ctx, rcount, drops, rxed, freed>>
  BY DEF AccBufferFull, TxBufferFull, Sent
<1> QED
  BY <1>1, <1>3, <1>4

LEMMA PollEffect ==
    ASSUME TypeOK, NEW n \in Burst, AccPoll(n)
    PROVE  /\ cur \in RxIf /\ n \in Nat /\ n <= MAX_PKT_BURST
           /\ left = 0 /\ left' = n
           /\ rcount' = rcount + n
           /\ rxed' = [rxed EXCEPT ![cur] = @ + n]
           /\ UNCHANGED <<ctx, buflen, tcount, drops, txed, sdrops, given, lost, freed>>
<1>1. cur \in RxIf /\ n \in Nat /\ n <= MAX_PKT_BURST
  BY CtxFacts, DelayAssumption DEF AccPoll, RxPoll, RxIf, TypeOK, Burst
<1>2. /\ left = 0 /\ left' = n
      /\ rcount' = rcount + n
      /\ rxed' = [rxed EXCEPT ![cur] = @ + n]
      /\ UNCHANGED <<ctx, buflen, tcount, drops, txed, sdrops, given, lost, freed>>
  BY DEF AccPoll, RxPoll, bufs, fate, TypeOK
<1> QED
  BY <1>1, <1>2

LEMMA BufferEffect ==
    ASSUME TypeOK, AccBuffer
    PROVE  /\ tcif \in TxIf
           /\ left' = left - 1 /\ left > 0
           /\ buflen' = [buflen EXCEPT ![tcif] = @ + 1]
           /\ given' = [given EXCEPT ![tcif] = @ + 1]
           /\ UNCHANGED <<ctx, rcount, tcount, drops, rxed, txed, sdrops, lost, freed>>
<1>1. tcif \in TxIf
  BY CtxFacts DEF AccBuffer, TxBuffer, TypeOK
<1> QED
  BY <1>1 DEF AccBuffer, TxBuffer, stats

LEMMA FreeEffect ==
    ASSUME AccFree
    PROVE  /\ left' = 0
           /\ freed' = freed + left
           /\ UNCHANGED <<ctx, buflen, rcount, tcount, drops, rxed, txed, sdrops, given, lost>>
  BY DEF AccFree, FreeBurst, bufs, stats

LEMMA OtherEffect ==
    ASSUME AccOther \/ UNCHANGED accVars
    PROVE  UNCHANGED <<ctx, left, buflen, rcount, tcount, drops, rxed, txed, sdrops, given, lost, freed>>
  BY DEF AccOther, bufs, LoopTop, Trash, LoopExit, SkipFlush, FlushDone, BurstDone, PollDone,
         TrashDone, PrintStats, SkipStats, Signal, Terminated, vars, accVars, counters, stats, fate

LEMMA StepCounters ==
    TypeOK /\ TypeOK' /\ AccTypeOK /\ InterfaceBalance /\ [AccNext]_accVars
        => AccTypeOK' /\ InterfaceBalance'
<1> SUFFICES ASSUME TypeOK, TypeOK', AccTypeOK, InterfaceBalance, [AccNext]_accVars
             PROVE  AccTypeOK' /\ InterfaceBalance'
  OBVIOUS
<1>t. CounterTypes
  BY CounterFacts
<1>b. \A t \in TxIf : given[t] = buflen[t] + txed[t] + lost[t]
  BY DEF InterfaceBalance
<1> USE DEF CounterTypes
<1>s. ASSUME UNCHANGED ctx,
             rcount' \in Nat, tcount' \in Nat, drops' \in Nat, freed' \in Nat,
             rxed' \in [RxIf -> Nat],
             txed' \in [TxIf -> Nat], sdrops' \in [TxIf -> Nat],
             given' \in [TxIf -> Nat], lost' \in [TxIf -> Nat],
             \A t \in TxIf : given'[t] = buflen'[t] + txed'[t] + lost'[t]
      PROVE  AccTypeOK' /\ InterfaceBalance'
  BY <1>s DEF AccTypeOK, InterfaceBalance, TxIf, RxIf
<1>1. ASSUME NEW n \in 0 .. TxBufSize, AccFlush(n) PROVE AccTypeOK' /\ InterfaceBalance'
  <2>1. /\ cur \in TxIf /\ n \in Nat /\ buflen[cur] \in Nat /\ buflen[cur] - n \in Nat
        /\ buflen' = [buflen EXCEPT ![cur] = 0]
        /\ txed' = [txed EXCEPT ![cur] = @ + n]
        /\ lost' = [lost EXCEPT ![cur] = @ + (buflen[cur] - n)]
        /\ sdrops' = [sdrops EXCEPT ![cur] = buflen[cur] - n]
        /\ tcount' = tcount + n
        /\ drops' = drops + (buflen[cur] - n)
        /\ UNCHANGED <<ctx, rcount, rxed, given, freed>>
    BY <1>1, FlushEffect
  <2>2. \A t \in TxIf : given'[t] = buflen'[t] + txed'[t] + lost'[t]
    BY <1>t, <1>b, <2>1
  <2>3. txed' \in [TxIf -> Nat] /\ sdrops' \in [TxIf -> Nat] /\ lost' \in [TxIf -> Nat]
    BY <1>t, <2>1
  <2> QED
    BY <1>t, <1>s, <2>1, <2>2, <2>3
<1>2. ASSUME NEW n \in 0 .. TxBufSize, AccBufferFull(n) PROVE AccTypeOK' /\ InterfaceBalance'
  <2>1. /\ tcif \in TxIf /\ n \in Nat /\ TxBufSize - n \in Nat
        /\ buflen[tcif] \in Nat /\ buflen[tcif] + 1 = TxBufSize
        /\ buflen' = [buflen EXCEPT ![tcif] = 0]
        /\ txed' = [txed EXCEPT ![tcif] = @ + n]
        /\ lost' = [lost EXCEPT ![tcif] = @ + (TxBufSize - n)]
        /\ sdrops' = [sdrops EXCEPT ![tcif] = @ + TxBufSize - n]
        /\ given' = [given EXCEPT ![tcif] = @ + 1]
        /\ tcount' = tcount + n
        /\ UNCHANGED <<ctx, rcount, drops, rxed, freed>>
    BY <1>2, BufferFullEffect
  <2>2. ASSUME NEW t \in TxIf PROVE given'[t] = buflen'[t] + txed'[t] + lost'[t]
    <3>1. /\ given[t] \in Nat /\ buflen[t] \in Nat /\ txed[t] \in Nat /\ lost[t] \in Nat
          /\ given[t] = buflen[t] + txed[t] + lost[t]
      BY <1>t, <1>b
    <3>2. CASE t = tcif
      <4>1. /\ given'[t] = given[t] + 1 /\ buflen'[t] = 0 /\ txed'[t] = txed[t] + n
            /\ lost'[t] = lost[t] + (TxBufSize - n)
        BY <1>t, <2>1, <3>2
      <4>2. TxBufSize \in Nat
        BY <1>t
      <4> QED
        BY <2>1, <3>1, <3>2, <4>1, <4>2
    <3>3. CASE t # tcif
      BY <1>t, <2>1, <3>1, <3>3
    <3> QED
      BY <3>2, <3>3
  <2>3. txed' \in [TxIf -> Nat] /\ lost' \in [TxIf -> Nat] /\ given' \in [TxIf -> Nat]
    BY <1>t, <2>1
  <2>4. sdrops[tcif] + TxBufSize - n \in Nat
    BY <1>t, <2>1
  <2>5. sdrops' \in [TxIf -> Nat]
    BY <1>t, <2>1, <2>4
  <2> QED
    BY <1>t, <1>s, <2>1, <2>2, <2>3, <2>5
<1>3. ASSUME NEW n \in Burst, AccPoll(n) PROVE AccTypeOK' /\ InterfaceBalance'
  <2>1. /\ cur \in RxIf /\ n \in Nat
        /\ rcount' = rcount + n
        /\ rxed' = [rxed EXCEPT ![cur] = @ + n]
        /\ UNCHANGED <<ctx, buflen, tcount, drops, txed, sdrops, given, lost, freed>>
    BY <1>3, PollEffect
  <2>2. rcount' \in Nat /\ rxed' \in [RxIf -> Nat]
    BY <1>t, <2>1
  <2> QED
    BY <1>t, <1>b, <1>s, <2>1, <2>2
<1>4. CASE AccBuffer
  <2>1. /\ tcif \in TxIf
        /\ buflen' = [buflen EXCEPT ![tcif] = @ + 1]
        /\ given' = [given EXCEPT ![tcif] = @ + 1]
        /\ UNCHANGED <<ctx, rcount, tcount, drops, rxed, txed, sdrops, lost, freed>>
    BY <1>4, BufferEffect
  <2>2. \A t \in TxIf : given'[t] = buflen'[t] + txed'[t] + lost'[t]
    BY <1>t, <1>b, <2>1
  <2>3. given' \in [TxIf -> Nat]
    BY <1>t, <2>1
  <2> QED
    BY <1>t, <1>s, <2>1, <2>2, <2>3
<1>5. CASE AccFree
  <2>1. freed' = freed + left
        /\ UNCHANGED <<ctx, buflen, rcount, tcount, drops, rxed, txed, sdrops, given, lost>>
    BY <1>5, FreeEffect
  <2> QED
    BY <1>t, <1>b, <1>s, <2>1
<1>6. CASE AccOther \/ UNCHANGED accVars
  BY <1>6, <1>t, <1>b, <1>s, OtherEffect
<1> QED
  BY <1>1, <1>2, <1>3, <1>4, <1>5, <1>6 DEF AccNext

LEMMA CounterInvariant == AccSpec => [](TypeOK /\ AccTypeOK /\ InterfaceBalance)
<1>1. AccInit => TypeOK /\ AccTypeOK /\ InterfaceBalance
  BY InitTypeOK DEF AccInit, Init, AccTypeOK, InterfaceBalance
<1>2. TypeOK /\ [AccNext]_accVars => TypeOK'
  BY StepTypeOK, AccRefinesLoop
<1> QED
  BY <1>1, <1>2, StepCounters, PTL DEF AccSpec

\* The counters keep their types: in particular no count of drops or of
\* packets sent goes below zero.
THEOREM CountersTyped == AccSpec => []AccTypeOK
BY CounterInvariant, PTL

\* At every moment the statistics of a tx interface account for every packet
\* handed to it, also across the flushes DPDK makes on its own.
THEOREM EveryInterfaceBalances == AccSpec => []InterfaceBalance
BY CounterInvariant, PTL

-----------------------------------------------------------------------------
(* The totals, and the ledger.                                             *)

LEMMA FirstFinite == \A n \in Int : IsFiniteSet(0 .. n - 1)
<1> TAKE n \in Int
<1>1. 0 \in Int /\ n - 1 \in Int
  OBVIOUS
<1> QED
  BY <1>1, FS_Interval

LEMMA IfacesFinite == CounterTypes => IsFiniteSet(TxIf) /\ IsFiniteSet(RxIf)
<1> HAVE CounterTypes
<1>1. ctx.ntxifs \in Int /\ ctx.nrxifs \in Int
  BY DEF CounterTypes
<1> QED
  BY <1>1, FirstFinite DEF TxIf, RxIf

LEMMA SumsTyped ==
    CounterTypes => /\ SumFunction(buflen) \in Nat /\ SumFunction(lost) \in Nat
                    /\ SumFunction(txed) \in Nat /\ SumFunction(rxed) \in Nat
<1> SUFFICES ASSUME CounterTypes
             PROVE  /\ SumFunction(buflen) \in Nat /\ SumFunction(lost) \in Nat
                    /\ SumFunction(txed) \in Nat /\ SumFunction(rxed) \in Nat
  OBVIOUS
<1>1. IsFiniteSet(TxIf) /\ IsFiniteSet(RxIf)
  BY IfacesFinite
<1>2. /\ buflen \in [TxIf -> Nat] /\ lost \in [TxIf -> Nat] /\ txed \in [TxIf -> Nat]
      /\ rxed \in [RxIf -> Nat]
  BY DEF CounterTypes
<1> QED
  BY <1>1, <1>2, SumTyped

\* Every step keeps the totals equal to the sums over the interfaces, never
\* counts a drop that is not one, and is a move of packets in the ledger: what
\* the flush of a buffer takes from it is what it sends and loses.
LEMMA StepTotals ==
    ASSUME TypeOK, AccTypeOK, TotalsAgree, DropsSound, [AccNext]_accVars
    PROVE  TotalsAgree' /\ DropsSound' /\ [Ledger_!Next]_(Ledger_!ledger)
<1>t. CounterTypes
  BY CounterFacts
<1>f. IsFiniteSet(TxIf) /\ IsFiniteSet(RxIf)
  BY <1>t, IfacesFinite
<1>s. /\ SumFunction(buflen) \in Nat /\ SumFunction(lost) \in Nat
      /\ SumFunction(txed) \in Nat /\ SumFunction(rxed) \in Nat
  BY <1>t, SumsTyped
<1>i. rcount = SumFunction(rxed) /\ tcount = SumFunction(txed) /\ drops <= SumFunction(lost)
  BY DEF TotalsAgree, DropsSound
<1>c. /\ MAX_PKT_BURST \in Nat /\ TxBufSize \in Nat /\ MAX_PKT_BURST <= TxBufSize
      /\ left \in Nat /\ left <= MAX_PKT_BURST
      /\ rcount \in Nat /\ tcount \in Nat /\ drops \in Nat /\ freed \in Nat
      /\ rxed \in [RxIf -> Nat]
      /\ buflen \in [TxIf -> Nat] /\ txed \in [TxIf -> Nat] /\ lost \in [TxIf -> Nat]
  BY <1>t DEF CounterTypes, TxBufSize
<1> DEFINE held == left + SumFunction(buflen)
           gone == freed + SumFunction(lost)
\* A move by a step that leaves the other sums alone.
<1>m. ASSUME NEW n \in 0 .. TxBufSize, NEW s \in 0 .. TxBufSize, NEW l \in 0 .. TxBufSize,
             s + l <= held + n,
             rcount' = rcount + n, held' = held + n - (s + l),
             tcount' = tcount + s, gone' = gone + l
      PROVE  Ledger_!Next
  BY <1>m DEF Ledger_!Next, Ledger_!Move, Ledger_!Amount
<1>1. ASSUME NEW n \in 0 .. TxBufSize, AccFlush(n)
      PROVE  TotalsAgree' /\ DropsSound' /\ Ledger_!Next
  <2> DEFINE u == buflen[cur] - n
  <2>1. /\ cur \in TxIf /\ n \in Nat /\ buflen[cur] \in Nat /\ u \in Nat /\ buflen[cur] < TxBufSize
        /\ buflen' = [buflen EXCEPT ![cur] = 0]
        /\ txed' = [txed EXCEPT ![cur] = @ + n]
        /\ lost' = [lost EXCEPT ![cur] = @ + u]
        /\ tcount' = tcount + n
        /\ drops' = drops + u
        /\ UNCHANGED <<ctx, left, rcount, rxed, freed>>
    BY <1>1, FlushEffect
  <2>2. n + u = buflen[cur] /\ u \in 0 .. TxBufSize
    BY <1>c, <2>1
  <2> HIDE DEF u
  <2>3. SumFunction(buflen') = SumFunction(buflen) - buflen[cur] /\ buflen[cur] <= SumFunction(buflen)
    BY <1>c, <1>f, <2>1, SumClear
  <2>4. SumFunction(txed') = SumFunction(txed) + n /\ SumFunction(lost') = SumFunction(lost) + u
    <3>1. SumFunction(txed') = SumFunction(txed) + n
      <4>1. IsFiniteSet(TxIf) /\ txed \in [TxIf -> Nat] /\ cur \in TxIf /\ n \in Nat
            /\ Adds(txed, cur, n, txed')
        BY <1>c, <1>f, <2>1 DEF Adds
      <4> QED
        BY SumAdd, <4>1 DEF SumGrows
    <3>2. SumFunction(lost') = SumFunction(lost) + u
      <4>1. IsFiniteSet(TxIf) /\ lost \in [TxIf -> Nat] /\ cur \in TxIf /\ u \in Nat
            /\ Adds(lost, cur, u, lost')
        BY <1>c, <1>f, <2>1 DEF Adds
      <4> QED
        BY SumAdd, <4>1 DEF SumGrows
    <3> QED
      BY <3>1, <3>2
  <2>5. TotalsAgree' /\ DropsSound'
    BY <1>c, <1>i, <1>s, <2>1, <2>4 DEF TotalsAgree, DropsSound
  <2>6. /\ n + u <= held + 0 /\ rcount' = rcount + 0 /\ held' = held + 0 - (n + u)
        /\ gone' = gone + u /\ 0 \in 0 .. TxBufSize
    BY <1>c, <1>s, <2>1, <2>2, <2>3, <2>4
  <2> HIDE DEF held, gone
  <2>7. Ledger_!Next
    BY <1>m, <2>1, <2>2, <2>6
  <2> QED
    BY <2>5, <2>7
<1>2. ASSUME NEW n \in 0 .. TxBufSize, AccBufferFull(n)
      PROVE  TotalsAgree' /\ DropsSound' /\ Ledger_!Next
  <2> DEFINE u == TxBufSize - n
  <2>1. /\ tcif \in TxIf /\ n \in Nat /\ u \in Nat
        /\ buflen[tcif] \in Nat /\ buflen[tcif] + 1 = TxBufSize
        /\ left' = left - 1 /\ left > 0
        /\ buflen' = [buflen EXCEPT ![tcif] = 0]
        /\ txed' = [txed EXCEPT ![tcif] = @ + n]
        /\ lost' = [lost EXCEPT ![tcif] = @ + u]
        /\ tcount' = tcount + n
        /\ UNCHANGED <<ctx, rcount, drops, rxed, freed>>
    BY <1>2, BufferFullEffect
  <2>2. n + u = buflen[tcif] + 1 /\ u \in 0 .. TxBufSize
    BY <1>c, <2>1
  <2> HIDE DEF u
  <2>3. SumFunction(buflen') = SumFunction(buflen) - buflen[tcif] /\ buflen[tcif] <= SumFunction(buflen)
    BY <1>c, <1>f, <2>1, SumClear
  <2>4. SumFunction(txed') = SumFunction(txed) + n /\ SumFunction(lost') = SumFunction(lost) + u
    <3>1. SumFunction(txed') = SumFunction(txed) + n
      <4>1. IsFiniteSet(TxIf) /\ txed \in [TxIf -> Nat] /\ tcif \in TxIf /\ n \in Nat
            /\ Adds(txed, tcif, n, txed')
        BY <1>c, <1>f, <2>1 DEF Adds
      <4> QED
        BY SumAdd, <4>1 DEF SumGrows
    <3>2. SumFunction(lost') = SumFunction(lost) + u
      <4>1. IsFiniteSet(TxIf) /\ lost \in [TxIf -> Nat] /\ tcif \in TxIf /\ u \in Nat
            /\ Adds(lost, tcif, u, lost')
        BY <1>c, <1>f, <2>1 DEF Adds
      <4> QED
        BY SumAdd, <4>1 DEF SumGrows
    <3> QED
      BY <3>1, <3>2
  <2>5. TotalsAgree' /\ DropsSound'
    BY <1>c, <1>i, <1>s, <2>1, <2>4 DEF TotalsAgree, DropsSound
  <2>6. /\ n + u <= held + 0 /\ rcount' = rcount + 0 /\ held' = held + 0 - (n + u)
        /\ gone' = gone + u /\ 0 \in 0 .. TxBufSize
    BY <1>c, <1>s, <2>1, <2>2, <2>3, <2>4
  <2> HIDE DEF held, gone
  <2>7. Ledger_!Next
    BY <1>m, <2>1, <2>2, <2>6
  <2> QED
    BY <2>5, <2>7
<1>3. ASSUME NEW n \in Burst, AccPoll(n)
      PROVE  TotalsAgree' /\ DropsSound' /\ Ledger_!Next
  <2>1. /\ cur \in RxIf /\ n \in Nat /\ n <= MAX_PKT_BURST
        /\ left = 0 /\ left' = n
        /\ rcount' = rcount + n
        /\ rxed' = [rxed EXCEPT ![cur] = @ + n]
        /\ UNCHANGED <<ctx, buflen, tcount, drops, txed, lost, freed>>
    BY <1>3, <1>t, PollEffect
  <2>2. SumFunction(rxed') = SumFunction(rxed) + n
    <3>1. /\ IsFiniteSet(RxIf) /\ rxed \in [RxIf -> Nat] /\ cur \in RxIf /\ n \in Nat
          /\ Adds(rxed, cur, n, rxed')
      BY <1>c, <1>f, <2>1 DEF Adds
    <3> QED
      BY SumAdd, <3>1 DEF SumGrows
  <2>3. TotalsAgree' /\ DropsSound'
    BY <1>c, <1>i, <1>s, <2>1, <2>2 DEF TotalsAgree, DropsSound
  <2>4. /\ n \in 0 .. TxBufSize /\ 0 \in 0 .. TxBufSize /\ 0 + 0 <= held + n
        /\ held' = held + n - (0 + 0) /\ tcount' = tcount + 0 /\ gone' = gone + 0
    BY <1>c, <1>s, <2>1
  <2> HIDE DEF held, gone
  <2>5. Ledger_!Next
    BY <1>m, <2>1, <2>4
  <2> QED
    BY <2>3, <2>5
<1>4. CASE AccBuffer
  <2>1. /\ tcif \in TxIf /\ left' = left - 1 /\ left > 0
        /\ buflen' = [buflen EXCEPT ![tcif] = @ + 1]
        /\ UNCHANGED <<ctx, rcount, tcount, drops, rxed, txed, lost, freed>>
    BY <1>4, BufferEffect
  <2>2. SumFunction(buflen') = SumFunction(buflen) + 1
    <3>1. /\ IsFiniteSet(TxIf) /\ buflen \in [TxIf -> Nat] /\ tcif \in TxIf /\ 1 \in Nat
          /\ Adds(buflen, tcif, 1, buflen')
      BY <1>c, <1>f, <2>1 DEF Adds
    <3> QED
      BY SumAdd, <3>1 DEF SumGrows
  <2>3. TotalsAgree' /\ DropsSound'
    BY <1>i, <2>1 DEF TotalsAgree, DropsSound
  <2>4. UNCHANGED <<rcount, held, tcount, gone>>
    BY <1>c, <1>s, <2>1, <2>2
  <2> QED
    BY <2>3, <2>4 DEF Ledger_!ledger
<1>5. CASE AccFree
  <2>1. /\ left' = 0 /\ freed' = freed + left
        /\ UNCHANGED <<ctx, buflen, rcount, tcount, drops, rxed, txed, lost>>
    BY <1>5, FreeEffect
  <2>2. TotalsAgree' /\ DropsSound'
    BY <1>i, <2>1 DEF TotalsAgree, DropsSound
  <2>3. /\ left \in 0 .. TxBufSize /\ 0 \in 0 .. TxBufSize /\ 0 + left <= held + 0
        /\ rcount' = rcount + 0 /\ held' = held + 0 - (0 + left) /\ tcount' = tcount + 0
        /\ gone' = gone + left
    BY <1>c, <1>s, <2>1
  <2> HIDE DEF held, gone
  <2>4. Ledger_!Next
    BY <1>m, <2>3
  <2> QED
    BY <2>2, <2>4
<1>6. CASE AccOther \/ UNCHANGED accVars
  <2>1. UNCHANGED <<ctx, left, buflen, rcount, tcount, drops, rxed, txed, lost, freed>>
    BY <1>6, OtherEffect
  <2> QED
    BY <1>i, <2>1 DEF TotalsAgree, DropsSound, Ledger_!ledger
<1> QED
  BY <1>1, <1>2, <1>3, <1>4, <1>5, <1>6 DEF AccNext

LEMMA InitTotals == AccInit => TotalsAgree /\ DropsSound /\ Ledger_!Init
<1> SUFFICES ASSUME AccInit PROVE TotalsAgree /\ DropsSound /\ Ledger_!Init
  OBVIOUS
<1>1. /\ rcount = 0 /\ tcount = 0 /\ drops = 0 /\ freed = 0 /\ left = 0
      /\ rxed = [r \in RxIf |-> 0] /\ txed = [t \in TxIf |-> 0]
      /\ lost = [t \in TxIf |-> 0] /\ buflen = [t \in TxIf |-> 0]
  BY DEF AccInit, Init
<1>2. IsFiniteSet(TxIf) /\ IsFiniteSet(RxIf)
  <2>1. ctx.ntxifs \in Int /\ ctx.nrxifs \in Nat
    BY CtxFacts DEF AccInit, Init
  <2> QED
    BY <2>1, FirstFinite DEF TxIf, RxIf
<1>3. /\ SumFunction(rxed) = 0 /\ SumFunction(txed) = 0
      /\ SumFunction(lost) = 0 /\ SumFunction(buflen) = 0
  <2>1. \A I, f : IsFiniteSet(I) /\ f = [i \in I |-> 0] => SumFunction(f) = 0
    BY SumOfZeros
  <2> QED
    BY <1>1, <1>2, <2>1, Zenon
<1> QED
  BY <1>1, <1>3 DEF TotalsAgree, DropsSound, Ledger_!Init

LEMMA TotalsInvariant == AccSpec => [](TypeOK /\ AccTypeOK /\ TotalsAgree /\ DropsSound)
<1>1. TypeOK /\ AccTypeOK /\ TotalsAgree /\ DropsSound /\ [AccNext]_accVars => TotalsAgree' /\ DropsSound'
  BY StepTotals
<1> QED
  BY <1>1, InitTotals, CounterInvariant, PTL DEF AccSpec

\* The totals of the stats line are the sums of the interfaces' own counts at
\* every moment, whatever DPDK sends on its own.
THEOREM TotalsAreSums == AccSpec => []TotalsAgree
BY TotalsInvariant, PTL

\* The total of drops never exceeds what was dropped, although the callback's
\* count is cleared by one call and read by another.
THEOREM DropsAreReal == AccSpec => []DropsSound
BY TotalsInvariant, PTL

\* The loop with its counters implements the ledger: each packet received is
\* settled at most once, and the totals with what is held account for all.
THEOREM KeepsTheLedger == AccSpec => ImplementsLedger
<1>1. TypeOK /\ AccTypeOK /\ TotalsAgree /\ DropsSound /\ [AccNext]_accVars
          => [Ledger_!Next]_(Ledger_!ledger)
  BY StepTotals
<1> QED
  BY <1>1, InitTotals, TotalsInvariant, PTL DEF AccSpec, ImplementsLedger, Ledger_!Spec
=============================================================================
