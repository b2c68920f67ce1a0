---------------------------- MODULE Bleat_proof -----------------------------
(***************************************************************************)
(* Proofs about the log writer, for any logs, cycles and times.  They need *)
(* that a call is not held up for long: not for more than a cycle, and not *)
(* for so long that files of the current period are already to be purged.  *)
(***************************************************************************)
EXTENDS Bleat, TLAPS

ShortStalls == \A b \in Bases : MaxStall <= Cycle[b]

KeepsLongEnough == \A b \in Bases : Cycle[b] - 1 + MaxStall <= Keep

\* The start of a period is a multiple of the cycle, less than a cycle ago.
LEMMA PeriodFacts ==
    ASSUME NEW n \in Nat, NEW c \in Nat \ {0}
    PROVE  /\ n - (n % c) \in Nat /\ n - (n % c) <= n /\ n < n - (n % c) + c
           /\ \E k \in Nat : n - (n % c) = c * k
<1>1. n % c \in 0 .. c - 1 /\ n \div c \in Nat /\ n = c * (n \div c) + (n % c)
  OBVIOUS
<1>2. n - (n % c) = c * (n \div c)
  <2> DEFINE q == n \div c
             r == n % c
  <2>1. r \in Int /\ q \in Nat /\ c * q \in Int /\ n = c * q + r
    BY <1>1
  <2> HIDE DEF q, r
  <2>2. n - r = c * q
    BY <2>1
  <2> QED
    BY <2>2 DEF q, r
<1> QED
  BY <1>1, <1>2

\* Two multiples less than two apart are at most one apart.
LEMMA NextMultiple ==
    ASSUME NEW c \in Nat \ {0}, NEW j \in Nat, NEW k \in Nat, c * j < c * k + 2 * c
    PROVE  c * j <= c * k + c
<1>1. CASE j <= k + 1
  <2>1. PICK d \in Nat : k + 1 = j + d
    <3>1. k + 1 - j \in Nat /\ k + 1 = j + (k + 1 - j)
      BY <1>1
    <3> QED
      BY <3>1
  <2>2. c * (k + 1) = c * j + c * d /\ c * (k + 1) = c * k + c /\ c * d \in Nat
    BY <2>1
  <2> QED
    BY <2>2
<1>2. CASE ~(j <= k + 1)
  <2>1. PICK d \in Nat : j = k + 2 + d
    <3>1. j - k - 2 \in Nat /\ j = k + 2 + (j - k - 2)
      BY <1>2
    <3> QED
      BY <3>1
  <2>2. c * j = c * k + 2 * c + c * d /\ c * d \in Nat
    BY <2>1
  <2> QED
    BY <2>2
<1> QED
  BY <1>1, <1>2

-----------------------------------------------------------------------------
(* The invariant.                                                          *)

Calling == pc \in {"flip", "open", "purge", "write"}

Calls == [ base : Bases \cup {NULL}, cycle : Nat, period : Nat \cup {-1}, began : Nat,
           roll : BOOLEAN ]

BleatTypes ==
    /\ now \in 0 .. MaxTime
    /\ pc \in {"idle", "flip", "open", "purge", "write", "crashed"}
    /\ call \in Calls
    /\ flip \in Nat
    /\ disk \in [DOMAIN disk -> Nat]

\* What the running call has read of the clock.
CallDated ==
    /\ call.base \in Bases
    /\ call.cycle = Cycle[call.base]
    /\ call.period <= call.began /\ call.began < call.period + call.cycle
    /\ \E k \in Nat : call.period = call.cycle * k

CallSound ==
    /\ Calling => call.base \in Bases /\ call.began <= now /\ now <= call.began + MaxStall
    /\ Calling /\ call.period # -1 => CallDated
    /\ pc = "flip" => call.period # -1 /\ base = call.base
    /\ pc \in {"purge", "write"} \/ (call.roll /\ pc = "open") => call.period # -1
    /\ pc = "open" /\ call.period # -1 =>
            /\ base = call.base
            /\ flip >= call.period + call.cycle /\ flip <= call.period + 2 * call.cycle
    /\ pc \in {"purge", "write"} /\ base # NULL => log = CallFile

\* With a base, the cycle is the one of the base.
BaseSound == base # NULL /\ pc # "flip" => base \in Bases /\ cycle = Cycle[base]

\* A dated log is the base's, and its flip time is the end of its period or of
\* the one after it.
LogSound ==
    pc \in {"idle", "purge", "write"} \/ (pc = "open" /\ call.period = -1) =>
        (base # NULL /\ log \in Dated =>
            /\ log[1] = base
            /\ log[2] <= now
            /\ flip >= log[2] + Cycle[base] /\ flip <= log[2] + 2 * Cycle[base])

BleatInv == BleatTypes /\ CallSound /\ BaseSound /\ LogSound

LEMMA BleatConstants ==
    /\ \A b \in Bases : Cycle[b] \in Nat \ {0}
    /\ Keep \in Nat /\ MaxTime \in Nat /\ MaxStall \in Nat
  BY BleatAssumption

LEMMA NoCallTyped == NoCall \in Calls
  BY DEF NoCall, Calls

LEMMA BleatInit == Init => BleatInv
<1> SUFFICES ASSUME Init PROVE BleatInv
  OBVIOUS
<1>1. BleatTypes
  BY BleatConstants DEF Init, BleatTypes, NoCall, Calls
<1> QED
  BY <1>1 DEF Init, BleatInv, CallSound, BaseSound, LogSound, Calling, NoCall

\* What follows of the call that has read the clock for its name.
LEMMA FlipInStep ==
    ASSUME ShortStalls, BleatInv, SetFlip
    PROVE  flip' \in Nat /\ flip' >= call.period + call.cycle
                        /\ flip' <= call.period + 2 * call.cycle
<1>1. /\ CallDated /\ now \in Nat /\ call.began \in Nat /\ call.began <= now
      /\ now <= call.began + MaxStall /\ flip' = Period(call.cycle) + call.cycle
  BY BleatConstants DEF SetFlip, BleatInv, BleatTypes, Calls, CallSound, Calling, GetFlipTime
<1> DEFINE c == call.cycle
           p == Period(c)
<1>2. c \in Nat \ {0} /\ MaxStall \in Nat /\ MaxStall <= c
  BY <1>1, BleatConstants DEF CallDated, ShortStalls
<1>3. p \in Nat /\ p <= now /\ now < p + c /\ \E j \in Nat : p = c * j
  BY <1>1, <1>2, PeriodFacts DEF Period
<1>4. PICK j \in Nat : p = c * j
  BY <1>3
<1>5. PICK k \in Nat : call.period = c * k
  BY <1>1 DEF CallDated
<1>6. call.period <= call.began /\ call.began < call.period + c
  BY <1>1 DEF CallDated
<1>7. flip' = p + c
  BY <1>1
<1> HIDE DEF p, c
<1>8. c * j \in Nat /\ c * k \in Nat
  BY <1>2
<1>9. c * j <= c * k + c
  <2>1. c * j < c * k + 2 * c
    BY <1>1, <1>2, <1>3, <1>4, <1>5, <1>6, <1>8
  <2> QED
    BY <2>1, <1>2, NextMultiple
<1>10. c * k <= c * j
  <2>1. c * (k + 1) = c * k + c
    BY <1>2
  <2>2. c * (k + 1) < c * j + 2 * c
    BY <2>1, <1>1, <1>2, <1>3, <1>4, <1>5, <1>6, <1>8
  <2>3. c * (k + 1) <= c * j + c
    BY <2>2, <1>2, NextMultiple
  <2> QED
    BY <2>1, <2>3, <1>2, <1>8
<1>11. flip' \in Nat /\ flip' >= call.period + c /\ flip' <= call.period + 2 * c
  BY <1>2, <1>4, <1>5, <1>7, <1>8, <1>9, <1>10
<1> QED
  BY <1>11 DEF c

\* Reading the clock for the name of a log.
LEMMA BeginStep ==
    ASSUME BleatInv, pc = "idle", NEW b \in Bases, NEW r \in BOOLEAN, BeginSetLog(b, Cycle[b], r)
    PROVE  BleatInv'
<1> DEFINE c == Cycle[b]
<1>1. c \in Nat \ {0} /\ now \in Nat
  BY BleatConstants DEF BleatInv, BleatTypes, Calls
<1>2. /\ Period(c) \in Nat /\ Period(c) <= now /\ now < Period(c) + c
      /\ \E k \in Nat : Period(c) = c * k
  BY <1>1, PeriodFacts DEF Period
<1>3. /\ base' = b /\ pc' = "flip" /\ UNCHANGED <<now, log, cycle, flip, disk>>
      /\ call' = [base |-> b, cycle |-> c, period |-> Period(c), began |-> now, roll |-> r]
  BY DEF BeginSetLog
<1> DEFINE p == Period(c)
<1> HIDE DEF c, p
<1>4. BleatTypes'
  BY <1>1, <1>2, <1>3 DEF BleatInv, BleatTypes, Calls, p
<1>5. CallDated'
  <2>1. /\ call'.base = b /\ call'.cycle = c /\ call'.period = p /\ call'.began = now
        /\ p <= now /\ now < p + c /\ \E k \in Nat : p = c * k
    BY <1>2, <1>3 DEF p
  <2> QED
    BY <2>1 DEF CallDated, c
<1>6. CallSound'
  BY <1>1, <1>2, <1>3, <1>5, BleatConstants DEF CallSound, Calling, p
<1> QED
  BY <1>3, <1>4, <1>6 DEF BleatInv, BaseSound, LogSound

LEMMA BleatStep == ShortStalls /\ BleatInv /\ [Next]_vars => BleatInv'
<1> SUFFICES ASSUME ShortStalls, BleatInv, [Next]_vars PROVE BleatInv'
  OBVIOUS
<1> USE DEF BleatInv
<1>1. CASE SetStderr
  BY <1>1, BleatConstants
    DEF SetStderr, BleatTypes, Calls, CallSound, CallDated, CallFile, BaseSound, LogSound, Calling
<1>2. CASE SetFlip
  <2>1. pc = "flip" /\ pc' = "open" /\ UNCHANGED <<now, log, base, disk, call>> /\ cycle' = call.cycle
    BY <1>2 DEF SetFlip
  <2>2. BleatTypes'
    BY <1>2, <2>1, FlipInStep DEF BleatTypes, Calls
  <2>3. CallDated /\ base = call.base /\ call.period # -1
    BY <2>1 DEF CallSound, Calling
  <2>4. CallSound'
    BY <1>2, <2>1, <2>3, FlipInStep DEF CallSound, CallDated, Calling
  <2>5. BaseSound'
    BY <2>1, <2>3 DEF BaseSound, CallDated
  <2> QED
    BY <2>1, <2>2, <2>3, <2>4, <2>5 DEF LogSound
<1>3. CASE Open
  <2>1. /\ pc = "open" /\ log' = CallFile /\ AfterOpen /\ UNCHANGED <<now, base, cycle, flip>>
        /\ disk' = [f \in DOMAIN disk \cup {CallFile} |-> IF f \in DOMAIN disk THEN disk[f] ELSE now]
    BY <1>3 DEF Open
  <2>2. (call' = call /\ pc' = "purge" /\ call.roll) \/ (call' = NoCall /\ pc' = "idle")
    BY <2>1 DEF AfterOpen
  <2>3. BleatTypes'
    BY <2>1, <2>2, NoCallTyped DEF BleatTypes
  <2>4. call.base \in Bases /\ (call.period # -1 => CallDated /\ base = call.base)
    BY <2>1 DEF CallSound, Calling
  <2>5. (CallFile' = CallFile /\ CallDated' = CallDated) \/ pc' = "idle"
    BY <2>2 DEF CallFile, CallDated
  <2>6. CallSound'
    BY <2>1, <2>2, <2>4, <2>5 DEF CallSound, Calling
  <2>7. BaseSound'
    BY <2>1, <2>2 DEF BaseSound
  <2>8. LogSound'
    <3>1. CASE call.period = -1
      <4>1. log' \notin Dated
        BY <2>1, <3>1, BleatConstants DEF CallFile, Dated
      <4> QED
        BY <4>1 DEF LogSound
    <3>2. CASE call.period # -1
      <4>1. /\ CallDated /\ base = call.base /\ call.began <= now /\ call.period <= call.began
            /\ flip >= call.period + call.cycle /\ flip <= call.period + 2 * call.cycle
            /\ call.cycle = Cycle[base]
        BY <2>1, <2>4, <3>2 DEF CallSound, Calling, CallDated
      <4>2. call.period <= now
        BY <4>1 DEF BleatTypes, Calls
      <4>3. log'[1] = base /\ log'[2] = call.period
        BY <2>1, <4>1 DEF CallFile
      <4> QED
        BY <2>1, <4>1, <4>2, <4>3 DEF LogSound
    <3> QED
      BY <3>1, <3>2
  <2> QED
    BY <2>3, <2>6, <2>7, <2>8
<1>4. CASE OpenFails
  <2>1. /\ pc = "open" /\ AfterOpen /\ UNCHANGED <<now, log, cycle, flip, disk>>
        /\ base' = IF call.period = -1 THEN base ELSE NULL
    BY <1>4 DEF OpenFails
  <2>2. \/ call' = call /\ pc' = "purge" /\ call.roll /\ call.period # -1
        \/ call' = NoCall /\ pc' = "idle"
    BY <2>1 DEF AfterOpen, CallSound
  <2>3. BleatTypes'
    BY <2>1, <2>2, NoCallTyped DEF BleatTypes
  <2>4. CallDated' = CallDated \/ pc' = "idle"
    BY <2>2 DEF CallDated
  <2>5. CallSound'
    BY <2>1, <2>2, <2>4 DEF CallSound, Calling
  <2>6. BaseSound' /\ LogSound'
    BY <2>1, <2>2 DEF BaseSound, LogSound
  <2> QED
    BY <2>3, <2>5, <2>6
<1>5. CASE ClearPurge
  BY <1>5 DEF ClearPurge, logvars, BleatTypes, Calls, CallSound, CallDated, CallFile, BaseSound, LogSound, Calling
<1>6. CASE Purge
  <2>1. /\ pc = "purge" /\ pc' \in {"write", "crashed"} /\ UNCHANGED <<now, log, base, cycle, flip, call>>
        /\ disk' = disk \/ disk' = Restrict(disk, DOMAIN disk \ {f \in Listed : Stale(f)})
    BY <1>6 DEF Purge, logvars
  <2>2. BleatTypes'
    BY <2>1 DEF BleatTypes, Calls, Restrict
  <2> QED
    BY <2>1, <2>2 DEF CallSound, CallDated, CallFile, BaseSound, LogSound, Calling
<1>7. ASSUME NEW b \in Bases, SetDated(b)
      PROVE  BleatInv'
  BY <1>7, BeginStep DEF SetDated
<1>8. ASSUME NEW b \in Bases, SetPlain(b)
      PROVE  BleatInv'
  <2>1. /\ pc = "idle" /\ pc' = "open" /\ UNCHANGED <<now, log, base, cycle, flip, disk>>
        /\ call' = [base |-> b, cycle |-> 0, period |-> -1, began |-> now, roll |-> FALSE]
    BY <1>8, Zenon DEF SetPlain, logvars, NoCall
  <2>2. BleatTypes'
    BY <2>1, BleatConstants DEF BleatTypes, Calls
  <2>3. CallSound'
    BY <2>1, BleatConstants DEF CallSound, Calling, BleatTypes, Calls
  <2> QED
    BY <2>1, <2>2, <2>3 DEF BaseSound, LogSound
<1>9. ASSUME NEW b \in Bases, SetPurge(b)
      PROVE  BleatInv'
  BY <1>9 DEF SetPurge, logvars, BleatTypes, Calls, CallSound, CallDated, CallFile, BaseSound, LogSound, Calling
<1>10. CASE BleatFirst
  <2>1. log' \notin Dated
    BY <1>10, NoNameAssumption DEF BleatFirst, Files
  <2> QED
    BY <1>10, <2>1 DEF BleatFirst, BleatTypes, Calls, CallSound, CallDated, CallFile, BaseSound, LogSound, Calling
<1>11. CASE BleatNow
  <2>1. disk' \in [DOMAIN disk' -> Nat]
    BY <1>11 DEF BleatNow, Say, BleatTypes, Calls
  <2> QED
    BY <1>11, <2>1
      DEF BleatNow, logvars, BleatTypes, Calls, CallSound, CallDated, CallFile, BaseSound, LogSound, Calling
<1>12. CASE BleatRolls
  <2>1. pc = "idle" /\ base \in Bases /\ BeginSetLog(base, Cycle[base], TRUE)
    BY <1>12 DEF BleatRolls, BaseSound
  <2> QED
    BY <2>1, BeginStep
<1>13. CASE BleatCrashes
  BY <1>13 DEF BleatCrashes, logvars, BleatTypes, Calls, CallSound, CallDated, CallFile, BaseSound, LogSound, Calling
<1>14. CASE BleatRolled
  <2>1. disk' \in [DOMAIN disk' -> Nat]
    BY <1>14 DEF BleatRolled, Say, BleatTypes, Calls
  <2>2. BleatTypes'
    BY <1>14, <2>1, BleatConstants DEF BleatRolled, NoCall, BleatTypes, Calls, logvars
  <2> QED
    BY <1>14, <2>2 DEF BleatRolled, logvars, CallSound, CallFile, BaseSound, LogSound, Calling
<1>15. CASE Tick
  <2>1. /\ now < MaxTime /\ now' = now + 1 /\ UNCHANGED <<log, base, cycle, flip, purge, disk, pc, call>>
        /\ pc # "idle" => now - call.began < MaxStall
    BY <1>15 DEF Tick, logvars
  <2>2. now \in Nat /\ call.began \in Nat /\ MaxStall \in Nat /\ MaxTime \in Nat
    BY BleatConstants DEF BleatTypes, Calls
  <2>3. BleatTypes'
    BY <2>1, <2>2 DEF BleatTypes, Calls
  <2>4. CallSound'
    <3>1. Calling' => call'.base \in Bases /\ call'.began <= now' /\ now' <= call'.began + MaxStall
      BY <2>1, <2>2 DEF CallSound, Calling
    <3>2. CallDated' = CallDated /\ Calling' = Calling /\ CallFile' = CallFile
      BY <2>1 DEF CallDated, Calling, CallFile
    <3> QED
      BY <2>1, <3>1, <3>2 DEF CallSound
  <2>5. BaseSound'
    BY <2>1 DEF BaseSound
  <2>6. LogSound'
    <3>1. log \in Dated => log[2] \in Nat
      BY BleatConstants DEF Dated
    <3> QED
      BY <2>1, <2>2, <3>1 DEF LogSound
  <2> QED
    BY <2>3, <2>4, <2>5, <2>6
<1>16. CASE UNCHANGED vars
  BY <1>16 DEF vars, logvars, BleatTypes, Calls, CallSound, CallDated, CallFile, BaseSound, LogSound, Calling
<1> QED
  BY <1>1, <1>2, <1>3, <1>4, <1>5, <1>6, <1>7, <1>8, <1>9, <1>10, <1>11, <1>12, <1>13, <1>14, <1>15, <1>16
    DEF Next, Ended

-----------------------------------------------------------------------------
(* When messages go where.                                                 *)

InTimeOrRolled ==
    base # NULL /\ log \in Dated =>
        /\ BleatNow \/ BleatRolled => InTime(log)
        /\ BleatRolls /\ log[1] = base => Period(cycle) > log[2]

LEMMA BleatInTime == ShortStalls /\ BleatInv /\ [Next]_vars => [InTimeOrRolled]_vars
<1> SUFFICES ASSUME ShortStalls, BleatInv, base # NULL, log \in Dated
             PROVE  /\ BleatNow \/ BleatRolled => InTime(log)
                    /\ BleatRolls /\ log[1] = base => Period(cycle) > log[2]
  BY DEF InTimeOrRolled
<1>1. now \in Nat /\ flip \in Nat /\ log[2] \in Nat
  BY BleatConstants DEF BleatInv, BleatTypes, Dated
<1>2. ASSUME pc \in {"idle", "purge", "write"}
      PROVE  /\ log[1] = base /\ log[2] <= now
             /\ flip >= log[2] + Cycle[base] /\ flip <= log[2] + 2 * Cycle[base]
             /\ base \in Bases /\ Cycle[base] \in Nat \ {0} /\ cycle = Cycle[base]
  BY <1>2, BleatConstants DEF BleatInv, LogSound, BaseSound
<1>3. CASE BleatNow
  <2>1. pc = "idle" /\ ~(flip # 0 /\ flip < now)
    BY <1>3 DEF BleatNow, RollDue
  <2>2. now <= log[2] + 2 * Cycle[base] /\ log[2] <= now
    BY <1>1, <1>2, <2>1
  <2> QED
    BY <1>2, <2>1, <2>2 DEF InTime, BleatRolls, RollDue
<1>4. CASE BleatRolled
  <2>1. pc = "write" /\ log = CallFile /\ CallDated /\ call.began <= now
        /\ now <= call.began + MaxStall
    BY <1>4 DEF BleatRolled, BleatInv, CallSound, Calling
  <2>2. log[1] = call.base /\ log[2] = call.period /\ call.cycle = Cycle[base]
        /\ call.began < call.period + call.cycle
    BY <1>2, <2>1 DEF CallFile, CallDated
  <2>3. MaxStall <= Cycle[base] /\ MaxStall \in Nat /\ call.began \in Nat
    BY <1>2, <2>1, BleatConstants DEF ShortStalls, BleatInv, BleatTypes, Calls
  <2>4. now <= log[2] + 2 * Cycle[base] /\ log[2] <= now
    BY <1>1, <1>2, <2>1, <2>2, <2>3
  <2> QED
    BY <1>2, <2>1, <2>4 DEF InTime, BleatRolls
<1>5. CASE BleatRolls
  <2>1. pc = "idle" /\ flip < now
    BY <1>5 DEF BleatRolls, RollDue
  <2>2. cycle \in Nat \ {0} /\ flip >= log[2] + cycle
    BY <1>2, <2>1
  <2>3. Period(cycle) \in Nat /\ now < Period(cycle) + cycle
    BY <1>1, <2>2, PeriodFacts DEF Period
  <2>4. Period(cycle) > log[2]
    BY <1>1, <2>1, <2>2, <2>3
  <2> QED
    BY <2>1, <2>4, <1>5 DEF BleatNow, BleatRolls, BleatRolled
<1> QED
  BY <1>3, <1>4, <1>5

\* If no call is held up for more than a cycle, then messages go to the file of
\* their period, the one before or the second after, and a roll never opens the
\* file that is open: bleat_printf's late comparison and the two readings of the
\* clock by bleat_set_log add up to nothing more, whatever the cycles are.
THEOREM LogsRollOnTime == ASSUME ShortStalls PROVE Spec => RollsOnTime
<1>1. Init => BleatInv
  BY BleatInit
<1>2. BleatInv /\ [Next]_vars => BleatInv'
  BY BleatStep
<1>3. BleatInv /\ [Next]_vars => [InTimeOrRolled]_vars
  BY BleatInTime
<1> QED
  BY <1>1, <1>2, <1>3, PTL DEF Spec, RollsOnTime, InTimeOrRolled

-----------------------------------------------------------------------------
(* What the purge leaves.                                                  *)

\* A dated file was not modified before its period.
DiskSound == \A f \in DOMAIN disk : disk[f] <= now /\ (f \in Dated => f[2] <= disk[f])

\* The log that is open is there, between calls and after it was opened.
LogThere ==
    pc \in {"idle", "purge", "write"} \/ (pc = "open" /\ call.period = -1) =>
        (base # NULL /\ log \in Files => log \in DOMAIN disk)

LEMMA DiskStep == BleatInv /\ DiskSound /\ [Next]_vars => DiskSound'
<1> SUFFICES ASSUME BleatInv, DiskSound, [Next]_vars PROVE DiskSound'
  OBVIOUS
<1>1. now \in Nat /\ disk \in [DOMAIN disk -> Nat]
  BY BleatConstants DEF BleatInv, BleatTypes
<1>2. CASE Open
  <2>1. /\ now' = now /\ pc = "open"
        /\ disk' = [f \in DOMAIN disk \cup {CallFile} |-> IF f \in DOMAIN disk THEN disk[f] ELSE now]
    BY <1>2 DEF Open
  <2>2. call.period <= now
    BY <1>1, <2>1 DEF BleatInv, BleatTypes, Calls, CallSound, CallDated, Calling
  <2>3. CallFile[2] = call.period
    BY DEF CallFile
  <2> QED
    BY <1>1, <2>1, <2>2, <2>3 DEF DiskSound
<1>3. CASE Purge
  <2>1. now' = now /\ (disk' = disk \/ disk' = Restrict(disk, DOMAIN disk \ {f \in Listed : Stale(f)}))
    BY <1>3 DEF Purge
  <2> QED
    BY <2>1 DEF DiskSound, Restrict
<1>4. CASE BleatNow \/ BleatRolled
  <2>1. now' = now /\ disk' = IF log \in DOMAIN disk THEN [disk EXCEPT ![log] = now] ELSE disk
    BY <1>4 DEF BleatNow, BleatRolled, Say
  <2>2. ASSUME NEW f \in DOMAIN disk, f \in Dated PROVE f[2] \in Nat /\ disk[f] \in Nat
    BY <1>1, <2>2, BleatConstants DEF Dated
  <2> QED
    BY <1>1, <2>1, <2>2 DEF DiskSound
<1>5. CASE Tick
  BY <1>1, <1>5 DEF Tick, DiskSound
<1>6. CASE UNCHANGED <<now, disk>>
  BY <1>6 DEF DiskSound
<1> QED
  BY <1>2, <1>3, <1>4, <1>5, <1>6
    DEF Next, vars, Ended, SetStderr, SetFlip, OpenFails, ClearPurge, SetDated, SetPlain, SetPurge,
        BeginSetLog, BleatFirst, BleatRolls, BleatCrashes

LEMMA LogThereStep ==
    KeepsLongEnough /\ BleatInv /\ DiskSound /\ LogThere /\ [Next]_vars => LogThere'
<1> SUFFICES ASSUME KeepsLongEnough, BleatInv, DiskSound, LogThere, [Next]_vars PROVE LogThere'
  OBVIOUS
<1>1. now \in Nat /\ disk \in [DOMAIN disk -> Nat]
  BY BleatConstants DEF BleatInv, BleatTypes
<1>2. CASE Open
  BY <1>2 DEF Open, LogThere
<1>3. CASE OpenFails
  BY <1>3 DEF OpenFails, LogThere
<1>4. CASE Purge
  <2>1. /\ pc = "purge" /\ UNCHANGED <<now, log, base>>
        /\ disk' = disk \/ disk' = Restrict(disk, DOMAIN disk \ {f \in Listed : Stale(f)})
    BY <1>4 DEF Purge, logvars
  <2> SUFFICES ASSUME base # NULL, log \in Files PROVE log \in DOMAIN disk'
    BY <2>1 DEF LogThere
  <2>2. log \in DOMAIN disk /\ log = CallFile /\ CallDated /\ now <= call.began + MaxStall
    BY <2>1 DEF BleatInv, CallSound, Calling, LogThere
  <2>3. ASSUME log \in Dated PROVE ~Stale(log)
    <3>1. log[2] = call.period /\ log[2] <= disk[log] /\ log[2] \in Nat /\ disk[log] \in Nat
      BY <1>1, <2>2, <2>3, BleatConstants DEF DiskSound, CallFile, Dated
    <3>2. call.began < call.period + call.cycle /\ call.base \in Bases /\ call.cycle = Cycle[call.base]
      BY <2>2 DEF CallDated
    <3>3. Cycle[call.base] - 1 + MaxStall <= Keep /\ Cycle[call.base] \in Nat
          /\ Keep \in Nat /\ MaxStall \in Nat /\ call.began \in Nat
      BY <3>2, BleatConstants DEF KeepsLongEnough, BleatInv, BleatTypes, Calls
    <3>4. disk[log] >= now - Keep
      BY <1>1, <2>2, <3>1, <3>2, <3>3
    <3> QED
      BY <1>1, <3>1, <3>3, <3>4 DEF Stale
  <2>4. log \in Listed => log \in Dated
    BY DEF Listed
  <2> QED
    BY <2>1, <2>2, <2>3, <2>4 DEF Restrict
<1>5. CASE BleatFirst
  BY <1>5, NoNameAssumption DEF BleatFirst, LogThere
<1>6. CASE BleatNow \/ BleatRolled
  <2>1. DOMAIN disk' = DOMAIN disk /\ UNCHANGED <<log, base>> /\ pc \in {"idle", "write"}
    BY <1>6 DEF BleatNow, BleatRolled, Say, logvars
  <2> QED
    BY <2>1 DEF LogThere
<1>7. CASE UNCHANGED <<log, base, disk, pc, call>>
  BY <1>7 DEF LogThere
<1>8. CASE SetStderr \/ SetFlip \/ ClearPurge
  <2>1. CASE SetFlip
    <3>1. call.period # -1 /\ pc' = "open" /\ call' = call
      BY <2>1 DEF SetFlip, BleatInv, CallSound
    <3> QED
      BY <3>1 DEF LogThere
  <2> QED
    BY <1>8, <2>1 DEF SetStderr, ClearPurge, LogThere, logvars
<1>9. ASSUME NEW b \in Bases, SetDated(b) \/ SetPlain(b) \/ SetPurge(b)
      PROVE  LogThere'
  BY <1>9 DEF SetDated, BeginSetLog, SetPlain, SetPurge, LogThere, logvars
<1>10. CASE BleatRolls \/ BleatCrashes
  BY <1>10 DEF BleatRolls, BeginSetLog, BleatCrashes, LogThere
<1> QED
  BY <1>2, <1>3, <1>4, <1>5, <1>6, <1>7, <1>8, <1>9, <1>10 DEF Next, vars, logvars, Ended, Tick

\* If no call is held up for more than a cycle, nor for so long that the files
\* of its own period are due, then between two calls the log is on the disk: no
\* purge after a roll takes the file the roll opened, whatever else there is to
\* purge and whenever the names to purge are changed.
THEOREM OpenLogIsKept == ASSUME ShortStalls, KeepsLongEnough PROVE Spec => []OpenLogStays
<1>1. Init => BleatInv /\ DiskSound /\ LogThere
  <2>1. Init => DiskSound
    BY BleatConstants DEF Init, DiskSound
  <2>2. Init => LogThere
    BY DEF Init, LogThere
  <2> QED
    BY <2>1, <2>2, BleatInit
<1>2. BleatInv /\ DiskSound /\ LogThere /\ [Next]_vars => (BleatInv /\ DiskSound /\ LogThere)'
  BY BleatStep, DiskStep, LogThereStep
<1>3. LogThere => OpenLogStays
  BY DEF LogThere, OpenLogStays
<1> QED
  BY <1>1, <1>2, <1>3, PTL DEF Spec
=============================================================================
