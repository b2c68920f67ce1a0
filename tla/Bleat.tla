-------------------------------- MODULE Bleat --------------------------------
(***************************************************************************)
(* The log writer of the library, bleat.c: to which file a message goes,   *)
(* the roll of a dated log and the purge of old ones, with the part of     *)
(* list_files.c the purge uses.  Levels, which only decide whether there   *)
(* is a message at all, are left out.                                      *)
(*                                                                         *)
(* Each action is what happens between two readings of the clock; time may *)
(* pass between them.  A file is its base name with the start of its       *)
(* period, or with -1 if it is not dated: the printed date tells periods   *)
(* apart, since the format gets finer with the cycle.                      *)
(***************************************************************************)
EXTENDS Integers, FiniteSets, Functions

CONSTANTS
    Bases,          \* base names of logs
    Cycle,          \* the cycle each base is dated with
    Keep,           \* seconds, or cycles, after which a file is purged
    NULL, FREED,    \* the nil pointer, one to memory that was freed
    STDERR,         \* the standard error, which is no file
    LIST_MAX,       \* what a list of files has room for: 1024
    MaxTime,        \* bound on the clock
    MaxStall        \* bound on the time that passes within one call

ASSUME BleatAssumption ==
    /\ Cycle \in [Bases -> Nat \ {0}]
    /\ Keep \in Nat
    /\ {LIST_MAX, MaxTime, MaxStall} \subseteq Nat

Dated == {<<b, p>> : b \in Bases, p \in 0 .. MaxTime}
Plain == {<<b, -1>> : b \in Bases}
Files == Dated \cup Plain

ASSUME NoNameAssumption == NULL \notin Bases /\ {NULL, STDERR} \cap Files = {}

VARIABLES
    now,        \* time()
    log,        \* NULL, STDERR or the file that is open
    base,       \* fname_base
    cycle,      \* log_cycle
    flip,       \* time2flip
    purge,      \* base name whose dated files are purged; NULL, FREED
    disk,       \* the log files and their modification times
    pc,         \* "idle", or what the running call does next
    call        \* the call of bleat_set_log: base, cycle, period, began, roll

logvars == <<log, base, cycle, flip>>
vars == <<now, logvars, purge, disk, pc, call>>

NoCall == [base |-> NULL, cycle |-> 0, period |-> -1, began |-> 0, roll |-> FALSE]

\* There may be files of earlier processes, which wrote to them in their period.
Init ==
    /\ now = 0
    /\ log = NULL /\ base = NULL /\ cycle = 0 /\ flip = 0
    /\ purge = NULL
    /\ disk \in {[f \in fs |-> 0] : fs \in SUBSET {<<b, 0>> : b \in Bases}}
    /\ pc = "idle"
    /\ call = NoCall

Period(c) == now - (now % c)

-----------------------------------------------------------------------------
(* bleat_set_log.                                                          *)

\* The name "stderr".
SetStderr ==
    /\ pc = "idle"
    /\ log' = STDERR /\ base' = NULL /\ cycle' = 0 /\ flip' = 0
    /\ UNCHANGED <<now, purge, disk, pc, call>>

\* A dated log: the base is replaced, add_date reads the clock for the name.
BeginSetLog(b, c, roll) ==
    /\ base' = b
    /\ call' = [base |-> b, cycle |-> c, period |-> Period(c), began |-> now, roll |-> roll]
    /\ pc' = "flip"
    /\ UNCHANGED <<now, log, cycle, flip, purge, disk>>

SetDated(b) == pc = "idle" /\ BeginSetLog(b, Cycle[b], FALSE)

\* get_flip_time: the end of the period, from a reading of its own.
GetFlipTime(c) == Period(c) + c

SetFlip ==
    /\ pc = "flip"
    /\ flip' = GetFlipTime(call.cycle)
    /\ cycle' = call.cycle
    /\ pc' = "open"
    /\ UNCHANGED <<now, log, base, purge, disk, call>>

\* A log without a date is opened at once: base, cycle and flip stay.
SetPlain(b) ==
    /\ pc = "idle"
    /\ call' = [NoCall EXCEPT !.base = b, !.began = now]
    /\ pc' = "open"
    /\ UNCHANGED <<now, logvars, purge, disk>>

CallFile == <<call.base, call.period>>
AfterOpen ==
    IF call.roll THEN pc' = "purge" /\ call' = call ELSE pc' = "idle" /\ call' = NoCall

\* fopen for appending: a new file is made, one that is there is not modified.
Open ==
    /\ pc = "open"
    /\ log' = CallFile
    /\ disk' = [f \in DOMAIN disk \cup {CallFile} |-> IF f \in DOMAIN disk THEN disk[f] ELSE now]
    /\ AfterOpen
    /\ UNCHANGED <<now, base, cycle, flip, purge>>

\* fopen fails: the old log stays open; the base of a dated one is gone, the
\* time of the next roll is not.
OpenFails ==
    /\ pc = "open"
    /\ base' = IF call.period = -1 THEN base ELSE NULL
    /\ AfterOpen
    /\ UNCHANGED <<now, log, cycle, flip, purge, disk>>

-----------------------------------------------------------------------------
(* bleat_set_purge.                                                        *)

\* The old names are freed first; freeing what was freed before may do harm.
SetPurge(b) ==
    /\ pc = "idle"
    /\ purge' = b
    /\ pc' \in IF purge = FREED THEN {"idle", "crashed"} ELSE {"idle"}
    /\ UNCHANGED <<now, logvars, disk, call>>

\* No names given: it returns when the old ones are freed.
ClearPurge ==
    /\ pc = "idle"
    /\ purge' = IF purge = NULL THEN NULL ELSE FREED
    /\ pc' \in IF purge = FREED THEN {"idle", "crashed"} ELSE {"idle"}
    /\ UNCHANGED <<now, logvars, disk, call>>

\* list_pfiles: the dated files of the base, or nothing if they are too many.
Listed ==
    LET matching == {f \in DOMAIN disk : f[1] = purge /\ f \in Dated}
    IN  IF Cardinality(matching) >= LIST_MAX THEN {} ELSE matching

\* Faulty variant: the new files are listed.
Stale_New(f) == disk[f] > now - Keep

\* rm_new_files leaves what was modified before that.
Stale(f) == disk[f] < now - Keep

\* purge_old_files, after a roll.
Purge ==
    /\ pc = "purge"
    /\ IF purge = FREED
       THEN disk' = disk /\ pc' \in {"write", "crashed"}
       ELSE /\ disk' = Restrict(disk, DOMAIN disk \ {f \in Listed : Stale(f)})
            /\ pc' = "write"
    /\ UNCHANGED <<now, logvars, purge, call>>

-----------------------------------------------------------------------------
(* bleat_printf.                                                           *)

\* The message goes to the open log, also to one that is no more on the disk.
Say(f) == disk' = IF f \in DOMAIN disk THEN [disk EXCEPT ![f] = now] ELSE disk

\* Faulty variant: the log is opened again before the end of the period, too.
RollDue_Early == flip # 0 /\ flip < now + 2

RollDue == flip # 0 /\ flip < now

\* The first message of all: the log is stderr, whatever was set.
BleatFirst ==
    /\ pc = "idle" /\ log = NULL
    /\ log' = STDERR
    /\ UNCHANGED <<now, base, cycle, flip, purge, disk, pc, call>>

BleatNow ==
    /\ pc = "idle" /\ log # NULL /\ ~RollDue
    /\ Say(log)
    /\ UNCHANGED <<now, logvars, purge, pc, call>>

\* The time has come: set the log again, with a copy of the base.
BleatRolls ==
    /\ pc = "idle" /\ log # NULL /\ RollDue /\ base # NULL
    /\ BeginSetLog(base, cycle, TRUE)

\* There is no base to copy.
BleatCrashes ==
    /\ pc = "idle" /\ log # NULL /\ RollDue /\ base = NULL
    /\ pc' = "crashed"
    /\ UNCHANGED <<now, logvars, purge, disk, call>>

BleatRolled ==
    /\ pc = "write"
    /\ Say(log)
    /\ pc' = "idle"
    /\ call' = NoCall
    /\ UNCHANGED <<now, logvars, purge>>

-----------------------------------------------------------------------------
\* A second passes; a running call is not held up for more than MaxStall.
Tick ==
    /\ now < MaxTime
    /\ pc # "crashed" /\ (pc # "idle" => now - call.began < MaxStall)
    /\ now' = now + 1
    /\ UNCHANGED <<logvars, purge, disk, pc, call>>

Ended == (pc = "crashed" \/ now = MaxTime) /\ UNCHANGED vars

Next ==
    \/ SetStderr \/ SetFlip \/ Open \/ OpenFails \/ ClearPurge \/ Purge
    \/ \E b \in Bases : SetDated(b) \/ SetPlain(b) \/ SetPurge(b)
    \/ BleatFirst \/ BleatNow \/ BleatRolls \/ BleatCrashes \/ BleatRolled
    \/ Tick
    \/ Ended

Spec == Init /\ [][Next]_vars

-----------------------------------------------------------------------------
(* Properties.                                                             *)

\* Messages go to the file of their period, or at the latest to that of the
\* period before and the one second after: more than that the late comparison
\* and the two readings of the clock in bleat_set_log cannot add up to.  A roll
\* never opens the file that is open.
InTime(f) == now >= f[2] /\ now <= f[2] + 2 * Cycle[f[1]]
RollsOnTime ==
    [][ base # NULL /\ log \in Dated =>
            /\ BleatNow \/ BleatRolled => InTime(log)
            /\ BleatRolls /\ log[1] = base => Period(cycle) > log[2] ]_vars

\* The purge after a roll takes neither the file the roll opened, however long
\* purge_old_files is held up, nor one that SetDated found from an earlier
\* process: messages are not written to a file that is no more there.
OpenLogStays == pc = "idle" /\ base # NULL /\ log \in Files => log \in DOMAIN disk

\* bleat.c at the test: "first bleat after flip time, close and reoopen the log".
\* When a flip time is set, there is a base to open the log again with.
RollHasBase == pc = "idle" /\ flip # 0 => base # NULL
=============================================================================
