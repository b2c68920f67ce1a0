# Verification of the vfd gadgets: gobbler and its library

This directory holds TLA+ models of `src/src/gobbler` (a DPDK packet gobbler) and
of the parts of `src/src/lib` that keep state, the TLC configurations that check
them, and TLAPS proofs about them. Paths below are relative to `src/src/`.
`PROJECT.json` maps each definition to its lines of code, and lists the runs, a
mutant for each checked property, the hazards of the code and the theorems.

## 1. The system

`gobbler` reads a json configuration, starts a set of network interfaces
through DPDK and runs one thread per core of a mask. A thread receives
packets and drops them, returns them to the sender or forwards them. It ends on
SIGINT or SIGTERM.

| Part | Code | State | Operations | Modules |
|---|---|---|---|---|
| packet loop | `gobbler/gobbler.c` 320-580 | indices, clocks, write count and DPDK buffer of each tx interface | flush pass, receive pass, transmit, stats, stop | `Gobble` |
| counters | `gobbler/gobbler.c`, callback registered in `init.c` | rcount, tcount, drops, `if_stats_t` | each flush, poll, forced flush | `TxAccounting`, abstract: `Ledger` |
| mac/vlan rotation | `gobbler/gobbler.c` 113-146 | one index in each set | `get_mac`, `get_vlan` | `Rotation` |
| packet rewriting | `gobbler/gobbler.c` 150-300, 480-545 | the packet in hand of each thread | `swap_mac_addrs`, `push_mac_addrs`, `insert_vlan`, `push_mac_vlan` | `Transmit`, on `Rotation` |
| configuration, context | `gobbler/config.c`, `init.c` | config_t, context_t | `read_config`, `dig_tx_info`, `map_port`, `mk_context` | `Context` |
| command line | `gobbler/crack_args.c` | place in the words, options | `crack_args`, `get_nxt` | `CommandLine` |
| process life cycle | `gobbler/gobbler.c` main, `init.c`, `tools.c` | interface flags, macs, started ports, threads, run flag | options, DPDK, start, wait for links, launch, join, stop | `Lifecycle`, on `Context` and `CommandLine` |
| json wrapper | `lib/jwrapper.c` | symbol tables of a parse | `jw_new`, lookups, `jw_nuke` | `Jwrapper`, documents: `JsonDoc` |
| fifo and flow manager | `lib/fifo.c`, `ng_flowmgr.c` | referenced buffer, kept partial record, the text of a call and its count | `rfifo_read`, `rfifo_readln`, `ng_flow_get`, `ng_flow_ref` | `Fifo` |
| symbol table | `lib/symtab.c` | chains of elements, their count | put, map, fmap, get, del, clear, foreach_class | `Symtab`, abstract: `SymMap` |
| log writer | `lib/bleat.c` | open log, base name, flip time, purge names | `bleat_set_log`, `bleat_set_purge`, `bleat_printf` | `Bleat` |
| directory lists | `lib/list_files.c` | none | `list_pfiles`, `rm_new_files` | in `Bleat`, as part of a purge |
| daemonise, DPDK arguments | `gobbler/init.c` | none | run once | in `Context` and `Lifecycle`: what can end the process |
| mac pushing and formatting | `gobbler/init.c`, `tools.c` | macs of the ports | `push_default_mac`; conversions | pushing in `Lifecycle`; conversions not modelled |

**How the parts interact.** `main` calls `crack_args`, `read_config` and `mk_context`; the
context is *shared by all threads* and never locked. Each thread runs `gobble` until
the global `ok2run` is cleared by the signal handler. The thread hands packets to
DPDK's transmit buffer, which may flush by itself and then calls back a counter
that the thread also writes. Everything logs through `bleat`, from the handler too.
The json wrapper keeps its result in symbol tables. The fifo reader uses the flow
manager; nothing in gobbler uses these two.

**What is hard here.** Two counts of one buffer, kept by two parties; one drain
clock for all interfaces; threads sharing an index; signals at any stage; start
and stop of interfaces listed twice; negative lengths where an array is missing; sets
matched to devices by the place in three arrays; a flag that stands for two states of a packet;
tokens skipped by rules that differ by kind; records
cut anywhere by `read()`; deletion under a walk; a log that rolls by
two readings of a clock, and may fail to. The `hazards` of `PROJECT.json` give
the line of each and the properties that cover it.

**What makes each part correct**, in short: the loop neither strands nor overruns a
buffer, drains and stops; the counters explain every packet; a packet leaves with the addresses and
the tag asked for; each option letter gets its own word; a context satisfies what
the loop assumes of it, and its sets are those of their devices; ports are up while a thread
uses them and down at the end; the tables of a document say what it says and are freed once;
the fifo returns the lines written, and says how when it cannot; the table is a map; a message goes to the log
of its period.

## 2. The modules and the code

Each module names, in front of each definition, the function it is; here is how they
are meant to be read.

* **`Gobble`**: one action per part of the body of `while( ok2run )`, in its order:
  `LoopTop` (clock), `FlushStep`/`SkipFlush`/`FlushDone` (442-449), `RxPoll`
  (454-463), `TxBuffer`/`TxBufferFull`/`FreeBurst`/`BurstDone` (the switch), `Trash`
  (549-558), `PrintStats`/`SkipStats`. `TxBufferFull` is the packet that fills DPDK's
  buffer: it is emptied, and the loop's `bwrites` is not. The clock is relative: `age`
  is `this_clock - last_clock` up to one more than `drain_delay`, which is all the code compares,
  so the state space is finite without a bound on time. Packets are counted, not named.
* **`TxAccounting`** extends `Gobble`: each action is the loop's action *and* what it
  does to the counters. `given`, `lost` and `freed` are what really happened.
* **`Ledger`** is what `TxAccounting` is to implement: a packet is received, then settled
  once. The refinement mapping is `Ledger_` in `TxAccounting`.
* **`Rotation`**: the four accesses of `get_vlan` and `get_mac` to the shared index, per thread.
  `disturbed` records that another thread wrote the index since this one's test.
* **`Transmit`** extends `Rotation`: each thread takes a packet, asks the lists its mode needs (in either
  order: they are arguments of one call), rewrites it and gives it to the buffer. A packet is two addresses and the 16 bit
  words behind them, so that a header that is moved, or not moved, shows. `Wire` is what the
  hardware makes of the offload flags.
* **`Context`**: pure operators, json to `config_t` to `context_t`. Json is a value of
  kind array or other, because `jw_array_len` gives -1 for all else. `Pool` gives what the
  loop of `mk_context` around the allocation ends with. `UNSET` is memory that was never written.
* **`CommandLine`**: the two loops of `crack_args`, a word or a letter at a time. `Meant`
  is the reference: what a line of clusters, each followed by its words, asks for.
* **`Lifecycle`** extends both: `main` from its first line to its return. `CrackArgs` is one step of
  the scan; `ArgsDone`, `InitialiseDpdk` and `MkContext` have every way in which the start may end. `StartIface` is
  one interface of `start_ifaces` with its default mac, `LinksRound` one round of `all_links_up`,
  `StopIface` one interface of `stop_all`. A thread is in its loop or has returned:
  what the loop does is `Gobble`, and `ContextSound` is the assumption `Gobble` makes of
  its contexts. A port is down unless it was started; starting a started one fails.
* **`Jwrapper`**: `parse_jobject` with a frame per call in progress, one action per token handled
  (`i` and `n` move as in the code), every lookup as an operator on the tables, and `jw_nuke` with
  `nix_things`, one table per step. Tables and texts count how often they were freed. `of` of a table is
  a history: the token of the object it is for. The parser that makes the tokens is
  external, and a constant operator: `TokensAssumption` says that tokens nest. What a document says is
  told from the tokens alone: `Fields` of an object are the values in it and in objects that are among them,
  `PathOf` the name a field is found under, and `FieldShown` compares every lookup with the value.
* **`JsonDoc`** extends it with documents as trees and the tokens the parser makes of them, for TLC.
* **`Fifo`**: `FlowGet`/`FlowNone` are `ng_flow_get` finding a record or not,
  `ReadRecord`, `ReadLine`, `NoRecord`, `ReadSome`, `ReadNone` the loop of the two
  calls. A call whose text, with its NUL, is longer than the buffer is `"wild"`, as is one that is given a string without an
  end: nothing is claimed of what follows. `tlen` leaves out the newlines, as in the code. `due` (written, and not yet handed out
  or dropped) and `took` (handed out to the call) are histories for the properties.
* **`Symtab`**: a bucket is the sequence of its elements. The memory of values, and the flag that says whether they are freed, are left out. `WalkOn` is one round of
  `sym_foreach_class`, `Callback` the user's function, which may delete the element it is given.
* **`SymMap`** is what `Symtab` is to implement, mapped by `sym_get`: a delete takes the key it names. `ImplementsMap` says which
  operation of the map each operation of the table is, and when a delete is that of another key.
* **`Bleat`**: one action between each two readings of the clock or attempts to open a file;
  time passes between them, up to `MaxStall`. A file is a base and the start of its period.
* **`MC*`** give TLC the contexts, packets, configurations, documents and keys.
* **`*_proof`** hold the theorems; `DataLemmas` the lemmas on sums, sequences and counts that they share.

Definitions marked "Faulty variant" stand in front of the definition they are a
variant of. No specification uses them. They are the mutants of `PROJECT.json`: for each checked property,
a change of the code that TLC then finds by it.

## 3. The runs

| Run | Shows | States |
|---|---|---|
| `gobble` | the loop's type invariant; no packet stranded (`WritesCoverBuffer`); room for a full burst after each flush pass; nothing overdue left; write count bounded; the thread stops; a lone tx interface always drains; all drain when it is quiet; stats appear on an idle last device | 63 039 |
| `slow_if` | **violation**: two slow interfaces, one starves (`PeriodicFlush`) | |
| `accounting` | each interface's statistics balance; totals are the sums; `drops` claims no drop too many; the ledger is implemented | 647 828 |
| `drops` | **violation**: drops of forced flushes are not in the total | |
| `transmit` | in each mode, packets of each kind leave with the addresses and the tag asked for, payload untouched, one or two threads sharing the lists; an index overruns only when another thread wrote it between test and load; one thread alone takes the items in turn | 5.65 million |
| `lifecycle` | from the command line to the exit: options as meant; sound contexts, large enough pools, distinct ports, sets that are their device's; truthful running flags, ports up under threads, clean exit, every signal ends the process | 108 848 |
| `links` | **violation**: launched with links down | |
| `jwrapper` | no token outside the text read; every lookup in every table says what the document does; no table used after it was freed; all freed once | 302 851 |
| `fifo` | each line handed out is the next one written, however it is cut; only lines that are too long are dropped; a buffer is overrun only by such a line or in a block of several lines; what a call took is what it returns; a call returns if writing pauses or lines end | 58 968 |
| `symtab` | keys unique and in their bucket; walks survive deletion; each operation is that of a map, but for a delete where another element comes first | 5 002 |
| `bleat` | the open log is never purged; messages go to their period's file within two cycles; rolls never reopen the same file | 4.76 million |
| `bleat_roll` | **violation**: a flip time without a base | |

### The bounds, and why they are enough

* `Gobble`: bursts of up to 3 (2 in `slow_if`), buffers of twice that (as `start_one_iface` makes them), so
  a buffer can be below, at and above the threshold and fill within a pass; delays 2
  and 3 ticks with steps of 1 to 4, so a delay may be not reached, reached exactly or passed. The
  contexts have none, one and two tx and one to three rx interfaces: no transmission,
  duplicated, as many, fewer (several bursts into one buffer in a pass) and more (the rotation
  spans passes). No packet bound, so liveness is checked over unbounded traffic.
* `TxAccounting`: at most `MaxRx` = 6 packets in all, with buffers of 4: enough for a forced flush, a
  regular flush of a partial buffer and a forced one again on the same interface.
* `Transmit`: two threads (symmetric), lists of none to two items, ids 0 (no tag) and 9, three packets
  of six kinds: untagged, multicast, tag stripped, tag marked stripped but there, tagged, a
  tag of id 0 stripped. Three packets let one thread go once around a list while the other is
  between two accesses. The run ends when the packets are sent, so deadlock is not checked.
* `Lifecycle`: every pairing of 7 rx lists (missing, empty, one, two, one twice, unknown, an element
  that is no name) with 8 tx lists (missing, with and without sets, elements that are no
  objects, names missing), duplicated or not, 3 modes; 3 masks (missing, one core, first byte
  zero) with and without huge pages; 10 command lines with one of these; 5 systems: memory for the pool, just for a
  reduced one, for none, one port or three. `POOL_STEP` is 2 for 512, `LINK_ROUNDS` 2
  for 200: two suffice to tell first, later and last apart; `ARGV_LEN` 18 for 64 lets
  some configurations fit and others not, and `TX_PLACES` is 18 for 64, since both have one length in the code.
* `Jwrapper`: each kind of value in each kind of container, alone, first or last, up to four levels,
  names given twice, and odd documents: not json, names that are no strings or lack a value, names the tables
  use. Every way of stepping over a token is taken from every kind of token to every other. A document that was nuked or could not
  be parsed is the end, so deadlock is not checked.
* `Fifo`: buffers of 4 characters and a pipe that holds 5: lines shorter than, equal to and longer
  than a buffer, blocks of one line and of more, in any pieces; two lines of one character and the newlines between and behind
  them are as long as a buffer. How much is written in all has no bound, so the liveness is that of a writer that goes on.
  The properties tell text from newlines only.
* `Symtab`: three names in one bucket, one bucket empty, two classes, two values, at most four
  elements: every order of elements in which a wrong one can be hit. Names, values and
  classes are symmetric (the names have the same hash).
* `Bleat`: one base, cycle 2, kept 3, 9 seconds, calls held up for up to 2 (a whole
  cycle), lists of at most 2 files (`LIST_MAX` is 3 for 1024): four periods, so files
  get old enough to go while the log rolls on. These values meet the hypotheses of the theorems
  (section 4) with nothing to spare.

### Fairness

`Gobble` assumes weak fairness of the thread's steps together: the thread has a core
to itself and nothing in its loop blocks. Nothing is assumed of packets, the signal or
which traffic comes. `Lifecycle` assumes it for `main` and for each thread. That a thread whose
flag is cleared returns is `StopsWhenTold` of `Gobble`. `Fifo` assumes it of the
running call, whose descriptor does not block; no one needs to call or write. `CallsReturn` has a premise on the writer, which is another
process: that there is no writing from some point on, or that newlines keep coming. Without it a call need not return: `rfifo_read`
(128-150) and `rfifo_readln` (175-186) both read on for as long as someone writes one line without an end. The other
modules state no liveness.

### What the violations show

1. `slow_if` (gobbler.c:447): `last_clock` is shared by all tx interfaces and restarts
   when any is flushed, so "ensure periodic flush when slow" (444) fails with two. It holds
   with one (`OneTxDrains`) and when no more packets come (`DrainsWhenQuiet`).
2. `drops` (gobbler.c:524): "total drops across all interfaces" misses what DPDK drops
   in a flush of its own. It never claims too much (`DropsSound`).
3. `links` (tools.c:325, 338): `! (flags | IFFL_LINK_UP)` is never true, so no
   link is asked about. After the last round the function also returns 1.
4. `bleat_roll` (bleat.c:265): when a dated log cannot be opened its flip time stays without a
   base; the first message after it copies a nil pointer (305).

### Other divergences met

These are in the models as the code has them, or outside, and have no run of their own.

Loop and packets:

* Two threads can take an item from behind a list (gobbler.c:127, 144). `OverrunNeedsAnother` says when.
* A frame whose stripped tag had the id 0 looks like one whose tag is still there, and loses its type
  and two bytes (gobbler.c:215). `TaggedAsAsked` leaves it out by `TagIsThere`. With `-e` off, `Wire`
  assumes the hardware to insert the tag of the flags.
* `gobbler/README.md` 193-194 says that "The MAC array is also used when xmit_type is set to rts"; the branch
  for that mode (gobbler.c:483) never asks `get_mac`, and the packet leaves from the address it came to. `AddressedAsAsked` says
  nothing of the source address in that case (`RtsWithMacs`): it is not shown that README and code agree, they do not.
* Packets left in buffers at the end are not sent.

Configuration and life cycle:

* The memory of the pointers to sets is not cleared: `memset` has the size of one pointer for 64 (config.c:218, 221). The second
  device without an array gets what the memory held, while `gobbler/README.md` 214-216 makes the default
  id the one to use "when there is no array given". So `SetsAsConfigured` claims it of the first device only: the pointers of the
  others that have no array, and the elements of a set that are skipped, which are to be left 0 (config.c:264), are left out of it, and
  `StartCrashes` lets the process end on them.
* Macs of a tx device that is not also an rx device are never used (init.c:496). Duplicating accepts
  a list of tx devices shorter than that of rx devices, where `gobbler/README.md` 176-178 says that they must match. The promiscuous flag does not reach the context.
* An element of `rx_devs` or `tx_devs` without a name is compared as a nil pointer (init.c:330): `MapReadsNil`.
* `rx_ifs` and `tx_ifs` have 10 places (gobbler.h:238-239); the room for DPDK's arguments ends only a process with about 25 devices.
  The models' lists are as long as need be: of configurations with more than 10 devices in a list they, and the theorems about contexts and ports, say nothing.
* `count_bits` (tools.c:73) does not get past a zero byte. A mask without a core in its lowest byte counts as none.
* `dig_tx_info` takes a `-1` from a missing array; so `ntxifs` is -1 and the loop drops.
* The pool loop (init.c:550-553) never tries exactly `mb_need`, only more, unless it is the first try.
* A simulation that succeeds exits with status 1. `-n` leaves DPDK alone, so that there are no ports
  and the process exits with 1. Words after the first that is no option are ignored.
* After a failing start, `rte_exit` leaves the ports that did start as they are.

Json wrapper:

* A nested parse that fails frees the table of its caller, which goes on to use it (jwrapper.c:233, 235).
* An object `a` puts its text under `a_json` and its fields under `a.b`: a field that has such a name replaces it, or is replaced (`NoClash`). The first value of a name given twice is lost.
* An array in an array moves the index of the outer one wrongly (306). No token outside is read; its values are those of other elements.
* The table leaks when the root is no object; a text with a token error may give an empty table. `jw_is_null_ele` returns -1 for a nil table.

Library:

* `sym_del` (symtab.c:281) stops at the first element *of the class* in the bucket
  because of an `&&` for an `||`, while 268 says "delete a named element". `Symtab`
  has the loop as written, and `SymMap` what 268 says. `ImplementsMap` tells the two apart: a delete is the map's unless
  an element of the class with another name stands before the named one, or the named one is not there (`AnotherFirst`). Then
  exactly one such element goes, and the named one stays. Even so, the uniqueness of keys and walks stay right.
* The free flag of an element is decided when its key is first put (symtab.c:153), not when
  another mode replaces its value: user data can be freed, or a copy leaked. The memory of values is not modelled; within `src/` only
  `sym_fmap` is used, and what it maps is freed by `jw_nuke` (`Jwrapper`).
* "the application can issue a read block and get a block, or get nothing" (fifo.c:32-34): when nothing more can be read
  `rfifo_read` returns the lines of the block that came so far (146), and the rest of it is another block later. `ReturnsWhatItTook`
  names this as one of the ways a call may return.
* "buffer overrun avoided" (fifo.c:140): the count leaves out the newlines (131, 138), and room is made for one only (139), so a block of
  several short lines can be longer than the buffer; `rfifo_readln` compares nothing (177-178), and a line of 8191 characters with its
  newline and NUL is one too long; a line for which the flow has no room behind what it kept comes without an end (ng_flowmgr.c:173-175).
  `OverrunNeedsLines` says that there is no other way.
* What is behind the end of a block that was too much is returned as a block of its own, and of that line nothing.
* `bleat_set_purge` to clear (bleat.c:191-192) frees the names and keeps the pointers.
  The prefix purged is always `gobbler.log.` (gobbler.c:619), the default log another name (config.c:367).
  A log without a date, opened after a dated one, rolls back to that one.
* A roll that cannot open the new file leaves the old one open, and the purge after it
  may take that one; `OpenLogStays` is for a log whose roll succeeded.

## 4. What is proved

TLAPS checks these for every value of the constants.

* **`Gobble_proof`** from `ContextAssumption` and `DelayAssumption`.
  `TypeCorrect`: `TypeOK` is inductive; that indices of the circular choice stay in range is what makes the
  buffer updates typed. `NothingStranded`: `TypeOK /\ WritesCoverBuffer` is inductive, since each step
  that adds to a buffer counts it and each step that resets the count empties the buffer.
  `FlushMakesRoom` and `NoneLeftOverdue`
  are not inductive: they speak of the end of the pass. The strengthening
  `FlushProgress` says of every interface the pass has gone by that it has room, and is empty
  if the drain is still overdue. `WritesStayBounded` needs `TurnsTaken`: how many polls of this pass went to an
  interface can be told from where the circular choice stands, which is why none gets more than its share
  (lemma `DivideUp`).
* **`Gobble_proof`**, second part: `CountersTyped`, `EveryInterfaceBalances`, `TotalsAreSums`, `DropsAreReal` and the refinement
  `KeepsTheLedger`. A lemma maps every step of `TxAccounting` to a step of `Gobble`, so that its invariants are reused.
  A sum over the interfaces changes by what one of them changes by (`DataLemmas`, by induction on the finite
  set it is over), which gives the totals, and with the balance of each interface the total the ledger asks for. Totals, drops and the ledger's
  move are proved together, step by step (`StepTotals`).
* **`Rotation_proof`**: `OverrunExplained`, for any number of threads: an item from behind the list is only
  taken by a thread whose index another wrote since its test. `OneThreadRotates`, with a single thread the items are taken in turn.
  `TransmitRotates` is the refinement: every step of `Transmit` is a step of `Rotation` or leaves it alone.
  `AddressesAreRight`: the source address is the one taken for this packet, although
  the lists are shared, since what was taken is the thread's own. `TagsAreRight`, from `PacketsAssumption` (a frame is long enough for
  a type behind its tags, as ethernet frames are) and `VlanIdsAssumption`: each way of rewriting the words in front leaves the type
  and all behind it in their order, behind the one tag asked for.
* **`Lifecycle_proof`** from assumptions on the inputs: json values are lists or are none (`ConfigsAssumption`), each port of a system has
  a mac (`SystemsAssumption`) and an address of its own (`PciIdsAssumption`), a line is in groups (`LinesAssumption`),
  pointers to copied lists differ from the marks for none and for memory never written (`PointersAssumption`), and
  the places for tx sets are as many as those for DPDK's arguments, 64 and 64 (`RoomAssumption`).
  `ContextIsSound`, `PoolIsEnough` (the least a
  reduced pool can be, from lemma `PoolEnough`), `DevicesAreMapped`: the code only counts the ports that
  found a device. With distinct addresses each such port has a different place of the list, and
  an injection between sets of one size meets them all (`AllMapped`). Then `RunningTellsTheTruth` by
  `FlagsInv`, which adds that two different running interfaces never have a port in
  common, because starting a started port fails; without that, stopping one would make
  the other's flag wrong. `PortsStayUp` by `ThreadsInv`: ports of all interfaces before
  `cur` are started while starting, and threads loop only in the stage "gobble". `EndsClean` by `StopInv`: while
  stopping, every started port belongs to a running interface that `stop_all` still has to visit.
  `SetsAreRight`: each device uses up two of the places for DPDK's arguments, so a configuration whose arguments fit has
  fewer devices than places for sets (`DevicesFit`); the sets of an interface are then those at its device's place (`OriginInv`),
  and its macs change once, when it is started, by the address of a port no other interface has (`MacsInv`).
  `OptionsAreMeant`: the invariant `LineInv` says at which letter of which group the scan is, how many words it has
  taken, and that the options are those the letters up to there ask for. It rests on where the groups begin among the words
  (`LayoutExists`) and on how many words the letters before one take (`ReadGroup`, `ReadLetter`).
* **`Symtab_proof`** from `HashAssumption` and `NilAssumption`: `KeysStayUnique`, `WalksSurvive`,
  and `TableIsMap`: each operation is the map's, or, for a delete where another element comes first, the map's for that other key. The invariant `SymInv` adds to the uniqueness of keys where a walk is:
  the element in hand is in the bucket of the walk unless the callback deleted it (`InHand`), the saved one is the next of
  the class behind it (`SavedInList`). That deletion takes
  an element other than the saved one rests on uniqueness, since the code deletes by name.
* **`Fifo_proof`** from `BufSizeAssumption` and `CharAssumption`: `RecordsSurvive`, `OnlyLongLinesLost`, `OverrunsNeedLines` and
  `CallsReturnWhatTheyTook`. The invariant `AllThere` says that what is kept, left in the buffer and left in the pipe, joined in this order, is what
  is due, and `FifoTypes` that what is kept has no newline. So the record the flow gives is the first line due (`NextLine`, from `LineOf`), and what it drops is
  the start of one (`LongStart`). `CallInv` relates the text of the running call to what it took: it is the same less the last newline, has no empty
  line, and is no longer than the count if it is of one line (`Holds`), which is why one line cannot overrun it.
* **`Jwrapper_proof`** from `TokensAssumption`: `NoTokenOutside`, for any tokens that nest, those of documents the code cannot
  handle included. `i` and `n` together move by one for a string, past an object for an object, and by the number of its elements
  for an array in an array, so that the loop may then look at tokens that are no elements. The invariant `CallsOK` counts: as many tokens as
  the loop has still to look at are ahead of it in the text of the call, those inside objects ahead not counted
  (`Ahead`). The elements of the array are such tokens (`AheadStarts`), moving on by some loses no more than these
  (`AheadMoves`), and skipping an object loses one, however far it gets (`AheadSkips`).
  `NothingFreedIsUsed`, for documents that can be handled (`Handled`: names are strings, arrays are not nested), by `SafeInv`.
  While parsing, each call stands at a name, which is a part of its object with an even number of parts before it, at a
  value, with an odd number, at element `n` of an array, or past its last name (`PositionOK`). So `parse_jobject` meets
  nothing that makes it fail, and frees no table. Each table is led to from one place of one earlier table (`Forest`), also when a
  field is given twice and the first value's table is lost. So `jw_nuke`, whose calls are for different tables that are not freed,
  comes to tables no call was for: what is left to do in a table, and what an unvisited table leads to, is unvisited
  (`NukeOK`). TLC found `SafeInv` to hold of the documents of run `jwrapper` before it was proved.
* **`Jwrapper_proof`**, second part, from `NilAssumption` too: `LookupsAreRight` and `AllIsFreedOnce`, for documents that can be
  handled, by `SaysInv`, which TLC found to hold of small documents first. While parsing, it has four parts. Calls have the names of their fields (`CallsNamed`):
  the prefix of a call is the path of the object it is in, and the calls for one table wait at objects around each other.
  Tables say what calls have come to (`Filled`): a field is *done* when no call for its table has it ahead, and of fields
  of one name the entry is for the last one done, where an object is done after all that is within it, since `parse_jobject` maps
  it after its fields. An array in hand has its first `n` elements.
  What is in tables is in one only (`Holds`): a text is under one name of one table, and while no
  name is given twice, every table but the first is led to and every text is in a table, because no entry
  replaces another. While nuking (`Emptied`) nothing was freed twice, a text is freed with its table, what a freed table
  leads to is freed, and what a call has gone past is freed or the next call's, so that in the end none is left. `Forest` gives
  that each has one place, `NukeOK` that each is visited once.
  `LookupsAreRight` has one more hypothesis, `NilIsNoThing`: no thing is the nil pointer. It is one of the theorem and not of the
  model because it speaks of all records, so that TLC cannot evaluate it.
* **`Bleat_proof`** from `BleatAssumption` and `NoNameAssumption`, under two hypotheses on time.
  `LogsRollOnTime` needs `ShortStalls`: no call is held up for more than a cycle. The invariant says that
  the flip time is one or two cycles after the start of the log's period (`LogSound`, lemmas `FlipInStep`
  and `NextMultiple`: two multiples of the cycle less than two apart). `OpenLogIsKept` needs also
  `KeepsLongEnough`: a cycle and the longest stall together are at most a second more than what files are kept for. Without it a file that is
  opened again late in its period could be due for the purge of that same roll. A log kept for some days, with calls that last
  moments, meets both. A daily log with a `log_keep` of one day is at the edge: it meets them as long as no call is held up for more than a second.

**Induction.** The library's induction theorems are out of the prover's reach, as they take an operator. `DataLemmas` has
the induction that proofs here need in a form that takes a set: `AllNaturals`, that a set of naturals with 0 and with the successor of
each of its elements has them all, from the least natural it would lack, and `AllSubsets`, the same for
the subsets of a finite set. So sums, flattened sequences and selections, written
as recursive functions or in terms of one, are proved about.

**Only model-checked.** Liveness, which is out of the prover's reach: `StopsWhenTold`, `OneTxDrains`, `DrainsWhenQuiet` and
`StatsWhenIdle` of `Gobble`, `SignalEndsIt` of `Lifecycle`, `CallsReturn` of `Fifo`. Every other property of the passing runs is a theorem.

## 5. What is not modelled

* Conversions of macs to and from text, generated macs and the whitelist, log levels, mtu and memory settings, and
  the printing functions: straight line code without state that the properties tell apart.
  `lib_candidates.c` is compiled and not called.
* Walking a directory, the tokenizer, detaching (fork, setsid, the pid file), the text of DPDK's
  arguments: done once, sequentially, or I/O. What later code reads of their result, and what of them can
  end the process, is in `Context`, `Lifecycle`, `Jwrapper` and `Bleat`.
* Several threads in DPDK's own buffers with the loop's counts of them, and in bleat at once: undefined in the
  libraries, so that any outcome would have to be allowed. `Rotation` and `Transmit` have the data that gobbler itself shares.
* Reference, modification and death counts of the symbol table, only printed.
* `ng_flow_close`, `ng_flow_flush`, creating a fifo and `list_old_files`: not used, or not once a fifo is open.
* Failing allocations: the code looks at some of their results and ends as it does for a missing table or file.

## 6. Plan

Done, in order of importance: `Gobble`, `TxAccounting` with `Ledger`, `Context`, `CommandLine`, `Lifecycle`,
`Rotation`, `Transmit`, `Jwrapper` with `JsonDoc`, `Fifo`, `Symtab` with `SymMap`, `Bleat`; the proofs of section 4.

Left:

1. `list_old_files` and the suffix match, and `ng_flow_flush`, if a program comes to use them.
