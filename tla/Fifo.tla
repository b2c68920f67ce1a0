-------------------------------- MODULE Fifo --------------------------------
(***************************************************************************)
(* Reading requests from a fifo: rfifo_read and rfifo_readln (fifo.c) on   *)
(* top of the flow manager (ng_flowmgr.c), which cuts what read() returns  *)
(* into records and keeps a record that is not complete.                   *)
(*                                                                         *)
(* A character is NL or any other one, TEXT; there are no NUL characters.  *)
(* A head pointer that is nil and one at the end of the buffer behave the  *)
(* same: both are the empty sequence.  A call that writes past the end of  *)
(* its buffer, or reads a string whose end was not written, has undefined  *)
(* behaviour: pc is "wild" then, and nothing is said of what follows.      *)
(***************************************************************************)
EXTENDS Integers, Sequences

CONSTANTS
    NL, TEXT,       \* the characters
    BUF_SIZE,       \* RBUF_SIZE, the size of every buffer: 8192
    PIPE_SIZE       \* what the kernel holds for the reader at most

ASSUME BufSizeAssumption == BUF_SIZE \in Nat \ {0}
ASSUME CharAssumption == NL # TEXT

VARIABLES
    pipe,       \* what the kernel holds for the reader
    head,       \* flow: what is left of the referenced buffer
    partial,    \* flow: the start of a record whose end was not read yet
    pc,         \* "idle", the call that runs, "read" or "readln", or "wild"
    need,       \* the call has to read(): the flow gave it no record
    rbuf,       \* the string the call returns, also after it has returned
    tlen,       \* rfifo_read's count of what is in it
    due,        \* written, and neither handed out nor dropped (for the properties)
    took        \* handed out to the running or the last call: lines with their ends

flow == <<head, partial>>
call == <<pc, need, rbuf, tlen>>
ghosts == <<due, took>>
vars == <<pipe, flow, call, ghosts>>

Init ==
    /\ pipe = <<>> /\ head = <<>> /\ partial = <<>>
    /\ pc = "idle" /\ need = FALSE /\ rbuf = <<>> /\ tlen = 0
    /\ due = <<>> /\ took = <<>>

-----------------------------------------------------------------------------
(* The flow manager.                                                       *)

HasLine(s) == \E i \in 1 .. Len(s) : s[i] = NL
LineEnd(s) == CHOOSE i \in 1 .. Len(s) : s[i] = NL /\ \A j \in 1 .. i - 1 : s[j] # NL

Line(s) == SubSeq(s, 1, LineEnd(s) - 1)
Behind(s) == SubSeq(s, LineEnd(s) + 1, Len(s))

\* add2partial: n more characters fit; if not, all that was kept is dropped.
Fits(n) == BUF_SIZE - Len(partial) > n

\* Faulty variant: what is kept replaces what was kept before.
Keep_Replaces(s) == IF Fits(Len(s)) THEN s ELSE <<>>

Keep(s) == IF Fits(Len(s)) THEN partial \o s ELSE <<>>

\* ng_flow_get finds no end of record: keep what there is.
FlowNone ==
    /\ ~HasLine(head)
    /\ partial' = Keep(head)
    /\ head' = <<>>
    /\ due' = IF Fits(Len(head)) THEN due ELSE pipe
    /\ UNCHANGED took

\* The record ng_flow_get finds: the line, after what was kept of its start.  If
\* that is too much, the end of the string is not there: the caller gets what
\* was kept, and what memory holds behind it.
Rec == partial \o Line(head)
EndMissing == partial # <<>> /\ ~Fits(LineEnd(head))

\* Faulty variant: what was kept stays kept.
FlowGet_KeepsPartial ==
    /\ HasLine(head)
    /\ head' = Behind(head)
    /\ partial' = partial
    /\ IF EndMissing THEN UNCHANGED ghosts
       ELSE took' = Append(took \o Rec, NL) /\ due' = Behind(due)

\* ng_flow_get returns Rec.
FlowGet ==
    /\ HasLine(head)
    /\ head' = Behind(head)
    /\ partial' = <<>>
    /\ IF EndMissing THEN UNCHANGED ghosts
       ELSE took' = Append(took \o Rec, NL) /\ due' = Behind(due)

\* ng_flow_ref.
FlowRef(buf) == head' = buf

-----------------------------------------------------------------------------
(* The calls.                                                              *)

Call(c) ==
    /\ pc = "idle"
    /\ pc' = c
    /\ need' = FALSE /\ rbuf' = <<>> /\ tlen' = 0 /\ took' = <<>>
    /\ UNCHANGED <<pipe, flow, due>>

\* The string ends with a NUL.
Overruns(text) == Len(text) + 1 > BUF_SIZE

Goes(where, text) == pc' = where /\ rbuf' = text /\ tlen' = 0 /\ need' = FALSE

Return(text) == Goes("idle", text)

\* Faulty variant: the text may be as long as the buffer.
TooMuch_NoRoom(n) == n > BUF_SIZE

TooMuch(n) == n > BUF_SIZE - 2

\* rfifo_read gets a record.  The newline for the one before is put into the
\* buffer unseen.  An empty record ends the block; one that is too much with the
\* text so far, newlines not counted, is dropped and ends it too.
ReadRecord ==
    /\ pc = "read" /\ ~need
    /\ FlowGet
    /\ LET text == IF tlen > 0 THEN Append(rbuf, NL) ELSE rbuf
           n == tlen + Len(Rec)
       IN  IF EndMissing \/ Overruns(text) THEN Goes("wild", <<>>)
           ELSE IF Rec = <<>> \/ TooMuch(n) THEN Return(text)
           ELSE IF Overruns(text \o Rec) THEN Goes("wild", <<>>)
           ELSE rbuf' = text \o Rec /\ tlen' = n /\ UNCHANGED <<pc, need>>
    /\ UNCHANGED pipe

\* rfifo_readln gets a record: that is the line, with a newline.
ReadLine ==
    /\ pc = "readln" /\ ~need
    /\ FlowGet
    /\ IF EndMissing \/ Overruns(Append(Rec, NL)) THEN Goes("wild", <<>>)
       ELSE Return(Append(Rec, NL))
    /\ UNCHANGED pipe

\* The flow has no record: something must be read.
NoRecord ==
    /\ pc \in {"read", "readln"} /\ ~need
    /\ FlowNone
    /\ need' = TRUE
    /\ UNCHANGED <<pipe, pc, rbuf, tlen>>

\* read() returns what the pipe holds, up to a buffer of it.
ReadSome ==
    /\ need /\ pipe # <<>>
    /\ LET n == IF Len(pipe) < BUF_SIZE THEN Len(pipe) ELSE BUF_SIZE
       IN  FlowRef(SubSeq(pipe, 1, n)) /\ pipe' = SubSeq(pipe, n + 1, Len(pipe))
    /\ need' = FALSE
    /\ UNCHANGED <<partial, pc, rbuf, tlen, ghosts>>

\* Faulty variant: the call tries again, as with a descriptor that blocks.
ReadNone_Retries ==
    /\ need /\ pipe = <<>>
    /\ need' = FALSE
    /\ UNCHANGED <<pipe, flow, pc, rbuf, tlen, ghosts>>

\* Faulty variant: a block that is not complete is not returned.
ReadNone_Nothing ==
    /\ need /\ pipe = <<>>
    /\ Return(<<>>)
    /\ UNCHANGED <<pipe, flow, ghosts>>

\* read() fails, the descriptor does not block: return what was put together.
ReadNone ==
    /\ need /\ pipe = <<>>
    /\ Return(rbuf)
    /\ UNCHANGED <<pipe, flow, ghosts>>

Reader == ReadRecord \/ ReadLine \/ NoRecord \/ ReadSome \/ ReadNone

\* Another process writes to the fifo, as long as it likes.
Write(c) ==
    /\ Len(pipe) < PIPE_SIZE
    /\ pipe' = Append(pipe, c)
    /\ due' = Append(due, c)
    /\ UNCHANGED <<flow, call, took>>

\* Whatever happens after the end of the memory was passed, it is not modelled.
Wild == pc = "wild" /\ UNCHANGED vars

Next ==
    \/ \E c \in {"read", "readln"} : Call(c)
    \/ Reader
    \/ \E c \in {NL, TEXT} : Write(c)
    \/ Wild

Spec == Init /\ [][Next]_vars

\* A caller inside the library runs on; no call and no writing must come.
FairSpec == Spec /\ WF_vars(Reader)

-----------------------------------------------------------------------------
(* Properties.                                                             *)

\* However the bytes arrive, in pieces that end inside or between records, and
\* whichever of the two calls takes them: a record handed out is the next line
\* that was written, none split, joined, passed over or given twice.
RecordsAreThoseWritten ==
    [][pc # "idle" /\ took' # took => took' \o due' = took \o due]_vars

\* The next line, with its newline and the end of the string, has no room in a buffer.
LongLine == Len(IF HasLine(due) THEN Line(due) ELSE due) + 1 >= BUF_SIZE

\* The flow drops something only of a line that is too long for its buffer.
DropsOnlyLongLines ==
    [][pc # "idle" /\ took' = took /\ Len(due') < Len(due) => LongLine]_vars

\* "buffer overrun avoided" (140) is true of a line that is too long and of the
\* newline behind the first line (139), and not of more newlines, which are not
\* counted (131, 142); rfifo_readln checks nothing (177-178), nor does the flow
\* end what it has no room for.  A call writes past its buffer only with a line
\* that fills it, or in a block that has two lines already.
TwoLines(s) == \E i, j \in 1 .. Len(s) : i < j /\ s[i] = NL /\ s[j] = NL
OverrunNeedsLines ==
    [][pc # "wild" /\ pc' = "wild" => LongLine \/ (pc = "read" /\ TwoLines(took))]_vars

\* A block is all up to an empty line.
IsBlock(s) ==
    /\ s # <<>> /\ s[Len(s)] = NL /\ (Len(s) > 1 => s[Len(s) - 1] = NL)
    /\ \A i \in 1 .. Len(s) - 1 : s[i] = NL => i > 1 /\ (i < Len(s) - 1 => s[i + 1] # NL)

\* What a call returns is what it took from the flow, in order and all of it: for
\* rfifo_readln a line, for rfifo_read a block, less the last newline.  There are
\* two exceptions.  When nothing more can be read, rfifo_read returns the lines
\* there are, and the rest of the block as another, although "a block, or nothing"
\* is what its head comment has (33); and a line that is too much for the buffer
\* ends the block and is lost, with what was before it returned (140).
ReturnsWhatItTook ==
    [][ /\ pc = "readln" /\ pc' = "idle" =>
            /\ rbuf' = took'
            /\ IF took' = <<>> THEN pipe = <<>> ELSE HasLine(took') /\ Behind(took') = <<>>
        /\ pc = "read" /\ pc' = "idle" =>
            \/ IsBlock(took') /\ took' = Append(rbuf', NL)
            \/ /\ pipe = <<>> /\ took' = took
               /\ took' = IF rbuf' = <<>> THEN <<>> ELSE Append(rbuf', NL)
            \/ took' # took /\ Len(took') > BUF_SIZE - 1 /\ rbuf' = took
      ]_vars

\* A call that runs returns if writing pauses long enough, or if ends of lines keep
\* coming, however much else is written meanwhile.  Only a line that is written
\* on and on without an end keeps it (128-150, 175-186).
WritingPauses == <>[][~ \E c \in {NL, TEXT} : Write(c)]_vars
LinesKeepComing == []<><<Write(NL)>>_vars
CallsReturn ==
    WritingPauses \/ LinesKeepComing => (pc # "idle" ~> pc \in {"idle", "wild"})
=============================================================================
