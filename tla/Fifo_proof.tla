----------------------------- MODULE Fifo_proof -----------------------------
(***************************************************************************)
(* Proofs about the fifo, for buffers of any size, any text and any pieces *)
(* it comes in: that the flow hands out the lines as they were written,    *)
(* what it drops, when a buffer is overrun, and what the calls return.     *)
(***************************************************************************)
EXTENDS Fifo, DataLemmas

Chars == {NL, TEXT}

\* What is kept is text without an end; head is only read when it is used up.
FifoTypes ==
    /\ {due, took, rbuf, head, pipe} \subseteq Seq(Chars)
    /\ partial \in Seq({TEXT})
    /\ tlen \in Nat
    /\ pc \in {"idle", "read", "readln", "wild"}
    /\ need \in BOOLEAN
    /\ need => head = <<>> /\ pc \in {"read", "readln"}

\* What is due is what is kept, what is referenced and what was not read yet.
AllThere == pc # "wild" => due = Join(Join(partial, head), pipe)

LEMMA Kept == FifoTypes => partial \in Seq(Chars)
  BY SeqMonotonic DEF FifoTypes, Chars

-----------------------------------------------------------------------------
(* Lines.                                                                  *)

\* The end of a line is the first one.
LEMMA LineEndIs ==
    ASSUME NEW s \in Seq(Chars), HasLine(s)
    PROVE  /\ LineEnd(s) \in 1 .. Len(s) /\ s[LineEnd(s)] = NL
           /\ \A j \in 1 .. LineEnd(s) - 1 : s[j] = TEXT
<1> DEFINE ends == {i \in 1 .. Len(s) : s[i] = NL}
<1>0. Len(s) \in Nat
  OBVIOUS
<1>1. ends \in SUBSET Nat /\ ends # {}
  BY <1>0 DEF HasLine
<1>2. PICK i \in ends : \A j \in ends : i <= j
  BY <1>1, Smallest
<1>3. \A j \in 1 .. i - 1 : s[j] # NL
  BY <1>0, <1>2
<1>4. LineEnd(s) \in 1 .. Len(s) /\ s[LineEnd(s)] = NL /\ \A j \in 1 .. LineEnd(s) - 1 : s[j] # NL
  BY <1>2, <1>3 DEF LineEnd
<1>5. \A j \in 1 .. LineEnd(s) - 1 : s[j] \in Chars
  BY <1>0, <1>4, ElementOfSeq
<1> QED
  BY <1>4, <1>5 DEF Chars

\* A text with an end of line is the line, its end and what is behind.
LEMMA LineParts ==
    ASSUME NEW s \in Seq(Chars), HasLine(s)
    PROVE  /\ Line(s) \in Seq({TEXT}) /\ Len(Line(s)) = LineEnd(s) - 1
           /\ Behind(s) \in Seq(Chars)
           /\ s = (Line(s) \o <<NL>>) \o Behind(s)
<1>1. /\ LineEnd(s) \in 1 .. Len(s) /\ s[LineEnd(s)] = NL
      /\ \A j \in 1 .. LineEnd(s) - 1 : s[j] \in {TEXT}
  BY LineEndIs
<1>2. /\ Len(SubSeq(s, 1, LineEnd(s) - 1)) = LineEnd(s) - 1
      /\ SubSeq(s, LineEnd(s) + 1, Len(s)) \in Seq(Chars)
      /\ s = (SubSeq(s, 1, LineEnd(s) - 1) \o <<NL>>) \o SubSeq(s, LineEnd(s) + 1, Len(s))
  BY <1>1, CutAt
<1>3. SubSeq(s, 1, LineEnd(s) - 1) \in Seq({TEXT})
  BY <1>1, SubSeqProperties
<1> QED
  BY <1>2, <1>3 DEF Line, Behind

\* A text without an end of line is text.
LEMMA NoLineIsText ==
    ASSUME NEW s \in Seq(Chars), ~HasLine(s)
    PROVE  s \in Seq({TEXT})
<1>1. \A i \in 1 .. Len(s) : s[i] \in {TEXT}
  <2>1. \A i \in 1 .. Len(s) : s[i] \in {NL, TEXT}
    BY ElementOfSeq DEF Chars
  <2> QED
    BY <2>1 DEF HasLine
<1>2. Len(s) \in Nat /\ SubSeq(s, 1, Len(s)) = s
  BY SubSeqFull
<1>3. SubSeq(s, 1, Len(s)) \in Seq({TEXT})
  BY <1>1, <1>2, SubSeqProperties
<1> QED
  BY <1>2, <1>3

\* Text, an end of line and anything behind: the text is the line.
LEMMA LineOf ==
    ASSUME NEW x \in Seq({TEXT}), NEW y \in Seq(Chars), NEW s, s = Join(Append(x, NL), y)
    PROVE  s \in Seq(Chars) /\ HasLine(s) /\ Line(s) = x /\ Behind(s) = y
<1> DEFINE k == Len(x) + 1
           front == Append(x, NL)
<1>1. x \in Seq(Chars) /\ NL \in Chars
  BY SeqMonotonic DEF Chars
<1>2. /\ front \in Seq(Chars) /\ Len(front) = k /\ front[k] = NL
      /\ \A i \in 1 .. Len(x) : front[i] = x[i]
  BY <1>1, AppendProperties
<1>3. Len(x) \in Nat /\ Len(y) \in Nat
  OBVIOUS
<1>4. \A i \in 1 .. Len(x) : x[i] = TEXT
  <2>1. \A i \in 1 .. Len(x) : x[i] \in {TEXT}
    BY ElementOfSeq
  <2> QED
    BY <2>1
<1> HIDE DEF front
<1>5. /\ s \in Seq(Chars) /\ Len(s) = k + Len(y)
      /\ \A i \in 1 .. k + Len(y) : s[i] = IF i <= k THEN front[i] ELSE y[i - k]
  <2>1. s = Join(front, y)
    BY DEF front
  <2>2. Join(front, y) \in Seq(Chars)
    BY <1>2, JoinType
  <2>3. /\ Len(Join(front, y)) = Len(front) + Len(y)
        /\ \A i \in 1 .. Len(front) + Len(y) :
              Join(front, y)[i] = IF i <= Len(front) THEN front[i] ELSE y[i - Len(front)]
    BY <1>2, JoinAt
  <2> QED
    BY <1>2, <2>1, <2>2, <2>3
<1>6. k \in 1 .. Len(s) /\ s[k] = NL /\ \A i \in 1 .. Len(x) : s[i] = TEXT
  BY <1>2, <1>3, <1>4, <1>5
<1>7. HasLine(s)
  BY <1>6 DEF HasLine
<1>8. LineEnd(s) = k
  <2>1. /\ LineEnd(s) \in 1 .. Len(s) /\ s[LineEnd(s)] = NL
        /\ \A j \in 1 .. LineEnd(s) - 1 : s[j] = TEXT
    BY <1>5, <1>7, LineEndIs
  <2>2. Len(s) \in Nat
    BY <1>3, <1>5
  <2> HIDE DEF k
  <2>3. k \in Nat /\ LineEnd(s) \in Nat
    BY <1>6, <2>1, <2>2
  <2>4. ~(LineEnd(s) < k)
    <3>1. LineEnd(s) < k => LineEnd(s) \in 1 .. Len(x)
      BY <1>3, <2>1, <2>3 DEF k
    <3> QED
      BY <1>6, <2>1, <3>1, CharAssumption
  <2>5. ~(k < LineEnd(s))
    <3>1. k < LineEnd(s) => k \in 1 .. LineEnd(s) - 1
      BY <1>6, <2>2, <2>3
    <3> QED
      BY <1>6, <2>1, <3>1, CharAssumption
  <2> QED
    BY <2>3, <2>4, <2>5
<1>9. Line(s) = x
  <2>1. /\ Line(s) \in Seq({TEXT}) /\ Len(Line(s)) = Len(x)
    BY <1>3, <1>5, <1>7, <1>8, LineParts
  <2>2. \A i \in 1 .. Len(Line(s)) : Line(s)[i] \in {TEXT} /\ x[i] = TEXT
    BY <1>4, <2>1, ElementOfSeq
  <2> QED
    BY <2>1, <2>2, SeqEqual
<1>10. Behind(s) = y
  <2>1. \A i \in k + 1 .. Len(s) : s[i] \in Chars
    BY <1>3, <1>5, ElementOfSeq
  <2>2. /\ SubSeq(s, k + 1, Len(s)) \in Seq(Chars)
        /\ Len(SubSeq(s, k + 1, Len(s))) = Len(y)
        /\ \A i \in 1 .. Len(y) : SubSeq(s, k + 1, Len(s))[i] = s[k + i]
    BY <1>3, <1>5, <2>1, SubSeqProperties
  <2>3. \A i \in 1 .. Len(y) : s[k + i] = y[i]
    BY <1>3, <1>5
  <2> QED
    BY <1>8, <2>2, <2>3, SeqEqual DEF Behind
<1> QED
  BY <1>5, <1>7, <1>9, <1>10

\* A line is at least as long as the text a text begins with.
LEMMA LongStart ==
    ASSUME NEW x \in Seq({TEXT}), NEW y \in Seq(Chars), NEW s, s = Join(x, y)
    PROVE  Len(IF HasLine(s) THEN Line(s) ELSE s) >= Len(x)
<1>1. x \in Seq(Chars)
  BY SeqMonotonic DEF Chars
<1>2. /\ s \in Seq(Chars) /\ Len(s) = Len(x) + Len(y)
      /\ \A i \in 1 .. Len(x) + Len(y) : s[i] = IF i <= Len(x) THEN x[i] ELSE y[i - Len(x)]
  BY <1>1, JoinType, JoinAt
<1>3. Len(x) \in Nat /\ Len(y) \in Nat
  OBVIOUS
<1>4. \A i \in 1 .. Len(x) : x[i] \in {TEXT}
  BY ElementOfSeq
<1>5. CASE HasLine(s)
  <2>1. LineEnd(s) \in 1 .. Len(s) /\ s[LineEnd(s)] = NL /\ Len(Line(s)) = LineEnd(s) - 1
    BY <1>2, <1>5, LineEndIs, LineParts
  <2>2. ~(LineEnd(s) <= Len(x))
    BY <1>2, <1>3, <1>4, <2>1, CharAssumption
  <2> QED
    BY <1>2, <1>3, <1>5, <2>1, <2>2
<1>6. CASE ~HasLine(s)
  BY <1>2, <1>3, <1>6
<1> QED
  BY <1>5, <1>6

-----------------------------------------------------------------------------
(* The flow.                                                               *)

\* What the flow hands out is the next line that is due.
LEMMA NextLine ==
    ASSUME FifoTypes, AllThere, pc # "wild", HasLine(head)
    PROVE  /\ Rec \in Seq({TEXT}) /\ Len(Rec) = Len(partial) + LineEnd(head) - 1
           /\ Behind(head) \in Seq(Chars) /\ Behind(due) \in Seq(Chars)
           /\ HasLine(due) /\ Line(due) = Rec
           /\ Behind(due) = Join(Behind(head), pipe)
           /\ due = Join(Append(Rec, NL), Behind(due))
<1> DEFINE p == partial
           a == Line(head)
           b == Behind(head)
           one == <<NL>>
<1>0. head \in Seq(Chars) /\ pipe \in Seq(Chars) /\ p \in Seq({TEXT}) /\ p \in Seq(Chars)
  BY Kept DEF FifoTypes
<1>1. a \in Seq({TEXT}) /\ Len(a) = LineEnd(head) - 1 /\ b \in Seq(Chars) /\ head = Join(Join(a, one), b)
  BY <1>0, LineParts DEF Join
<1>2. a \in Seq(Chars) /\ one \in Seq(Chars) /\ NL \in Chars
  BY <1>1, SeqMonotonic DEF Chars
<1>3. Rec = Join(p, a)
  BY DEF Rec, Join
<1>4. due = Join(Join(p, head), pipe)
  BY DEF AllThere
<1>4a. LineEnd(head) \in Nat /\ Len(p) \in Nat
  BY <1>0, LineEndIs
<1> HIDE DEF p, a, b, one
<1>5. Rec \in Seq({TEXT}) /\ Rec \in Seq(Chars) /\ Len(Rec) = Len(p) + Len(a)
  BY <1>0, <1>1, <1>2, <1>3, JoinType, JoinAt
<1>6. Append(Rec, NL) = Join(Rec, one)
  BY <1>2, <1>5, JoinLast DEF one
<1>7. due = Join(Append(Rec, NL), Join(b, pipe))
  <2>1. Join(a, one) \in Seq(Chars) /\ Join(b, pipe) \in Seq(Chars) /\ Join(Rec, one) \in Seq(Chars)
    BY <1>0, <1>1, <1>2, <1>5, JoinType
  <2>2. Join(p, Join(Join(a, one), b)) = Join(Join(p, Join(a, one)), b)
    BY <1>0, <1>1, <2>1, JoinAssociates
  <2>3. Join(p, Join(a, one)) = Join(Join(p, a), one)
    BY <1>0, <1>2, JoinAssociates
  <2>4. Join(Join(Join(Rec, one), b), pipe) = Join(Join(Rec, one), Join(b, pipe))
    BY <1>0, <1>1, <2>1, JoinAssociates
  <2> QED
    BY <1>1, <1>3, <1>4, <1>6, <2>2, <2>3, <2>4, Zenon
<1>8. Join(b, pipe) \in Seq(Chars)
  BY <1>0, <1>1, JoinType
<1>9. HasLine(due) /\ Line(due) = Rec /\ Behind(due) = Join(b, pipe)
  BY <1>5, <1>7, <1>8, LineOf
<1>10. Len(Rec) = Len(partial) + LineEnd(head) - 1
  BY <1>1, <1>4a, <1>5 DEF p
<1> QED
  BY <1>1, <1>5, <1>7, <1>8, <1>9, <1>10 DEF b

LEMMA FlowGetKeeps ==
    ASSUME FifoTypes, AllThere, FlowGet, pc # "wild", pipe' = pipe, need' = FALSE,
           EndMissing => pc' = "wild",
           pc' \in {"idle", "read", "readln", "wild"}, tlen' \in Nat, rbuf' \in Seq(Chars)
    PROVE  FifoTypes' /\ AllThere'
<1>1. /\ Rec \in Seq({TEXT}) /\ Behind(head) \in Seq(Chars) /\ Behind(due) \in Seq(Chars)
      /\ Behind(due) = Join(Behind(head), pipe)
  BY NextLine DEF FlowGet
<1>2. Append(took \o Rec, NL) \in Seq(Chars)
  <2>1. Rec \in Seq(Chars) /\ took \in Seq(Chars) /\ NL \in Chars
    BY <1>1, SeqMonotonic DEF FifoTypes, Chars
  <2>2. took \o Rec \in Seq(Chars)
    BY <2>1, ConcatProperties
  <2> QED
    BY <2>1, <2>2, AppendProperties
<1>3. head' = Behind(head) /\ partial' = <<>>
  BY DEF FlowGet
<1>4. /\ EndMissing => took' = took /\ due' = due
      /\ ~EndMissing => took' = Append(took \o Rec, NL) /\ due' = Behind(due)
  BY DEF FlowGet, ghosts
<1>5. FifoTypes'
  <2>1. took' \in Seq(Chars) /\ due' \in Seq(Chars)
    BY <1>1, <1>2, <1>4 DEF FifoTypes
  <2>2. head' \in Seq(Chars) /\ partial' \in Seq({TEXT}) /\ pipe' \in Seq(Chars)
    BY <1>1, <1>3, EmptySeq DEF FifoTypes
  <2> QED
    BY <2>1, <2>2 DEF FifoTypes
<1>6. ASSUME pc' # "wild" PROVE due' = Join(Join(partial', head'), pipe')
  <2>1. due' = Join(head', pipe')
    BY <1>1, <1>3, <1>4, <1>6
  <2>2. Join(partial', head') = head'
    BY <1>1, <1>3, ConcatEmptySeq DEF Join
  <2> QED
    BY <2>1, <2>2
<1> QED
  BY <1>5, <1>6 DEF AllThere

LEMMA FlowNoneKeeps ==
    ASSUME FifoTypes, AllThere, NoRecord
    PROVE  FifoTypes' /\ AllThere'
<1>1. head \in Seq({TEXT})
  BY NoLineIsText DEF NoRecord, FlowNone, FifoTypes
<1>2. /\ head' = <<>> /\ took' = took /\ pipe' = pipe /\ pc' = pc /\ need' = TRUE
      /\ rbuf' = rbuf /\ tlen' = tlen /\ pc \in {"read", "readln"}
      /\ partial' = IF Fits(Len(head)) THEN partial \o head ELSE <<>>
      /\ due' = IF Fits(Len(head)) THEN due ELSE pipe
  BY DEF NoRecord, FlowNone, Keep
<1>3. partial \o head \in Seq({TEXT})
  BY <1>1, ConcatProperties DEF FifoTypes
<1>4. FifoTypes'
  <2>1. partial' \in Seq({TEXT}) /\ due' \in Seq(Chars) /\ head' \in Seq(Chars)
    BY <1>2, <1>3, EmptySeq DEF FifoTypes
  <2> QED
    BY <1>2, <2>1 DEF FifoTypes
<1>5. due' = Join(Join(partial', head'), pipe')
  <2>1. CASE Fits(Len(head))
    <3>1. partial' = Join(partial, head) /\ due' = Join(Join(partial, head), pipe)
      BY <1>2, <2>1 DEF AllThere, Join
    <3>2. Join(Join(partial, head), <<>>) = Join(partial, head)
      BY <1>3, ConcatEmptySeq DEF Join
    <3> QED
      BY <1>2, <3>1, <3>2
  <2>2. CASE ~Fits(Len(head))
    <3>1. partial' = <<>> /\ head' = <<>> /\ due' = pipe /\ pipe' = pipe
      BY <1>2, <2>2
    <3>2. Join(<<>>, <<>>) = <<>> /\ Join(<<>>, pipe) = pipe
      BY EmptySeq, ConcatEmptySeq DEF FifoTypes, Join
    <3> QED
      BY <3>1, <3>2, Zenon
  <2> QED
    BY <2>1, <2>2
<1> QED
  BY <1>4, <1>5 DEF AllThere

\* A buffer read is put behind the kept start of the line.
LEMMA ReadKeeps ==
    ASSUME FifoTypes, AllThere, ReadSome
    PROVE  FifoTypes' /\ AllThere'
<1>0. pipe \in Seq(Chars) /\ Len(pipe) \in Nat
  BY DEF FifoTypes
<1>1. PICK n \in Nat : /\ n <= Len(pipe)
                       /\ head' = SubSeq(pipe, 1, n)
                       /\ pipe' = SubSeq(pipe, n + 1, Len(pipe))
  <2> DEFINE n == IF Len(pipe) < BUF_SIZE THEN Len(pipe) ELSE BUF_SIZE
  <2>1. head' = SubSeq(pipe, 1, n) /\ pipe' = SubSeq(pipe, n + 1, Len(pipe))
    BY DEF ReadSome, FlowRef
  <2>2. n \in Nat /\ n <= Len(pipe)
    BY <1>0, BufSizeAssumption
  <2> HIDE DEF n
  <2> QED
    BY <2>1, <2>2
<1>2. /\ head = <<>> /\ need' = FALSE /\ partial' = partial /\ pc \in {"read", "readln"}
      /\ pc' = pc /\ rbuf' = rbuf /\ tlen' = tlen /\ due' = due /\ took' = took
  BY DEF ReadSome, FifoTypes, ghosts
<1>3. head' \in Seq(Chars) /\ pipe' \in Seq(Chars) /\ Join(head', pipe') = pipe
  <2>1. \A i \in 1 .. Len(pipe) : pipe[i] \in Chars
    BY <1>0, ElementOfSeq
  <2>2. SubSeq(pipe, 1, n) \in Seq(Chars) /\ SubSeq(pipe, n + 1, Len(pipe)) \in Seq(Chars)
    BY <1>0, <1>1, <2>1, SubSeqProperties
  <2>3. SubSeq(pipe, 1, n) \o SubSeq(pipe, n + 1, Len(pipe)) = SubSeq(pipe, 1, Len(pipe))
    <3>1. 1 \in 1 .. Len(pipe) + 1 /\ n \in 1 - 1 .. Len(pipe) /\ Len(pipe) \in n .. Len(pipe)
      BY <1>0, <1>1
    <3> QED
      BY <1>0, <3>1, ConcatAdjacentSubSeq
  <2> QED
    BY <1>0, <1>1, <2>2, <2>3, SubSeqFull DEF Join
<1>4. FifoTypes'
  BY <1>2, <1>3 DEF FifoTypes
<1>5. due' = Join(Join(partial', head'), pipe')
  <2>1. due = Join(Join(partial, <<>>), pipe)
    BY <1>2 DEF AllThere
  <2>2. Join(partial, <<>>) = partial
    BY Kept, JoinEmpty
  <2>3. Join(Join(partial, head'), pipe') = Join(partial, Join(head', pipe'))
    BY <1>3, Kept, JoinAssociates
  <2> QED
    BY <1>2, <1>3, <2>1, <2>2, <2>3
<1> QED
  BY <1>4, <1>5 DEF AllThere

LEMMA WriteKeeps ==
    ASSUME FifoTypes, AllThere, NEW c \in {NL, TEXT}, Write(c)
    PROVE  FifoTypes' /\ AllThere'
<1> DEFINE text == Join(partial, head)
           one == <<c>>
<1>1. /\ pipe' = Append(pipe, c) /\ due' = Append(due, c) /\ took' = took
      /\ head' = head /\ partial' = partial /\ need' = need /\ pc' = pc
      /\ rbuf' = rbuf /\ tlen' = tlen
  BY DEF Write, flow, call
<1>2. /\ c \in Chars /\ one \in Seq(Chars) /\ text \in Seq(Chars)
      /\ pipe \in Seq(Chars) /\ due \in Seq(Chars)
  BY Kept, JoinType DEF FifoTypes, Chars
<1>3. Append(pipe, c) = Join(pipe, one) /\ Append(due, c) = Join(due, one)
  BY <1>2, JoinLast
<1>4. FifoTypes'
  <2>1. Append(pipe, c) \in Seq(Chars) /\ Append(due, c) \in Seq(Chars)
    BY <1>2, AppendProperties
  <2> QED
    BY <1>1, <2>1 DEF FifoTypes
<1> HIDE DEF text, one
<1>5. ASSUME pc # "wild" PROVE due' = Join(text, pipe')
  <2>1. due = Join(text, pipe)
    BY <1>5 DEF AllThere, text
  <2>2. Join(text, Join(pipe, one)) = Join(Join(text, pipe), one)
    BY <1>2, JoinAssociates
  <2> QED
    BY <1>1, <1>3, <2>1, <2>2
<1>6. text' = text
  BY <1>1 DEF text
<1> QED
  BY <1>1, <1>4, <1>5, <1>6 DEF AllThere, text

\* What a record makes of the text that is put together.
LEMMA TextTyped ==
    ASSUME FifoTypes, AllThere, pc # "wild", HasLine(head)
    PROVE  /\ Rec \in Seq(Chars) /\ Len(Rec) \in Nat
           /\ Append(rbuf, NL) \in Seq(Chars) /\ rbuf \o Rec \in Seq(Chars)
           /\ Append(rbuf, NL) \o Rec \in Seq(Chars) /\ Append(Rec, NL) \in Seq(Chars)
<1>1. Rec \in Seq(Chars) /\ rbuf \in Seq(Chars) /\ NL \in Chars
  BY NextLine, SeqMonotonic DEF FifoTypes, Chars
<1>2. Append(rbuf, NL) \in Seq(Chars) /\ Append(Rec, NL) \in Seq(Chars)
  BY <1>1, AppendProperties
<1> QED
  BY <1>1, <1>2, ConcatProperties

LEMMA FifoStep ==
    FifoTypes /\ AllThere /\ [Next]_vars => (FifoTypes /\ AllThere)'
<1> SUFFICES ASSUME FifoTypes, AllThere, [Next]_vars PROVE FifoTypes' /\ AllThere'
  OBVIOUS
<1>1. ASSUME NEW c \in {"read", "readln"}, Call(c) PROVE FifoTypes' /\ AllThere'
  BY <1>1, EmptySeq DEF Call, FifoTypes, AllThere, flow
<1>2. CASE ReadRecord
  <2>1. FlowGet /\ pipe' = pipe /\ pc = "read" /\ need' = FALSE
    BY <1>2 DEF ReadRecord, Return, Goes
  <2>2. EndMissing => pc' = "wild"
    BY <1>2 DEF ReadRecord, Goes
  <2>3. pc' \in {"idle", "read", "readln", "wild"}
    BY <1>2 DEF ReadRecord, Return, Goes
  <2>4. Len(Rec) \in Nat /\ tlen \in Nat
    BY <2>1, TextTyped DEF FlowGet, FifoTypes
  <2>5. tlen' \in Nat
    BY <1>2, <2>4 DEF ReadRecord, Return, Goes
  <2>6. rbuf' \in Seq(Chars)
    <3> DEFINE text == IF tlen > 0 THEN Append(rbuf, NL) ELSE rbuf
    <3>1. <<>> \in Seq(Chars) /\ text \in Seq(Chars) /\ text \o Rec \in Seq(Chars)
      BY <2>1, EmptySeq, TextTyped DEF FlowGet, FifoTypes
    <3>2. rbuf' \in {<<>>, text, text \o Rec}
      BY <1>2 DEF ReadRecord, Return, Goes
    <3> QED
      BY <3>1, <3>2
  <2> QED
    BY <2>1, <2>2, <2>3, <2>5, <2>6, FlowGetKeeps
<1>3. CASE ReadLine
  <2>1. /\ FlowGet /\ pipe' = pipe /\ pc = "readln" /\ need' = FALSE /\ tlen' = 0
        /\ EndMissing => pc' = "wild"
        /\ pc' \in {"idle", "wild"}
        /\ rbuf' \in {<<>>, Append(Rec, NL)}
    BY <1>3 DEF ReadLine, Return, Goes
  <2>2. rbuf' \in Seq(Chars)
    BY <2>1, EmptySeq, TextTyped DEF FlowGet
  <2> QED
    BY <2>1, <2>2, FlowGetKeeps
<1>4. CASE NoRecord
  BY <1>4, FlowNoneKeeps
<1>5. CASE ReadSome
  BY <1>5, ReadKeeps
<1>6. CASE ReadNone
  BY <1>6 DEF ReadNone, Return, Goes, FifoTypes, AllThere, flow, ghosts
<1>7. ASSUME NEW c \in {NL, TEXT}, Write(c) PROVE FifoTypes' /\ AllThere'
  BY <1>7, WriteKeeps
<1>8. CASE UNCHANGED vars
  BY <1>8 DEF vars, flow, call, ghosts, FifoTypes, AllThere
<1> QED
  BY <1>1, <1>2, <1>3, <1>4, <1>5, <1>6, <1>7, <1>8 DEF Next, Reader, Wild

LEMMA FifoInit == Init => FifoTypes /\ AllThere
<1> SUFFICES ASSUME Init PROVE FifoTypes /\ AllThere
  OBVIOUS
<1>1. FifoTypes
  BY EmptySeq DEF Init, FifoTypes
<1>2. Join(<<>>, <<>>) = <<>>
  BY EmptySeq, JoinEmpty
<1> QED
  BY <1>1, <1>2, Zenon DEF Init, AllThere

LEMMA FifoInvariant == Spec => [](FifoTypes /\ AllThere)
  BY FifoInit, FifoStep, PTL DEF Spec

\* Every line handed out, by either call, is the next that was written, whatever
\* pieces read() returns, for buffers of any size.
THEOREM RecordsSurvive == Spec => RecordsAreThoseWritten
<1> DEFINE Next1 == pc # "idle" /\ took' # took => took' \o due' = took \o due
<1>1. ASSUME FifoTypes, AllThere, [Next]_vars, pc # "idle", took' # took
      PROVE  took' \o due' = took \o due
  <2>1. ASSUME NEW c \in {"read", "readln"}, Call(c) PROVE FALSE
    BY <1>1, <2>1 DEF Call
  <2>2. FlowGet /\ pc # "wild" /\ ~EndMissing
    BY <1>1, <2>1 DEF Next, Reader, ReadRecord, ReadLine, NoRecord, ReadSome, ReadNone, FlowNone,
                      FlowGet, Write, Wild, vars, ghosts
  <2>3. took' = Append(took \o Rec, NL) /\ due' = Behind(due)
    BY <2>2 DEF FlowGet
  <2>4. Rec \in Seq({TEXT}) /\ Behind(due) \in Seq(Chars) /\ due = Join(Append(Rec, NL), Behind(due))
    BY <1>1, <2>2, NextLine DEF FlowGet
  <2>5. took \in Seq(Chars) /\ Rec \in Seq(Chars) /\ NL \in Chars /\ <<NL>> \in Seq(Chars)
    BY <1>1, <2>4, SeqMonotonic DEF FifoTypes, Chars
  <2> DEFINE d == Behind(due)
             one == <<NL>>
             t == Join(took, Rec)
  <2>6. t \in Seq(Chars) /\ Append(t, NL) = Join(t, one) /\ Append(Rec, NL) = Join(Rec, one)
    BY <2>5, JoinType, JoinLast
  <2>7. one \in Seq(Chars) /\ Join(Rec, one) \in Seq(Chars) /\ d \in Seq(Chars)
    BY <2>4, <2>5, JoinType
  <2>8. took' = Join(t, one) /\ due' = d /\ due = Join(Join(Rec, one), d)
    BY <2>3, <2>4, <2>6 DEF Join
  <2> HIDE DEF d, one
  <2>9. Join(t, one) = Join(took, Join(Rec, one))
    BY <2>5, <2>7, JoinAssociates
  <2>10. Join(Join(took, Join(Rec, one)), d) = Join(took, Join(Join(Rec, one), d))
    BY <2>5, <2>7, JoinAssociates
  <2> QED
    BY <2>8, <2>9, <2>10, Zenon DEF Join
<1>2. FifoTypes /\ AllThere /\ [Next]_vars => [Next1]_vars
  BY <1>1
<1> QED
  BY <1>2, FifoInvariant, PTL DEF Spec, RecordsAreThoseWritten

-----------------------------------------------------------------------------
(* What the flow drops, and when a buffer is overrun.                      *)

\* What is kept, with the line or the text that has no room behind it, is the
\* start of what is due.
LEMMA KeptIsLong ==
    ASSUME FifoTypes, AllThere, pc # "wild", NEW x \in Seq({TEXT}), NEW y \in Seq(Chars),
           head = Join(x, y), Len(partial) + Len(x) + 1 >= BUF_SIZE
    PROVE  LongLine
<1>1. x \in Seq(Chars) /\ partial \in Seq(Chars) /\ pipe \in Seq(Chars) /\ partial \in Seq({TEXT})
  BY Kept, SeqMonotonic DEF FifoTypes, Chars
<1>2. Join(partial, x) \in Seq({TEXT}) /\ Len(Join(partial, x)) = Len(partial) + Len(x)
  BY <1>1, JoinType, JoinAt
<1>3. due = Join(Join(partial, x), Join(y, pipe))
  <2>1. due = Join(Join(partial, Join(x, y)), pipe)
    BY DEF AllThere
  <2>2. Join(partial, Join(x, y)) = Join(Join(partial, x), y)
    BY <1>1, JoinAssociates
  <2>3. Join(Join(Join(partial, x), y), pipe) = Join(Join(partial, x), Join(y, pipe))
    BY <1>1, JoinType, JoinAssociates
  <2> QED
    BY <2>1, <2>2, <2>3
<1>4. Join(y, pipe) \in Seq(Chars)
  BY <1>1, JoinType
<1> DEFINE first == IF HasLine(due) THEN Line(due) ELSE due
<1>5. Len(first) >= Len(partial) + Len(x)
  BY <1>2, <1>3, <1>4, LongStart
<1>6. Len(first) \in Nat
  <2>1. due \in Seq(Chars)
    BY DEF FifoTypes
  <2>2. CASE HasLine(due)
    BY <2>1, <2>2, LineParts
  <2> QED
    BY <2>1, <2>2
<1>7. Len(partial) \in Nat /\ Len(x) \in Nat /\ BUF_SIZE \in Nat
  BY <1>1, BufSizeAssumption
<1> HIDE DEF first
<1>8. Len(first) + 1 >= BUF_SIZE
  BY <1>5, <1>6, <1>7
<1> QED
  BY <1>8 DEF LongLine, first

LEMMA NoEndIsLong ==
    ASSUME FifoTypes, AllThere, pc # "wild", HasLine(head), EndMissing
    PROVE  LongLine
<1>1. /\ HasLine(due) /\ Line(due) = Rec /\ Len(Rec) = Len(partial) + LineEnd(head) - 1
  BY NextLine
<1>2. Len(partial) \in Nat /\ LineEnd(head) \in Nat /\ BUF_SIZE \in Nat
  BY LineEndIs, BufSizeAssumption DEF FifoTypes
<1>3. BUF_SIZE - Len(partial) <= LineEnd(head)
  BY <1>2 DEF EndMissing, Fits
<1>4. Len(Line(due)) + 1 >= BUF_SIZE
  BY <1>1, <1>2, <1>3
<1> QED
  BY <1>1, <1>4 DEF LongLine

\* The flow drops nothing that its buffer has room for, however it comes.
THEOREM OnlyLongLinesLost == Spec => DropsOnlyLongLines
<1> DEFINE Drop == pc # "idle" /\ took' = took /\ Len(due') < Len(due) => LongLine
<1>1. ASSUME FifoTypes, AllThere, [Next]_vars, pc # "idle", took' = took, Len(due') < Len(due)
      PROVE  LongLine
  <2>0. Len(due) \in Nat /\ due \in Seq(Chars)
    BY <1>1 DEF FifoTypes
  <2>1. ASSUME NEW c \in {"read", "readln"}, Call(c) PROVE FALSE
    BY <1>1, <2>1 DEF Call
  <2>2. ASSUME NEW c \in {NL, TEXT}, Write(c) PROVE FALSE
    <3>1. due' = Append(due, c) /\ c \in Chars
      BY <2>2 DEF Write, Chars
    <3>2. Len(due') = Len(due) + 1
      BY <2>0, <3>1, AppendProperties
    <3> QED
      BY <1>1, <2>0, <3>2
  <2>3. due' # due
    BY <1>1, <2>0
  <2>4. (FlowGet /\ pc # "wild") \/ NoRecord
    BY <2>1, <2>2, <2>3, <1>1 DEF Next, Reader, ReadRecord, ReadLine, ReadSome, ReadNone, Wild, vars, ghosts
  <2>5. CASE FlowGet /\ pc # "wild"
    <3>1. took' = Append(took \o Rec, NL)
      BY <2>3, <2>5 DEF FlowGet, ghosts
    <3>2. took \in Seq(Chars) /\ Rec \in Seq(Chars) /\ NL \in Chars
      BY <1>1, <2>5, TextTyped DEF FlowGet, FifoTypes, Chars
    <3>3. took \o Rec \in Seq(Chars) /\ Len(took \o Rec) = Len(took) + Len(Rec)
      BY <3>2, ConcatProperties
    <3>4. Len(took') = Len(took) + Len(Rec) + 1
      BY <3>1, <3>2, <3>3, AppendProperties
    <3> QED
      BY <1>1, <3>2, <3>4
  <2>6. CASE NoRecord
    <3>1. ~HasLine(head) /\ ~Fits(Len(head)) /\ pc # "wild"
      BY <2>3, <2>6 DEF NoRecord, FlowNone
    <3>2. head \in Seq({TEXT}) /\ head \in Seq(Chars) /\ <<>> \in Seq(Chars)
      BY <1>1, <3>1, NoLineIsText, EmptySeq DEF FifoTypes
    <3>3. head = Join(head, <<>>)
      BY <3>2, JoinEmpty
    <3>4. Len(partial) + Len(head) + 1 >= BUF_SIZE
      <4>1. Len(partial) \in Nat /\ Len(head) \in Nat /\ BUF_SIZE \in Nat
        BY <1>1, <3>2, BufSizeAssumption DEF FifoTypes
      <4> QED
        BY <3>1, <4>1 DEF Fits
    <3> QED
      BY <1>1, <3>1, <3>2, <3>3, <3>4, KeptIsLong
  <2> QED
    BY <2>4, <2>5, <2>6
<1>2. FifoTypes /\ AllThere /\ [Next]_vars => [Drop]_vars
  BY <1>1
<1> QED
  BY <1>2, FifoInvariant, PTL DEF Spec, DropsOnlyLongLines

-----------------------------------------------------------------------------
(* What a call has put together.                                           *)

NoEmptyLine(s) ==
    \A i \in 1 .. Len(s) : s[i] = NL => i > 1 /\ (i < Len(s) => s[i + 1] # NL)

\* What rfifo_read holds is what it took, less the last newline; its count leaves
\* out the newlines, and so is the length of it only if there is one line.
Holds ==
    /\ IF tlen > 0 THEN took = Append(rbuf, NL) ELSE took = <<>> /\ rbuf = <<>>
    /\ tlen > 0 => tlen <= BUF_SIZE - 2
    /\ tlen <= Len(rbuf)
    /\ ~TwoLines(took) => Len(rbuf) <= tlen
    /\ NoEmptyLine(took)

CallInv ==
    /\ pc = "readln" => took = <<>> /\ rbuf = <<>>
    /\ pc = "read" => Holds

\* A line behind what was taken.
LEMMA TakeLine ==
    ASSUME NEW s \in Seq(Chars), NEW r \in Seq({TEXT}), r # <<>>, NoEmptyLine(s)
    PROVE  NoEmptyLine(Append(s \o r, NL))
<1> DEFINE t == s \o r
           u == Append(t, NL)
<1>0. r \in Seq(Chars) /\ NL \in Chars /\ Len(r) \in Nat \ {0} /\ Len(s) \in Nat
  BY SeqMonotonic, EmptySeq DEF Chars
<1>1. /\ t \in Seq(Chars) /\ Len(t) = Len(s) + Len(r)
      /\ \A i \in 1 .. Len(s) + Len(r) : t[i] = IF i <= Len(s) THEN s[i] ELSE r[i - Len(s)]
  BY <1>0, ConcatProperties
<1> HIDE DEF t
<1>2. /\ Len(u) = Len(t) + 1 /\ u[Len(t) + 1] = NL
      /\ \A i \in 1 .. Len(t) : u[i] = t[i]
  BY <1>0, <1>1, AppendProperties
<1> HIDE DEF u
<1>3. \A i \in 1 .. Len(r) : r[i] # NL
  <2>1. \A i \in 1 .. Len(r) : r[i] \in {TEXT}
    BY ElementOfSeq
  <2> QED
    BY <2>1, CharAssumption
<1>4. \A i \in 1 .. Len(s) : u[i] = s[i]
  BY <1>0, <1>1, <1>2
<1>5. \A i \in Len(s) + 1 .. Len(s) + Len(r) : u[i] # NL
  <2> TAKE i \in Len(s) + 1 .. Len(s) + Len(r)
  <2>1. u[i] = t[i] /\ t[i] = r[i - Len(s)] /\ i - Len(s) \in 1 .. Len(r)
    BY <1>0, <1>1, <1>2
  <2> QED
    BY <1>3, <2>1
<1>6. ASSUME NEW i \in 1 .. Len(u), u[i] = NL PROVE i > 1 /\ (i < Len(u) => u[i + 1] # NL)
  <2>1. i \in 1 .. Len(s) \/ i = Len(s) + Len(r) + 1
    BY <1>0, <1>1, <1>2, <1>5, <1>6
  <2>2. CASE i \in 1 .. Len(s)
    <3>1. i > 1 /\ (i < Len(s) => s[i + 1] # NL)
      BY <1>4, <1>6, <2>2 DEF NoEmptyLine
    <3>2. CASE i < Len(s)
      BY <1>0, <1>4, <2>2, <3>1, <3>2
    <3>3. CASE i = Len(s)
      BY <1>0, <1>5, <3>1, <3>3
    <3> QED
      BY <1>0, <2>2, <3>2, <3>3
  <2>3. CASE i = Len(s) + Len(r) + 1
    BY <1>0, <1>1, <1>2, <2>3
  <2> QED
    BY <2>1, <2>2, <2>3
<1> QED
  BY <1>6 DEF NoEmptyLine, u, t

\* A second line makes two.
LEMMA SecondLine ==
    ASSUME NEW s \in Seq(Chars), NEW r \in Seq(Chars)
    PROVE  TwoLines(Append(Append(s, NL) \o r, NL))
<1> DEFINE f == Append(s, NL)
           t == f \o r
           u == Append(t, NL)
<1>0. NL \in Chars /\ Len(s) \in Nat /\ Len(r) \in Nat
  BY DEF Chars
<1>1. f \in Seq(Chars) /\ Len(f) = Len(s) + 1 /\ f[Len(s) + 1] = NL
  BY <1>0, AppendProperties
<1> HIDE DEF f
<1>2. t \in Seq(Chars) /\ Len(t) = Len(f) + Len(r) /\ t[Len(s) + 1] = NL
  <2>1. /\ t \in Seq(Chars) /\ Len(t) = Len(f) + Len(r)
        /\ \A i \in 1 .. Len(f) + Len(r) : t[i] = IF i <= Len(f) THEN f[i] ELSE r[i - Len(f)]
    BY <1>1, ConcatProperties
  <2> HIDE DEF t
  <2>2. Len(s) + 1 \in 1 .. Len(f) + Len(r) /\ Len(s) + 1 <= Len(f)
    BY <1>0, <1>1
  <2> QED
    BY <1>1, <2>1, <2>2
<1> HIDE DEF t
<1>3. Len(u) = Len(t) + 1 /\ u[Len(t) + 1] = NL /\ u[Len(s) + 1] = NL
  <2>1. /\ Len(u) = Len(t) + 1 /\ u[Len(t) + 1] = NL
        /\ \A i \in 1 .. Len(t) : u[i] = t[i]
    BY <1>0, <1>2, AppendProperties
  <2>2. Len(s) + 1 \in 1 .. Len(t)
    BY <1>0, <1>1, <1>2
  <2> QED
    BY <1>2, <2>1, <2>2
<1> HIDE DEF u
<1>4. /\ Len(s) + 1 \in 1 .. Len(u) /\ Len(t) + 1 \in 1 .. Len(u) /\ Len(s) + 1 < Len(t) + 1
  BY <1>0, <1>1, <1>2, <1>3
<1>5. TwoLines(u)
  BY <1>3, <1>4 DEF TwoLines
<1> QED
  BY <1>5 DEF u, t, f

LEMMA OneLine ==
    ASSUME NEW r \in Seq({TEXT})
    PROVE  ~TwoLines(Append(r, NL))
<1>1. Len(r) \in Nat /\ \A i \in 1 .. Len(r) : r[i] \in {TEXT}
  BY ElementOfSeq
<1>2. r \in Seq(Chars) /\ NL \in Chars
  BY SeqMonotonic DEF Chars
<1>3. /\ Len(Append(r, NL)) = Len(r) + 1
      /\ \A i \in 1 .. Len(r) : Append(r, NL)[i] = r[i]
  BY <1>2, AppendProperties
<1> DEFINE u == Append(r, NL)
<1> HIDE DEF u
<1>4. \A i, j \in 1 .. Len(u) : ~(i < j /\ u[i] = NL /\ u[j] = NL)
  <2> TAKE i, j \in 1 .. Len(u)
  <2>1. i < j => i \in 1 .. Len(r)
    BY <1>1, <1>3 DEF u
  <2>2. i \in 1 .. Len(r) => u[i] = TEXT
    BY <1>1, <1>3 DEF u
  <2> QED
    BY <2>1, <2>2, CharAssumption
<1> QED
  BY <1>4 DEF TwoLines, u

LEMMA CallInvInit == Init => CallInv
  BY DEF Init, CallInv

\* The lengths a record makes.
LEMMA RecordLengths ==
    ASSUME FifoTypes, AllThere, pc # "wild", HasLine(head), Holds
    PROVE  /\ Rec \in Seq({TEXT}) /\ Rec \in Seq(Chars)
           /\ took \in Seq(Chars) /\ rbuf \in Seq(Chars) /\ tlen \in Nat /\ BUF_SIZE \in Nat \ {0}
           /\ Len(Rec) \in Nat /\ Len(rbuf) \in Nat /\ Len(took) \in Nat
           /\ Len(Append(rbuf, NL)) = Len(rbuf) + 1
           /\ Len(Append(rbuf, NL) \o Rec) = Len(rbuf) + 1 + Len(Rec)
           /\ Len(rbuf \o Rec) = Len(rbuf) + Len(Rec)
           /\ Len(Append(took \o Rec, NL)) = Len(took) + Len(Rec) + 1
           /\ Rec # <<>> => Len(Rec) > 0
<1>1. Rec \in Seq({TEXT}) /\ Rec \in Seq(Chars)
  BY NextLine, TextTyped
<1>2. took \in Seq(Chars) /\ rbuf \in Seq(Chars) /\ tlen \in Nat /\ NL \in Chars
  BY DEF FifoTypes, Chars
<1>3. Append(rbuf, NL) \in Seq(Chars) /\ Len(Append(rbuf, NL)) = Len(rbuf) + 1
  BY <1>2, AppendProperties
<1>4. Len(Append(rbuf, NL) \o Rec) = Len(rbuf) + 1 + Len(Rec)
  BY <1>1, <1>3, ConcatProperties
<1>5. Len(rbuf \o Rec) = Len(rbuf) + Len(Rec)
  BY <1>1, <1>2, ConcatProperties
<1>6. took \o Rec \in Seq(Chars) /\ Len(took \o Rec) = Len(took) + Len(Rec)
  BY <1>1, <1>2, ConcatProperties
<1>7. Len(Append(took \o Rec, NL)) = Len(took) + Len(Rec) + 1
  BY <1>2, <1>6, AppendProperties
<1>8. Rec # <<>> => Len(Rec) > 0
  BY <1>1, EmptySeq
<1> QED
  BY <1>1, <1>2, <1>3, <1>4, <1>5, <1>7, <1>8, BufSizeAssumption

\* rfifo_read goes on with a record put behind what it holds.
LEMMA GoesOnHolds ==
    ASSUME FifoTypes, AllThere, pc # "wild", HasLine(head), Holds,
           Rec # <<>>, ~TooMuch(tlen + Len(Rec)),
           took' = Append(took \o Rec, NL), tlen' = tlen + Len(Rec),
           rbuf' = (IF tlen > 0 THEN Append(rbuf, NL) ELSE rbuf) \o Rec
    PROVE  Holds'
<1>0. /\ Rec \in Seq({TEXT}) /\ Rec \in Seq(Chars)
      /\ took \in Seq(Chars) /\ rbuf \in Seq(Chars) /\ tlen \in Nat /\ BUF_SIZE \in Nat \ {0}
      /\ Len(Rec) \in Nat /\ Len(rbuf) \in Nat /\ Len(took) \in Nat
      /\ Len(Append(rbuf, NL) \o Rec) = Len(rbuf) + 1 + Len(Rec)
      /\ Len(rbuf \o Rec) = Len(rbuf) + Len(Rec)
      /\ Len(Rec) > 0
  BY RecordLengths
<1>1. tlen' > 0 /\ tlen' <= BUF_SIZE - 2
  BY <1>0 DEF TooMuch
<1>2. NoEmptyLine(took')
  BY <1>0, TakeLine DEF Holds
<1>3. CASE tlen > 0
  <2>1. took = Append(rbuf, NL) /\ rbuf' = Append(rbuf, NL) \o Rec
    BY <1>3 DEF Holds
  <2>2. took' = Append(rbuf', NL)
    BY <2>1
  <2>3. TwoLines(took')
    BY <1>0, <2>1, <2>2, SecondLine
  <2>4. tlen' <= Len(rbuf')
    BY <1>0, <2>1 DEF Holds
  <2> QED
    BY <1>1, <1>2, <2>2, <2>3, <2>4 DEF Holds
<1>4. CASE ~(tlen > 0)
  <2>1. took = <<>> /\ rbuf = <<>> /\ tlen = 0
    BY <1>0, <1>4 DEF Holds
  <2>2. rbuf' = Rec /\ took' = Append(Rec, NL) /\ tlen' = Len(Rec)
    <3>1. <<>> \o Rec = Rec
      BY <1>0, ConcatEmptySeq
    <3> QED
      BY <1>0, <2>1, <3>1
  <2> QED
    BY <1>0, <1>1, <1>2, <2>2 DEF Holds
<1> QED
  BY <1>3, <1>4

LEMMA CallStep == FifoTypes /\ AllThere /\ CallInv /\ [Next]_vars => CallInv'
<1> SUFFICES ASSUME FifoTypes, AllThere, CallInv, [Next]_vars PROVE CallInv'
  OBVIOUS
<1>1. ASSUME NEW c \in {"read", "readln"}, Call(c) PROVE CallInv'
  <2>1. took' = <<>> /\ rbuf' = <<>> /\ tlen' = 0
    BY <1>1 DEF Call
  <2>2. ~TwoLines(<<>>) /\ NoEmptyLine(<<>>) /\ Len(<<>>) = 0
    BY DEF TwoLines, NoEmptyLine
  <2> QED
    BY <2>1, <2>2 DEF CallInv, Holds
<1>2. CASE ReadRecord
  <2>1. /\ pc = "read" /\ HasLine(head) /\ Holds
        /\ pc' \in {"idle", "wild", "read"}
    BY <1>2 DEF ReadRecord, FlowGet, CallInv, Return, Goes
  <2>2. CASE pc' # "read"
    BY <2>1, <2>2 DEF CallInv
  <2>3. CASE pc' = "read"
    <3>1. /\ ~EndMissing /\ Rec # <<>> /\ ~TooMuch(tlen + Len(Rec))
          /\ rbuf' = (IF tlen > 0 THEN Append(rbuf, NL) ELSE rbuf) \o Rec
          /\ tlen' = tlen + Len(Rec)
      BY <1>2, <2>3 DEF ReadRecord, Return, Goes
    <3>2. took' = Append(took \o Rec, NL)
      BY <1>2, <3>1 DEF ReadRecord, FlowGet
    <3>3. Holds'
      BY <2>1, <3>1, <3>2, GoesOnHolds
    <3> QED
      BY <2>3, <3>3 DEF CallInv
  <2> QED
    BY <2>2, <2>3
<1>3. CASE ReadLine
  BY <1>3 DEF ReadLine, Return, Goes, CallInv
<1>4. CASE NoRecord
  BY <1>4 DEF NoRecord, FlowNone, CallInv, Holds
<1>5. CASE ReadSome
  BY <1>5 DEF ReadSome, ghosts, CallInv, Holds
<1>6. CASE ReadNone
  BY <1>6 DEF ReadNone, Return, Goes, CallInv
<1>7. ASSUME NEW c \in {NL, TEXT}, Write(c) PROVE CallInv'
  BY <1>7 DEF Write, call, CallInv, Holds
<1>8. CASE UNCHANGED vars
  BY <1>8 DEF vars, call, ghosts, CallInv, Holds
<1> QED
  BY <1>1, <1>2, <1>3, <1>4, <1>5, <1>6, <1>7, <1>8 DEF Next, Reader, Wild

LEMMA CallInvariant == Spec => [](FifoTypes /\ AllThere /\ CallInv)
  BY CallInvInit, CallStep, FifoInvariant, PTL DEF Spec

\* A call writes past its buffer only for a line that has no room in it, or in a
\* block with more newlines than the one that is counted in, for buffers of any size.
THEOREM OverrunsNeedLines == Spec => OverrunNeedsLines
<1> DEFINE Over == pc # "wild" /\ pc' = "wild" => LongLine \/ (pc = "read" /\ TwoLines(took))
<1>1. ASSUME FifoTypes, AllThere, CallInv, [Next]_vars, pc # "wild", pc' = "wild"
      PROVE  LongLine \/ (pc = "read" /\ TwoLines(took))
  <2>1. ReadRecord \/ ReadLine
    BY <1>1 DEF Next, Reader, Call, NoRecord, ReadSome, ReadNone, Return, Goes, Write, Wild, vars, call
  <2>2. HasLine(head)
    BY <2>1 DEF ReadRecord, ReadLine, FlowGet
  <2>3. CASE EndMissing
    BY <1>1, <2>2, <2>3, NoEndIsLong
  <2>4. CASE ReadLine /\ ~EndMissing
    <3>1. Len(Append(Rec, NL)) + 1 > BUF_SIZE
      BY <1>1, <2>4 DEF ReadLine, Overruns, Return, Goes
    <3>2. HasLine(due) /\ Line(due) = Rec /\ Rec \in Seq(Chars) /\ NL \in Chars
      BY <1>1, <2>2, NextLine, TextTyped DEF Chars
    <3>3. Len(Append(Rec, NL)) = Len(Rec) + 1 /\ Len(Rec) \in Nat
      BY <3>2, AppendProperties
    <3>4. Len(Rec) + 1 >= BUF_SIZE
      BY <3>1, <3>3, BufSizeAssumption
    <3> QED
      BY <3>2, <3>4 DEF LongLine
  <2>5. CASE ReadRecord /\ ~EndMissing /\ ~TwoLines(took)
    <3>1. pc = "read" /\ Holds
      BY <1>1, <2>5 DEF ReadRecord, CallInv
    <3>2. /\ tlen \in Nat /\ BUF_SIZE \in Nat \ {0} /\ Len(Rec) \in Nat /\ Len(rbuf) \in Nat
          /\ Len(Append(rbuf, NL)) = Len(rbuf) + 1
          /\ Len(Append(rbuf, NL) \o Rec) = Len(rbuf) + 1 + Len(Rec)
          /\ Len(rbuf \o Rec) = Len(rbuf) + Len(Rec)
      BY <1>1, <2>2, <3>1, RecordLengths
    <3>3. Len(rbuf) <= tlen /\ (tlen > 0 => tlen <= BUF_SIZE - 2)
      BY <2>5, <3>1 DEF Holds
    <3> DEFINE text == IF tlen > 0 THEN Append(rbuf, NL) ELSE rbuf
    <3>4. ~Overruns(text)
      BY <3>2, <3>3 DEF Overruns
    <3>5. TooMuch(tlen + Len(Rec)) \/ ~Overruns(text \o Rec)
      BY <3>2, <3>3 DEF Overruns, TooMuch
    <3>6. pc' # "wild"
      <4>1. IF Rec = <<>> \/ TooMuch(tlen + Len(Rec)) THEN Return(text)
            ELSE IF Overruns(text \o Rec) THEN Goes("wild", <<>>)
            ELSE pc' = pc
        BY <2>5, <3>4 DEF ReadRecord
      <4> HIDE DEF text
      <4> QED
        BY <3>1, <3>5, <4>1 DEF Return, Goes
    <3> QED
      BY <1>1, <3>6
  <2>6. CASE ReadRecord /\ TwoLines(took)
    BY <2>6 DEF ReadRecord
  <2> QED
    BY <2>1, <2>3, <2>4, <2>5, <2>6
<1>2. FifoTypes /\ AllThere /\ CallInv /\ [Next]_vars => [Over]_vars
  BY <1>1
<1> QED
  BY <1>2, CallInvariant, PTL DEF Spec, OverrunNeedsLines

-----------------------------------------------------------------------------
(* What the calls return.                                                  *)

ReadlnReturns ==
    pc = "readln" /\ pc' = "idle" =>
        /\ rbuf' = took'
        /\ IF took' = <<>> THEN pipe = <<>> ELSE HasLine(took') /\ Behind(took') = <<>>
ReadReturns ==
    pc = "read" /\ pc' = "idle" =>
        \/ IsBlock(took') /\ took' = Append(rbuf', NL)
        \/ /\ pipe = <<>> /\ took' = took
           /\ took' = IF rbuf' = <<>> THEN <<>> ELSE Append(rbuf', NL)
        \/ took' # took /\ Len(took') > BUF_SIZE - 1 /\ rbuf' = took

LEMMA ReadlnStep ==
    ASSUME FifoTypes, AllThere, CallInv, [Next]_vars
    PROVE  ReadlnReturns
<1> SUFFICES ASSUME pc = "readln", pc' = "idle"
             PROVE  /\ rbuf' = took'
                    /\ IF took' = <<>> THEN pipe = <<>> ELSE HasLine(took') /\ Behind(took') = <<>>
  BY DEF ReadlnReturns
<1>0. took = <<>> /\ rbuf = <<>>
  BY DEF CallInv
<1>1. (ReadLine /\ ~EndMissing) \/ ReadNone
  BY DEF Next, Reader, Call, ReadRecord, ReadLine, NoRecord, ReadSome, Goes, Write, Wild, vars, call
<1>2. CASE ReadLine /\ ~EndMissing
  <2>1. HasLine(head) /\ took' = Append(took \o Rec, NL) /\ rbuf' = Append(Rec, NL)
    BY <1>2 DEF ReadLine, FlowGet, Return, Goes
  <2>2. Rec \in Seq({TEXT}) /\ Rec \in Seq(Chars) /\ Append(Rec, NL) \in Seq(Chars) /\ <<>> \in Seq(Chars)
    BY <2>1, NextLine, TextTyped, EmptySeq
  <2>3. took' = Append(Rec, NL)
    BY <1>0, <2>1, <2>2, ConcatEmptySeq
  <2>4. took' = Join(Append(Rec, NL), <<>>)
    BY <2>2, <2>3, JoinEmpty
  <2>5. HasLine(took') /\ Behind(took') = <<>>
    BY <2>2, <2>4, LineOf
  <2>6. took' # <<>>
    BY <2>3, <2>2, AppendProperties DEF Chars
  <2> QED
    BY <2>1, <2>3, <2>5, <2>6
<1>3. CASE ReadNone
  BY <1>0, <1>3 DEF ReadNone, Return, Goes, ghosts
<1> QED
  BY <1>1, <1>2, <1>3

LEMMA ReadStep ==
    ASSUME FifoTypes, AllThere, CallInv, [Next]_vars
    PROVE  ReadReturns
<1> SUFFICES ASSUME pc = "read", pc' = "idle"
             PROVE  \/ IsBlock(took') /\ took' = Append(rbuf', NL)
                    \/ /\ pipe = <<>> /\ took' = took
                       /\ took' = IF rbuf' = <<>> THEN <<>> ELSE Append(rbuf', NL)
                    \/ took' # took /\ Len(took') > BUF_SIZE - 1 /\ rbuf' = took
  BY DEF ReadReturns
<1>0. Holds
  BY DEF CallInv
<1>1. (ReadRecord /\ ~EndMissing) \/ ReadNone
  BY DEF Next, Reader, Call, ReadRecord, ReadLine, NoRecord, ReadSome, Goes, Write, Wild, vars, call
<1>2. CASE ReadRecord /\ ~EndMissing
  <2> DEFINE text == IF tlen > 0 THEN Append(rbuf, NL) ELSE rbuf
  <2>1. /\ HasLine(head) /\ took' = Append(took \o Rec, NL)
        /\ Rec = <<>> \/ TooMuch(tlen + Len(Rec))
        /\ rbuf' = text
    BY <1>2 DEF ReadRecord, FlowGet, Return, Goes
  <2>2. /\ Rec \in Seq({TEXT}) /\ Rec \in Seq(Chars)
        /\ took \in Seq(Chars) /\ rbuf \in Seq(Chars) /\ tlen \in Nat /\ BUF_SIZE \in Nat \ {0}
        /\ Len(Rec) \in Nat /\ Len(rbuf) \in Nat /\ Len(took) \in Nat
        /\ Len(Append(rbuf, NL)) = Len(rbuf) + 1
        /\ Len(Append(took \o Rec, NL)) = Len(took) + Len(Rec) + 1
    BY <1>0, <2>1, RecordLengths
  <2>3. text = took
    BY <1>0, <2>2 DEF Holds
  <2> HIDE DEF text
  <2>4. CASE Rec = <<>>
    <3>1. took' = Append(took, NL)
      BY <2>1, <2>2, <2>4, ConcatEmptySeq
    <3>2. /\ Len(took') = Len(took) + 1 /\ took'[Len(took) + 1] = NL
          /\ \A i \in 1 .. Len(took) : took'[i] = took[i]
      <4>1. NL \in Chars
        BY DEF Chars
      <4> QED
        BY <2>2, <3>1, <4>1, AppendProperties
    <3>3. Len(took) > 0 => took[Len(took)] = NL
      <4>1. CASE tlen > 0
        <5>1. took = Append(rbuf, NL) /\ NL \in Chars
          BY <1>0, <4>1 DEF Holds, Chars
        <5> QED
          BY <2>2, <5>1, AppendProperties
      <4>2. CASE ~(tlen > 0)
        BY <1>0, <4>2 DEF Holds
      <4> QED
        BY <4>1, <4>2
    <3>4. took' # <<>> /\ took'[Len(took')] = NL
      BY <2>2, <3>2
    <3>5. Len(took') > 1 => took'[Len(took') - 1] = NL
      BY <2>2, <3>2, <3>3
    <3>6. ASSUME NEW i \in 1 .. Len(took') - 1, took'[i] = NL
          PROVE  i > 1 /\ (i < Len(took') - 1 => took'[i + 1] # NL)
      <4>1. i \in 1 .. Len(took) /\ took[i] = NL
        BY <2>2, <3>2, <3>6
      <4>2. i > 1 /\ (i < Len(took) => took[i + 1] # NL)
        BY <1>0, <4>1 DEF Holds, NoEmptyLine
      <4>3. i < Len(took) => took'[i + 1] = took[i + 1]
        BY <2>2, <3>2, <4>1
      <4> QED
        BY <2>2, <3>2, <4>2, <4>3
    <3>7. IsBlock(took')
      BY <3>4, <3>5, <3>6 DEF IsBlock
    <3> QED
      BY <2>1, <2>3, <3>1, <3>7
  <2>5. CASE TooMuch(tlen + Len(Rec))
    <3>1. tlen <= Len(took)
      <4>1. tlen > 0 => Len(took) = Len(rbuf) + 1
        BY <1>0, <2>2 DEF Holds
      <4> QED
        BY <1>0, <2>2, <4>1 DEF Holds
    <3>2. Len(took') = Len(took) + Len(Rec) + 1
      BY <2>1, <2>2
    <3>3. Len(took') > BUF_SIZE - 1
      BY <2>2, <2>5, <3>1, <3>2 DEF TooMuch
    <3>4. took' # took
      BY <2>2, <3>2
    <3> QED
      BY <2>1, <2>3, <3>3, <3>4
  <2> QED
    BY <2>1, <2>4, <2>5
<1>3. CASE ReadNone
  <2>1. pipe = <<>> /\ rbuf' = rbuf /\ took' = took
    BY <1>3 DEF ReadNone, Return, Goes, ghosts
  <2>2. tlen > 0 => rbuf # <<>>
    <3>1. tlen \in Nat /\ Len(<<>>) = 0
      BY DEF FifoTypes
    <3> QED
      BY <1>0, <3>1 DEF Holds
  <2>3. took = IF rbuf = <<>> THEN <<>> ELSE Append(rbuf, NL)
    BY <1>0, <2>2 DEF Holds
  <2> QED
    BY <2>1, <2>3
<1> QED
  BY <1>1, <1>2, <1>3

\* What a call returns is what it took from the flow, all of it and in order: one
\* line, or one block; or the lines there are, when there is no more to be read, or
\* those in front of a line that is too much.  For buffers of any size.
THEOREM CallsReturnWhatTheyTook == Spec => ReturnsWhatItTook
<1>1. FifoTypes /\ AllThere /\ CallInv /\ [Next]_vars => [ReadlnReturns /\ ReadReturns]_vars
  BY ReadlnStep, ReadStep
<1> QED
  BY <1>1, CallInvariant, PTL DEF Spec, ReturnsWhatItTook, ReadlnReturns, ReadReturns
=============================================================================
