---------------------------- MODULE CommandLine ------------------------------
(***************************************************************************)
(* crack_args (crack_args.c): the command line of the gobbler.             *)
(*                                                                         *)
(* A word is a cluster of option letters, or a name: a word that does not  *)
(* begin with a dash, or is "--".  The scan is a step per word and per     *)
(* letter; its state is the words not yet read, the letters left in the    *)
(* current word, the options, and the exit status (-1 while there is none). *)
(***************************************************************************)
EXTENDS Integers, Sequences, FiniteSets, SequencesExt

Cluster(letters) == [dash |-> TRUE, letters |-> letters]
Name(n) == [dash |-> FALSE, letters |-> <<n>>]

\* Without -s there is no simulation.
NoSim == Name("nil")

Defaults ==
    [ cfg_fname |-> Name("./gobbler.cfg"), dump_size |-> Name("0"), sim_id |-> NoSim,
      async |-> TRUE, forreal |-> TRUE, expand |-> FALSE ]

\* The letters that take the next word for themselves, and what it is for.
TakesWord == [c |-> "cfg_fname", d |-> "dump_size", s |-> "sim_id"]
Switches == [e |-> "expand", i |-> "async", n |-> "forreal"]

Scan(argv) == [rest |-> argv, opt |-> <<>>, options |-> Defaults, exit |-> -1, done |-> FALSE]

\* The next word: the scan ends at one that is not a cluster of options.
NextWord(s) ==
    IF s.rest = <<>> \/ ~Head(s.rest).dash
    THEN [s EXCEPT !.done = TRUE]
    ELSE [s EXCEPT !.opt = Head(s.rest).letters, !.rest = Tail(@)]

\* Faulty variant: the word is read and not passed.
get_nxt_Peeks(s, field) ==
    IF s.rest = <<>>
    THEN [s EXCEPT !.exit = 1, !.done = TRUE]
    ELSE [s EXCEPT !.options[field] = Head(s.rest), !.opt = Tail(@)]

\* The letter's own word is the next one not yet taken, whatever it looks like;
\* without one the process exits.
get_nxt(s, field) ==
    IF s.rest = <<>>
    THEN [s EXCEPT !.exit = 1, !.done = TRUE]
    ELSE [s EXCEPT !.options[field] = Head(s.rest), !.opt = Tail(@), !.rest = Tail(@)]

\* One letter.  -v only changes what is logged.
Letter(s) ==
    LET l == Head(s.opt)
    IN  CASE l \in DOMAIN TakesWord -> get_nxt(s, TakesWord[l])
          [] l \in DOMAIN Switches -> [s EXCEPT !.options[Switches[l]] = ~Defaults[Switches[l]],
                                                !.opt = Tail(@)]
          [] l = "v" -> [s EXCEPT !.opt = Tail(@)]
          [] l = "?" -> [s EXCEPT !.exit = 0, !.done = TRUE]
          [] OTHER -> [s EXCEPT !.exit = 1, !.done = TRUE]

\* A step of crack_args' two loops.
ScanStep(s) == IF s.opt = <<>> THEN NextWord(s) ELSE Letter(s)

-----------------------------------------------------------------------------
(* What was meant: a command line is given in groups, each a cluster of     *)
(* letters with the words its letters take, in their order.                 *)

Words(groups) ==
    FlattenSeq([g \in 1 .. Len(groups) |->
                    <<Cluster(groups[g].letters)>> \o groups[g].data])

\* How many of the first n letters take a word.
Taken(letters, n) == Cardinality({k \in 1 .. n : letters[k] \in DOMAIN TakesWord})

\* Only the last group may have fewer words than its letters take (an error), or
\* more: these are ignored, as the first of them is no cluster.
Word == [dash : BOOLEAN, letters : Seq(STRING)]
InGroups(groups) ==
    /\ groups \in Seq([letters : Seq(STRING), data : Seq(Word)])
    /\ \A g \in 1 .. Len(groups) :
        LET n == Taken(groups[g].letters, Len(groups[g].letters))
        IN  /\ g < Len(groups) => Len(groups[g].data) = n
            /\ Len(groups[g].data) > n => ~groups[g].data[n + 1].dash

\* The places, as group and letter, at which letters are given.
Places(groups) == UNION {{g} \X (1 .. Len(groups[g].letters)) : g \in 1 .. Len(groups)}

LastOf(places) ==
    CHOOSE p \in places : \A q \in places : q[1] < p[1] \/ (q[1] = p[1] /\ q[2] <= p[2])

\* The word for the letter in a place.
WordAt(groups, p) == groups[p[1]].data[Taken(groups[p[1]].letters, p[2])]

\* The options that the letters in some of the places ask for: of a letter given
\* more than once, the last word counts.
OptionsFor(groups, places) ==
    LET Said(l) == {p \in places : groups[p[1]].letters[p[2]] = l}
        Given(l) == IF Said(l) = {} THEN Defaults[TakesWord[l]]
                    ELSE WordAt(groups, LastOf(Said(l)))
    IN  [ cfg_fname |-> Given("c"), dump_size |-> Given("d"), sim_id |-> Given("s"),
          async |-> Said("i") = {}, forreal |-> Said("n") = {}, expand |-> Said("e") # {} ]

Meant(groups) == OptionsFor(groups, Places(groups))
=============================================================================
