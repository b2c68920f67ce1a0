------------------------------ MODULE Jwrapper ------------------------------
(***************************************************************************)
(* The json wrapper, jwrapper.c: a document is parsed into symbol tables,  *)
(* looked up, and nuked.                                                   *)
(*                                                                         *)
(* parse_jobject calls itself: stack holds the frames of the calls in      *)
(* progress.  An object is parsed twice, once into the table of the object *)
(* around it and once into a table of its own; each parse is over a copy   *)
(* of the object's text, so its tokens are those of the document from      *)
(* frame.first on.  A table is freed with the texts mapped in it; using it *)
(* after that is undefined, and ends the behaviours here ("wild").         *)
(* Allocation never fails.                                                 *)
(*                                                                         *)
(* The parser that makes the tokens, jsmn, is not part of the repository;  *)
(* JsonDoc gives its tokens for documents that are trees.                  *)
(***************************************************************************)
EXTENDS Integers, Sequences, SequencesExt, FiniteSets

CONSTANTS
    Docs,           \* the documents
    jsmn_parse(_),  \* the tokens the external parser makes of a document
    NIL             \* the nil pointer

-----------------------------------------------------------------------------
(* Tokens, in the order of the text.  Of their places in the text only what *)
(* the code compares them for is kept: span, the number of tokens that lie *)
(* within one, itself included.                                            *)

\* The last token within the one at i, and those in it.
EndIn(ts, i) == i + ts[i].span - 1
InsideOf(ts, i) == i + 1 .. EndIn(ts, i)

\* Those of them that are in no other: the elements of an array, the names and
\* values of an object.
PartsOf(ts, i) ==
    {k \in InsideOf(ts, i) : \A o \in InsideOf(ts, i) : o < k => EndIn(ts, o) < k}

\* Tokens nest, strings and primitives have none inside, and the size of an
\* array is the number of its elements.
WellNested(ts) ==
    \A i \in DOMAIN ts :
        /\ ts[i].span \in Nat \ {0} /\ ts[i].size \in Nat
        /\ EndIn(ts, i) <= Len(ts)
        /\ \A k \in InsideOf(ts, i) : EndIn(ts, k) <= EndIn(ts, i)
        /\ ts[i].type \in {"STRING", "PRIMITIVE"} => ts[i].span = 1
        /\ ts[i].type = "ARRAY" => ts[i].size = Cardinality(PartsOf(ts, i))

\* What the parser promises; num is the number a text stands for.  When it fails
\* there is one token to look at, which has no type.
TokensAssumption ==
    \A d \in Docs :
        LET ts == jsmn_parse(d)
        IN  /\ ts \in Seq({ts[k] : k \in DOMAIN ts}) /\ Len(ts) > 0
            /\ WellNested(ts)
            /\ \A k \in DOMAIN ts : ts[k].type = "PRIMITIVE" =>
                    /\ ts[k].text = "true" => ts[k].num = 1
                    /\ ts[k].text \in {"false", "null"} => ts[k].num = 0
            /\ \A k \in DOMAIN ts :
                    \/ ts[k].type \in {"OBJECT", "ARRAY", "STRING", "PRIMITIVE"}
                    \/ ts[k].type = "UNDEFINED" /\ Len(ts) = 1

NilAssumption == NIL \notin Nat

ASSUME TokensAssumption
ASSUME NilAssumption

VARIABLES
    doc, toks,      \* the document and its tokens; neither changes
    phase,          \* "new", "parse", "ready", "null", "nuke", "gone", "wild"
    tables,         \* sequence of [map, freed, of]: a symbol table, the times it
                    \* was freed, and the object it is for, which nothing in
                    \* the code keeps
    texts,          \* per text that was copied, the times it was freed
    stack           \* frames of parse_jobject, then those of jw_nuke

vars == <<doc, toks, phase, tables, texts, stack>>

NoMap == [n \in {} |-> NIL]
NewTable(o, map) == [map |-> map, freed |-> 0, of |-> o]

Init ==
    /\ doc \in Docs
    /\ toks = jsmn_parse(doc)
    /\ phase = "new"
    /\ tables = <<>>
    /\ texts = <<>>
    /\ stack = <<>>

-----------------------------------------------------------------------------
(* Things, and the tables that hold them.                                  *)

JSON_SYM_NAME == "_jw_json_string"

\* jthing_t: ref is the text of a string or the table of an object, ele the
\* elements of an array.  A text is in its table next to the things.
Thing(type, prim, ref, val, ele) ==
    [type |-> type, prim |-> prim, ref |-> ref, val |-> val, ele |-> ele]
TextEntry(x) == Thing("TEXT", "UNKNOWN", x, NIL, <<>>)
OwnText(x) == [n \in {JSON_SYM_NAME} |-> TextEntry(x)]
Undefined == Thing("UNDEFINED", "UNKNOWN", 0, 0, <<>>)
ObjectThing(t) == Thing("OBJECT", "UNKNOWN", t, 0, <<>>)

\* What the first letter of a primitive says.
PrimType(text) ==
    CASE text \in {"true", "false"} -> "BOOL"
      [] text = "null" -> "NULL"
      [] OTHER -> "VALUE"

Fv(tok) ==
    CASE tok.text = "true" -> 1
      [] tok.text \in {"false", "null"} -> 0
      [] OTHER -> tok.num

\* A string stays where it is in the text, a primitive is converted.
Scalar(tok, x) ==
    IF tok.type = "STRING"
    THEN Thing("STRING", "UNKNOWN", x, tok.text, <<>>)
    ELSE Thing("PRIMITIVE", PrimType(tok.text), 0, Fv(tok), <<>>)

\* sym_fmap: what the name had before is not freed.
Mapped(t, name, thing) ==
    [tables[t] EXCEPT !.map = [n \in DOMAIN @ \cup {name} |-> IF n = name THEN thing ELSE @[n]]]

HeldTexts(t) ==
    {tables[t].map[n].ref : n \in {m \in DOMAIN tables[t].map : tables[t].map[m].type = "TEXT"}}

\* sym_free: the table goes, and the texts and things mapped in it.
FreeTable(t) ==
    /\ tables' = [tables EXCEPT ![t].freed = @ + 1]
    /\ texts' = [x \in DOMAIN texts |-> texts[x] + IF x \in HeldTexts(t) THEN 1 ELSE 0]

Live(t) == tables[t].freed = 0

Wild ==
    /\ phase' = "wild"
    /\ stack' = <<>>
    /\ UNCHANGED <<doc, toks, tables, texts>>

-----------------------------------------------------------------------------
(* The frames of parse_jobject.                                            *)

Path(prefix, name) == IF prefix = "" THEN name ELSE prefix \o "." \o name

\* place: what is done next, with the token at i ("name", "value"), when an
\* inner call has returned ("again", "skip", "eleskip"), or with the element n
\* of an array, at i + n ("ele").
Frame(t, x, prefix, first) ==
    [ st |-> t, text |-> x, prefix |-> prefix, first |-> first, place |-> "name",
      i |-> first + 1, n |-> 0, size |-> 0, name |-> "" ]

Top == stack[Len(stack)]
At(place) == phase = "parse" /\ Top.place = place
SetTop(f) == [stack EXCEPT ![Len(stack)] = f]
Call(f, callee) == Append(SetTop(f), callee)

\* The last token of the call's text is njtokens-1.
End(i) == EndIn(toks, i)
LastTok(f) == End(f.first)

\* Return to the caller, which does not look at the result, or to the user.
Return(result) ==
    /\ stack' = Front(stack)
    /\ phase' = IF Len(stack) > 1 THEN phase ELSE IF result = NIL THEN "null" ELSE "ready"
    /\ UNCHANGED <<doc, toks>>

\* jw_new.  When the external parser fails there are no tokens to loop over,
\* and the type of the first can be anything.
jw_new ==
    /\ phase = "new"
    /\ tables' = << NewTable(1, OwnText(1)) >>
    /\ texts' = <<0>>
    /\ CASE toks[1].type = "OBJECT" ->
                /\ phase' = "parse"
                /\ stack' = << Frame(1, 1, "", 1) >>
         [] toks[1].type = "UNDEFINED" -> phase' \in {"ready", "null"} /\ UNCHANGED stack
         [] OTHER -> phase' = "null" /\ UNCHANGED stack
    /\ UNCHANGED <<doc, toks>>

\* The loop is over: the last token is not looked at as a name.
ObjectDone ==
    /\ At("name")
    /\ Top.i >= LastTok(Top)
    /\ Return(Top.st)
    /\ UNCHANGED <<tables, texts>>

BadName ==
    /\ At("name")
    /\ Top.i < LastTok(Top)
    /\ toks[Top.i].type # "STRING"
    /\ FreeTable(Top.st)
    /\ Return(NIL)

Name ==
    /\ At("name")
    /\ Top.i < LastTok(Top)
    /\ toks[Top.i].type = "STRING"
    /\ stack' = SetTop([Top EXCEPT !.name = Path(Top.prefix, toks[Top.i].text),
                                   !.i = @ + 1,
                                   !.place = "value"])
    /\ UNCHANGED <<doc, toks, phase, tables, texts>>

ScalarValue ==
    /\ At("value")
    /\ toks[Top.i].type \in {"STRING", "PRIMITIVE"}
    /\ tables' = [tables EXCEPT ![Top.st] = Mapped(Top.st, Top.name, Scalar(toks[Top.i], Top.text))]
    /\ stack' = SetTop([Top EXCEPT !.i = @ + 1, !.place = "name"])
    /\ UNCHANGED <<doc, toks, phase, texts>>

\* An object, first: a copy of its text is mapped in this table, and its fields
\* are added to this table under its name.
ObjectValue ==
    /\ At("value")
    /\ toks[Top.i].type = "OBJECT"
    /\ LET x == Len(texts) + 1
       IN  /\ texts' = Append(texts, 0)
           /\ tables' = [tables EXCEPT ![Top.st] = Mapped(Top.st, Top.name \o "_json", TextEntry(x))]
           /\ stack' = Call([Top EXCEPT !.place = "again"], Frame(Top.st, x, Top.name, Top.i))
    /\ UNCHANGED <<doc, toks, phase>>

\* Then: the object itself, with a table and another copy of the text.
ObjectAgain ==
    /\ At("again")
    /\ IF Live(Top.st)
       THEN LET x == Len(texts) + 1
                t == Len(tables) + 1
            IN  /\ texts' = Append(texts, 0)
                /\ tables' = Append([tables EXCEPT ![Top.st] = Mapped(Top.st, Top.name, ObjectThing(t))],
                                    NewTable(Top.i, OwnText(x)))
                /\ stack' = Call([Top EXCEPT !.place = "skip"], Frame(t, x, "", Top.i))
                /\ UNCHANGED <<doc, toks, phase>>
       ELSE Wild

\* Faulty variants: the i-- is missing, or the loop stops one short.
SkipWithin_Far(f, i) == i + 1 + Cardinality({j \in i + 1 .. LastTok(f) - 1 : j <= End(i)})
SkipWithin_Short(f, i) == i + Cardinality({j \in i + 1 .. LastTok(f) - 1 : j < End(i)})

\* The while loop over the tokens within the one at i, with the i-- after it.
\* It, too, leaves out the last token.
SkipWithin(f, i) == i + Cardinality({j \in i + 1 .. LastTok(f) - 1 : j <= End(i)})

ObjectSkip ==
    /\ At("skip")
    /\ stack' = SetTop([Top EXCEPT !.i = SkipWithin(Top, @) + 1, !.place = "name"])
    /\ UNCHANGED <<doc, toks, phase, tables, texts>>

ArrayValue ==
    /\ At("value")
    /\ toks[Top.i].type = "ARRAY"
    /\ LET size == toks[Top.i].size
           jarray == Thing("ARRAY", "UNKNOWN", 0, 0, [k \in 1 .. size |-> Undefined])
       IN  /\ tables' = [tables EXCEPT ![Top.st] = Mapped(Top.st, Top.name, jarray)]
           /\ stack' = SetTop([Top EXCEPT !.i = @ + 1, !.n = 0, !.size = size, !.place = "ele"])
    /\ UNCHANGED <<doc, toks, phase, texts>>

AtElement(type) == At("ele") /\ Top.n < Top.size /\ toks[Top.i + Top.n].type \in type

\* jarray[n] = thing
SetElement(tabs, thing) ==
    [tabs EXCEPT ![Top.st].map[Top.name].ele[Top.n + 1] = thing]

ScalarElement ==
    /\ AtElement({"STRING", "PRIMITIVE"})
    /\ tables' = SetElement(tables, Scalar(toks[Top.i + Top.n], Top.text))
    /\ stack' = SetTop([Top EXCEPT !.n = @ + 1])
    /\ UNCHANGED <<doc, toks, phase, texts>>

\* An object in an array is parsed where it stands in the text.
ObjectElement ==
    /\ AtElement({"OBJECT"})
    /\ tables' = Append(SetElement(tables, ObjectThing(Len(tables) + 1)), NewTable(Top.i + Top.n, NoMap))
    /\ stack' = Call([Top EXCEPT !.place = "eleskip"],
                     Frame(Len(tables) + 1, Top.text, "", Top.i + Top.n))
    /\ UNCHANGED <<doc, toks, phase, texts>>

ElementSkip ==
    /\ At("eleskip")
    /\ stack' = SetTop([Top EXCEPT !.i = SkipWithin(Top, @ + Top.n) - Top.n,
                                   !.n = @ + 1,
                                   !.place = "ele"])
    /\ UNCHANGED <<doc, toks, phase, tables, texts>>

\* "this should skip the nested array": it skips elements of the outer one.
ArrayElement ==
    /\ AtElement({"ARRAY"})
    /\ stack' = SetTop([Top EXCEPT !.n = @ + toks[Top.i + Top.n].size + 1])
    /\ UNCHANGED <<doc, toks, phase, tables, texts>>

ArrayDone ==
    /\ At("ele")
    /\ Top.n >= Top.size
    /\ stack' = SetTop([Top EXCEPT !.i = @ + Top.size, !.place = "name"])
    /\ UNCHANGED <<doc, toks, phase, tables, texts>>

ParseStep ==
    \/ ObjectDone \/ BadName \/ Name \/ ScalarValue
    \/ ObjectValue \/ ObjectAgain \/ ObjectSkip
    \/ ArrayValue \/ ScalarElement \/ ObjectElement \/ ElementSkip \/ ArrayElement \/ ArrayDone

-----------------------------------------------------------------------------
(* The lookups: st is a table, ix an index as C counts.                    *)

sym_get(st, name) == IF name \in DOMAIN tables[st].map THEN tables[st].map[name] ELSE NIL

HasType(thing, type) == thing # NIL /\ thing.type = type
HasPrim(thing, prim) == thing # NIL /\ thing.prim = prim

\* The characters a string thing points at, as long as its text is there.
TextOf(thing) == IF texts[thing.ref] = 0 THEN thing.val ELSE NIL

jw_missing(st, name) == sym_get(st, name) = NIL
jw_exists(st, name) == sym_get(st, name) # NIL
jw_is_value(st, name) == HasPrim(sym_get(st, name), "VALUE")
jw_is_bool(st, name) == HasPrim(sym_get(st, name), "BOOL")
jw_is_null(st, name) == HasPrim(sym_get(st, name), "NULL")

StringIn(thing) == IF HasType(thing, "STRING") THEN TextOf(thing) ELSE NIL
ValueIn(thing) == IF HasType(thing, "PRIMITIVE") THEN thing.val ELSE 0
TableIn(thing) == IF HasType(thing, "OBJECT") THEN thing.ref ELSE NIL

jw_string(st, name) == StringIn(sym_get(st, name))
jw_value(st, name) == ValueIn(sym_get(st, name))
jw_blob(st, name) == TableIn(sym_get(st, name))

suss_array(st, name) ==
    IF HasType(sym_get(st, name), "ARRAY") THEN sym_get(st, name) ELSE NIL

suss_element(st, name, ix) ==
    LET jarray == suss_array(st, name)
    IN  IF jarray = NIL THEN NIL
        ELSE IF ix \in 0 .. Len(jarray.ele) - 1 THEN jarray.ele[ix + 1] ELSE NIL

jw_string_ele(st, name, ix) == StringIn(suss_element(st, name, ix))
jw_value_ele(st, name, ix) == ValueIn(suss_element(st, name, ix))
jw_obj_ele(st, name, ix) == TableIn(suss_element(st, name, ix))
jw_is_value_ele(st, name, ix) == HasPrim(suss_element(st, name, ix), "VALUE")
jw_is_bool_ele(st, name, ix) == HasPrim(suss_element(st, name, ix), "BOOL")
jw_is_null_ele(st, name, ix) == HasPrim(suss_element(st, name, ix), "NULL")

jw_array_len(st, name) ==
    IF suss_array(st, name) = NIL THEN -1 ELSE Len(suss_array(st, name).ele)

-----------------------------------------------------------------------------
(* jw_nuke.                                                                *)

\* Faulty variant: objects in arrays are left alone.
Inner_NoElements(t) ==
    { <<n, 0>> : n \in {m \in DOMAIN tables[t].map : tables[t].map[m].type = "OBJECT"} }

\* Where nix_things finds tables to nuke: objects, and those in arrays.
Inner(t) ==
    LET map == tables[t].map
    IN  { <<n, 0>> : n \in {m \in DOMAIN map : map[m].type = "OBJECT"} }
        \cup UNION { { <<n, k>> : k \in {j \in DOMAIN map[n].ele : map[n].ele[j].type = "OBJECT"} } :
                     n \in {m \in DOMAIN map : map[m].type = "ARRAY"} }

InnerTable(t, place) ==
    LET thing == tables[t].map[place[1]]
    IN  IF place[2] = 0 THEN thing.ref ELSE thing.ele[place[2]].ref

\* left: where sym_foreach_class and nix_things have not yet been.
NukeFrame(t) == [st |-> t, left |-> Inner(t)]

\* The user has looked up what it wanted.
jw_nuke ==
    /\ phase = "ready"
    /\ phase' = "nuke"
    /\ stack' = << NukeFrame(1) >>
    /\ UNCHANGED <<doc, toks, tables, texts>>

\* The order, that of the buckets, is the same for all tables; which it is makes
\* no difference.
NukeThing ==
    /\ phase = "nuke"
    /\ Top.left # {}
    /\ LET place == CHOOSE place \in Top.left : TRUE
           inner == InnerTable(Top.st, place)
       IN   IF Live(inner)
            THEN /\ stack' = Call([Top EXCEPT !.left = @ \ {place}], NukeFrame(inner))
                 /\ UNCHANGED <<doc, toks, phase, tables, texts>>
            ELSE Wild

NukeTable ==
    /\ phase = "nuke"
    /\ Top.left = {}
    /\ FreeTable(Top.st)
    /\ stack' = Front(stack)
    /\ phase' = IF Len(stack) = 1 THEN "gone" ELSE phase
    /\ UNCHANGED <<doc, toks>>

Next == jw_new \/ ParseStep \/ jw_nuke \/ NukeThing \/ NukeTable

Spec == Init /\ [][Next]_vars

-----------------------------------------------------------------------------
(* What the tokens of a document say.                                      *)

\* The parts of an object are name, value, name, value ...
ValuesOf(ts, o) == {v \in PartsOf(ts, o) : Cardinality({j \in PartsOf(ts, o) : j < v}) % 2 = 1}

\* The fields of the object at r: its values, those of objects that are among
\* them, and so on.  Objects in arrays have fields of their own.
Fields(ts, r) ==
    { v \in InsideOf(ts, r) :
        /\ \E o \in {r} \cup InsideOf(ts, r) : ts[o].type = "OBJECT" /\ v \in ValuesOf(ts, o)
        /\ \A o \in InsideOf(ts, r) : v \in InsideOf(ts, o) => ts[o].type = "OBJECT" }

\* A field is found under its name, which is the token before it, joined to that
\* of the object it is in, if that is a field too.
PathsIn(ts, r) ==
    LET path[v \in r .. EndIn(ts, r)] ==
            LET around == {o \in r .. v - 1 : v \in PartsOf(ts, o)}
            IN  IF around = {} THEN "" ELSE Path(path[CHOOSE o \in around : TRUE], ts[v - 1].text)
    IN  path

PathOf(ts, r, v) == PathsIn(ts, r)[v]
Paths(ts, r) == {PathOf(ts, r, v) : v \in Fields(ts, r)}

TextName(ts, r, v) == PathOf(ts, r, v) \o "_json"
TextNames(ts, r) == {TextName(ts, r, v) : v \in {w \in Fields(ts, r) : ts[w].type = "OBJECT"}}

\* No field has a name that the table uses for a text.
NoClash(ts, r) == Paths(ts, r) \cap (TextNames(ts, r) \cup {JSON_SYM_NAME}) = {}

\* No name is given twice.  (The names of texts are then different, too.)
NamesDiffer(ts, r) ==
    /\ NoClash(ts, r)
    /\ JSON_SYM_NAME \notin TextNames(ts, r)
    /\ \A v, w \in Fields(ts, r) : v # w =>
            PathOf(ts, r, v) # PathOf(ts, r, w) /\ TextName(ts, r, v) # TextName(ts, r, w)

\* No other field of that name comes later in the text, or has v within.
GivenLast(ts, r, v) ==
    \A w \in Fields(ts, r) \ {v} : PathOf(ts, r, w) = PathOf(ts, r, v) =>
            w <= EndIn(ts, v) /\ v \notin InsideOf(ts, w)

\* The element of a with ix others before it; 0 if there is none.
ElementAt(ts, a, ix) ==
    LET e == {k \in PartsOf(ts, a) : Cardinality({j \in PartsOf(ts, a) : j < k}) = ix}
    IN  IF ts[a].type = "ARRAY" /\ e # {} THEN CHOOSE k \in e : TRUE ELSE 0

\* What was looked up is the value at v, or nothing (0).
Is(v, string, value, bool, null, number, blob) ==
    LET OfType(type) == v # 0 /\ toks[v].type = type
        Reads(text) == OfType("PRIMITIVE") /\ toks[v].text \in text
    IN  /\ string = IF OfType("STRING") THEN toks[v].text ELSE NIL
        /\ value = IF OfType("PRIMITIVE") THEN toks[v].num ELSE 0
        /\ bool = Reads({"true", "false"})
        /\ null = Reads({"null"})
        /\ number = (OfType("PRIMITIVE") /\ ~Reads({"true", "false", "null"}))
        /\ IF OfType("OBJECT") THEN blob \in DOMAIN tables /\ tables[blob].of = v ELSE blob = NIL

ElementShown(t, name, ix, v) ==
    Is(v, jw_string_ele(t, name, ix), jw_value_ele(t, name, ix), jw_is_bool_ele(t, name, ix),
          jw_is_null_ele(t, name, ix), jw_is_value_ele(t, name, ix), jw_obj_ele(t, name, ix))

FieldShown(t, name, v) ==
    /\ jw_exists(t, name) /\ ~jw_missing(t, name)
    /\ Is(v, jw_string(t, name), jw_value(t, name), jw_is_bool(t, name),
             jw_is_null(t, name), jw_is_value(t, name), jw_blob(t, name))
    /\ jw_array_len(t, name) = IF toks[v].type = "ARRAY" THEN toks[v].size ELSE -1
    /\ \A ix \in -1 .. toks[v].size : ElementShown(t, name, ix, ElementAt(toks, v, ix))

-----------------------------------------------------------------------------
(* Properties.                                                             *)

\* No token is read that is not one of the call's text, whatever the document:
\* i and n move on by different rules for each kind of element, i together
\* with the skipping, n with the elements.
TokensInRange ==
    phase = "parse" =>
        /\ Top.place = "value" => Top.i \in Top.first + 1 .. LastTok(Top)
        /\ Top.place = "ele" /\ Top.n < Top.size => Top.i + Top.n \in Top.first + 1 .. LastTok(Top)

\* What the code can handle: names are strings, and no array is the element
\* of an array ("arrays aren't nested").
Handled ==
    \A i \in DOMAIN toks :
        LET parts == PartsOf(toks, i)
        IN  /\ toks[i].type = "OBJECT" =>
                    \A k \in parts : Cardinality({j \in parts : j < k}) % 2 = 0 => toks[k].type = "STRING"
            /\ toks[i].type = "ARRAY" => \A k \in parts : toks[k].type # "ARRAY"

\* jw_new and jw_nuke never use a table they have freed, fields given twice or
\* under the names of the tables' own included.
NothingUsedAfterFree == Handled => phase # "wild"

\* jw_new makes a table of an object that can be handled, and each table says
\* what its object does and no more: fields of objects are found by their joined
\* names and in the object, those in arrays in it only, and of a name given
\* twice the last.
LookupsMatchDocument ==
    Handled =>
        /\ toks[1].type = "OBJECT" =>
                phase # "null" /\ (phase = "ready" => tables[1].of = 1)
        /\ phase = "ready" =>
                \A t \in DOMAIN tables :
                    LET r == tables[t].of
                        others == DOMAIN tables[t].map \ Paths(toks, r)
                    IN  NoClash(toks, r) =>
                            /\ \A name \in others : tables[t].map[name].type = "TEXT"
                            /\ \A v \in Fields(toks, r) :
                                    GivenLast(toks, r, v) => FieldShown(t, PathOf(toks, r, v), v)

\* jw_nuke frees no table or text twice, and all of them, those within others
\* and in arrays included.  (Of a name given twice the first value is lost.)
NukeFreesOnce ==
    phase = "gone" /\ Handled =>
        /\ \A t \in DOMAIN tables : tables[t].freed <= 1
        /\ \A x \in DOMAIN texts : texts[x] <= 1
        /\ (\A t \in DOMAIN tables : NamesDiffer(toks, tables[t].of)) =>
                /\ \A t \in DOMAIN tables : tables[t].freed = 1
                /\ \A x \in DOMAIN texts : texts[x] = 1
=============================================================================
