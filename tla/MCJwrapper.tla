----------------------------- MODULE MCJwrapper -----------------------------
(***************************************************************************)
(* Documents for Jwrapper: every kind of value in every kind of container, *)
(* alone, first and last in it, and four levels deep.                      *)
(***************************************************************************)
EXTENDS JsonDoc

Leaves == {Str("x"), Num(7)}
Prims == {True, False, Null}

\* Objects and arrays of leaves, with a field twice and an empty one.
Names == {Str("a"), Str("b")}
Small == {Obj(<<>>)} \cup {Obj(<<n, v>>) : n \in Names, v \in Leaves}
Pairs == {Obj(<<Str("a"), v, n, w>>) : v \in Leaves, n \in Names, w \in Leaves \cup {Obj(<<Str("b"), Str("z")>>)}}
Lists == {Arr(<<>>), Arr(<<Str("x")>>), Arr(<<Num(7), Str("x")>>)}

\* Arrays of two, with objects and arrays in them.
Elements == Leaves \cup Prims \cup Small \cup Lists \cup {Obj(<<Str("a"), Str("x"), Str("b"), Num(7)>>)}
Arrays ==
    {Arr(<<v>>) : v \in Elements} \cup {Arr(<<v, w>>) : v, w \in Elements}

\* One level more.
Nested ==
    {Obj(<<Str("b"), v>>) : v \in Small \cup Pairs \cup Lists}
        \cup {Obj(<<Str("b"), Arr(<<v, w>>)>>) : v \in Small \cup Lists, w \in Leaves \cup Small}
        \cup {Arr(<<Obj(<<Str("a"), v>>), w>>) : v \in Small \cup Lists \cup {Arr(<<Obj(<<Str("b"), Null>>)>>)}, w \in Leaves \cup Small}

Deep == {Obj(<<Str("b"), v>>) : v \in Nested} \cup {Arr(<<v>>) : v \in Nested}

Values == Leaves \cup Prims \cup Small \cup Pairs \cup Lists \cup Arrays \cup Nested \cup Deep

\* What comes before or after it in the document, under another name or its own.
Others == {Str("y"), Obj(<<Str("b"), Num(5)>>), Arr(<<Str("y")>>), Arr(<<Obj(<<Str("a"), Null>>)>>)}

\* Not json: a name that is not a string, a name without a value, names that the
\* tables use.
Odd ==
    { Broken, Arr(<<Num(7)>>), Obj(<<Num(1), Num(2)>>), Obj(<<Str("a")>>),
      Obj(<<Str("a"), Obj(<<Num(1), Num(2)>>)>>),
      Obj(<<Str("a"), Arr(<<Obj(<<Num(1), Num(2)>>)>>)>>),
      Obj(<<Str("a"), Obj(<<Str("b"), Num(2), Str("c")>>), Str("b"), Num(3)>>),
      Obj(<<Str("a"), Obj(<<Str("b"), Num(2)>>), Str("a_json"), Num(3)>>),
      Obj(<<Str("a_json"), Num(3), Str("a"), Obj(<<Str("b"), Num(2)>>)>>),
      Obj(<<Str("a_json"), Obj(<<Str("b"), Num(2)>>), Str("a"), Obj(<<Str("b"), Num(2)>>)>>),
      Obj(<<Str("_jw_json_string"), Str("x"), Str("a"), Str("y")>>),
      Obj(<<Str("a.b"), Num(3), Str("a"), Obj(<<Str("b"), Num(2)>>)>>) }

MCDocs ==
    Odd \cup {Obj(<<>>)}
        \cup {Obj(<<Str("a"), v>>) : v \in Values}
        \cup {Obj(<<Str("a"), v, n, w>>) : v \in Values, n \in Names, w \in Others}
        \cup {Obj(<<Str("c"), w, Str("a"), v>>) : v \in Values, w \in Others}
=============================================================================
