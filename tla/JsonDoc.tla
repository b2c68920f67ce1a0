------------------------------- MODULE JsonDoc -------------------------------
(***************************************************************************)
(* Json documents as trees, and the tokens the external parser (jsmn)      *)
(* makes of them.                                                          *)
(*                                                                         *)
(* The parts of an object are name, value, name, value ...; the parser is  *)
(* not strict, so a name can be any value and the last may lack its value. *)
(***************************************************************************)
EXTENDS Jwrapper

Value(type, text, num, parts) ==
    [type |-> type, text |-> text, num |-> num, parts |-> parts]

Str(s) == Value("STRING", s, 0, <<>>)
Num(x) == Value("PRIMITIVE", "number", x, <<>>)
True == Value("PRIMITIVE", "true", 1, <<>>)
False == Value("PRIMITIVE", "false", 0, <<>>)
Null == Value("PRIMITIVE", "null", 0, <<>>)
Obj(parts) == Value("OBJECT", "", 0, parts)
Arr(parts) == Value("ARRAY", "", 0, parts)

\* A text that is not json, or has more tokens than there is room for.
Broken == Value("UNDEFINED", "", 0, <<>>)

-----------------------------------------------------------------------------
(* Tokens: the value itself, and then those of its parts.                  *)

RECURSIVE Tokens(_)
Tokens(v) ==
    LET inner == FlattenSeq([k \in DOMAIN v.parts |-> Tokens(v.parts[k])])
    IN  << [ type |-> v.type, text |-> v.text, num |-> v.num,
             size |-> Len(v.parts), span |-> 1 + Len(inner) ] >> \o inner
=============================================================================
