----------------------------- MODULE JsonReader -----------------------------
(***************************************************************************)
(* UniValue::read, UniValue::write and find_value of src/src/univalue: the *)
(* reader that all answers of the device go through.                       *)
(*                                                                         *)
(* A text is a sequence of tokens as getJsonToken tells them apart; every  *)
(* token is represented by one byte.  A value has the members of class     *)
(* UniValue.  The reader keeps a stack of the values that are open; here   *)
(* each of them joins its parent when it is closed, or at the end.         *)
(***************************************************************************)
EXTENDS Naturals, Sequences, SequencesExt

\* Tokens: a keyword is its first letter, a number a digit, a string any byte
\* from 128 on; another byte starts no token, and the reader stops there.
ObjOpen == 123
ObjClose == 125
ArrOpen == 91
ArrClose == 93
Colon == 58
Comma == 44
Keywords == {110, 116, 102}    \* null, true, false
Numbers == 48..57
Strings == 128..255

Value(typ, val) == [typ |-> typ, val |-> val, keys |-> <<>>, values |-> <<>>]
Null == Value("null", 0)
Object(keys, values) == [Value("object", 0) EXCEPT !.keys = keys, !.values = values]
Array(values) == [Value("array", 0) EXCEPT !.values = values]
Keyword(k) == IF k = 110 THEN Null ELSE Value("bool", k)
Number(n) == Value("number", n)
String(s) == Value("string", s)

\* A value whose members are in S.
IsValue(v, S) ==
    \/ v \in {Keyword(k) : k \in Keywords} \cup {Number(n) : n \in Numbers}
             \cup {String(s) : s \in Strings}
    \/ v.values \in Seq(S) /\ v = Array(v.values)
    \/ /\ v.values \in Seq(S) /\ v.keys \in Seq(Strings) /\ Len(v.keys) = Len(v.values)
       /\ v = Object(v.keys, v.values)

find_value(obj, name) ==
    LET places == {i \in DOMAIN obj.keys \cap DOMAIN obj.values : obj.keys[i] = name}
    IN  IF places = {} THEN Null
        ELSE obj.values[CHOOSE i \in places : \A j \in places : i <= j]
-----------------------------------------------------------------------------
(***************************************************************************)
(* write, without indentation.                                             *)
(***************************************************************************)
Separated(texts) ==
    FlattenSeq([i \in DOMAIN texts |-> IF i = 1 THEN texts[i] ELSE <<Comma>> \o texts[i]])

\* The texts of a set of values that contains the values of its members.
Texts(S) ==
    LET write[v \in S] ==
          CASE v.typ = "object" ->
                 <<ObjOpen>> \o Separated([i \in DOMAIN v.values |->
                     <<v.keys[i], Colon>> \o write[v.values[i]]]) \o <<ObjClose>>
            [] v.typ = "array" ->
                 <<ArrOpen>> \o Separated([i \in DOMAIN v.values |-> write[v.values[i]]])
                             \o <<ArrClose>>
            [] v = Null -> <<110>>
            [] OTHER -> <<v.val>>
    IN  [v \in S |-> write[v]]
-----------------------------------------------------------------------------
(***************************************************************************)
(* read: the loop over the tokens.                                         *)
(***************************************************************************)
Start == [stack |-> <<>>, root |-> Null, expectName |-> FALSE, expectColon |-> FALSE,
          last |-> 0, state |-> "run"]

Top(r) == Last(r.stack)
AddValue(node, v) == [node EXCEPT !.values = Append(@, v)]
Refused(r) == [r EXCEPT !.state = "false"]

\* A value outside of any other replaces what was read before it.
OnOpen(r, typ) == [r EXCEPT !.stack = Append(@, Value(typ, 0)),
                            !.root = IF r.stack = <<>> THEN Null ELSE @,
                            !.expectName = @ \/ typ = "object"]

\* The stack without its top, which is added to the value below it.
Joined(stack) == LET below == Front(Front(stack))
                 IN  Append(below, AddValue(Last(Front(stack)), Last(stack)))

Closed(r) == IF Len(r.stack) = 1 THEN [r EXCEPT !.stack = <<>>, !.root = Top(r)]
                                 ELSE [r EXCEPT !.stack = Joined(@)]

\* Mutant of OnClose: an empty object leaves the reader waiting for a name.
BugKeepName(r, typ) ==
    IF r.stack = <<>> \/ r.expectColon \/ r.last = Comma \/ Top(r).typ # typ
      THEN Refused(r)
      ELSE Closed(r)

OnClose(r, typ) ==
    IF r.stack = <<>> \/ r.expectColon \/ r.last = Comma \/ Top(r).typ # typ
      THEN Refused(r)
      ELSE [Closed(r) EXCEPT !.expectName = FALSE]

OnColon(r) ==
    IF r.stack = <<>> \/ r.expectName \/ ~r.expectColon \/ Top(r).typ # "object"
      THEN Refused(r)
      ELSE [r EXCEPT !.expectColon = FALSE]

OnComma(r) ==
    IF r.stack = <<>> \/ r.expectName \/ r.expectColon \/ r.last \in {Comma, ArrOpen}
      THEN Refused(r)
      ELSE [r EXCEPT !.expectName = @ \/ Top(r).typ = "object"]

OnValue(r, v) ==
    IF r.stack = <<>> \/ r.expectName \/ r.expectColon
      THEN Refused(r)
      ELSE [r EXCEPT !.stack[Len(r.stack)] = AddValue(@, v)]

\* Where a name is expected it is a name, elsewhere a value.
OnString(r, s) ==
    IF r.stack = <<>>
      THEN Refused(r)
      ELSE IF r.expectName
        THEN [r EXCEPT !.stack[Len(r.stack)].keys = Append(@, s),
                       !.expectName = FALSE,
                       !.expectColon = TRUE]
        ELSE [r EXCEPT !.stack[Len(r.stack)] = AddValue(@, String(s))]

OnToken(r, tok) ==
    CASE r.state # "run" -> r
      [] tok = ObjOpen -> OnOpen(r, "object")
      [] tok = ArrOpen -> OnOpen(r, "array")
      [] tok = ObjClose -> OnClose(r, "object")
      [] tok = ArrClose -> OnClose(r, "array")
      [] tok = Colon -> OnColon(r)
      [] tok = Comma -> OnComma(r)
      [] tok \in Keywords -> OnValue(r, Keyword(tok))
      [] tok \in Numbers -> OnValue(r, Number(tok))
      [] tok \in Strings -> OnString(r, tok)
      [] OTHER -> [r EXCEPT !.state = "stop"]

\* What the object of the caller holds in the end, also if read returns false.
Root(r) == IF r.stack = <<>> THEN r.root
           ELSE FoldRight(LAMBDA node, child : AddValue(node, child), Front(r.stack), Top(r))

\* The reader after each of the tokens.
Run(text) ==
    LET r[n \in 0..Len(text)] ==
          IF n = 0 THEN Start ELSE [OnToken(r[n - 1], text[n]) EXCEPT !.last = text[n]]
    IN  r

read(text) == LET r == Run(text)[Len(text)]
              IN  [ok |-> r.state # "false" /\ r.stack = <<>>, value |-> Root(r)]
=============================================================================
