-------------------------------- MODULE Json --------------------------------
(***************************************************************************)
(* Parsing, looking things up and construction in src/freeflow/json.hpp and    *)
(* json.cpp, as operators on texts.  A text is a sequence of characters,   *)
(* first and last are positions in it; behind the last one is the null of  *)
(* a C string.                                                             *)
(*                                                                         *)
(* A terminal is a record of kind and chars, an array or an object one of  *)
(* kind and elements.  A parse ends with a value, an "error" (an           *)
(* exception), or an "overrun": it stepped over the end of the text, and   *)
(* what it reads then is not defined.                                      *)
(***************************************************************************)
EXTENDS Integers, Sequences, SequencesExt

NUL == "nul"
QuoteMark == "\""

Space == {" "}
isnum == {"1", "e"}                   \* the characters of a number
isident == {"a", "b", "e", "1", "_"}  \* and of an identifier

Char(s, i) == IF i <= Len(s) THEN s[i] ELSE NUL

(* The first position from i on that holds no character of C. *)
After(s, i, C) ==
  CHOOSE j \in i .. Len(s) + 1 :
    (j = Len(s) + 1 \/ s[j] \notin C) /\ \A k \in i .. j - 1 : s[k] \in C

(* Bug: spaces are not skipped. *)
eat_space_None(s, i) == i
eat_space(s, i) == After(s, i, Space)

(* at is where the parse stopped, nodes how many it allocated. *)
Parsed(value, at, nodes) == [state |-> "ok", value |-> value, at |-> at, nodes |-> nodes]
Failed(state, at, nodes) == [state |-> state, value |-> NUL, at |-> at, nodes |-> nodes]

Terminal(kind, s, first, last) == [kind |-> kind, chars |-> SubSeq(s, first, last - 1)]

(* The character at i belongs to the identifier whatever it is.               *)
(* Bug: only if it can.                                                       *)
parse_identifier_Strict(s, i) ==
  LET j == After(s, i, isident) IN Parsed(Terminal("identifier", s, i, j), j, 1)
parse_identifier(s, i) ==
  IF i > Len(s) THEN Failed("overrun", i, 0)
  ELSE LET j == After(s, i + 1, isident) IN Parsed(Terminal("identifier", s, i, j), j, 1)

(* Bug: a node of its own for the sign. *)
parse_number_Sign(s, i) ==
  LET j == After(s, i + 1, isnum)
  IN  Parsed(Terminal("number", s, i, j), j, IF s[i] = "-" THEN 2 ELSE 1)
parse_number(s, i) ==
  LET j == After(s, i + 1, isnum) IN Parsed(Terminal("number", s, i, j), j, 1)

(* The position of the quote that ends a string whose characters begin at i,  *)
(* or one behind the text: a backslash takes the character behind it along,   *)
(* or the end.                                                                *)
Quote(s, i) ==
  LET from[j \in i .. Len(s) + 2] ==
        IF j > Len(s) \/ s[j] = QuoteMark THEN j ELSE from[IF s[j] = "\\" THEN j + 2 ELSE j + 1]
  IN  from[i]

(* Bug: the closing quote is taken for granted. *)
parse_string_Unchecked(s, i) ==
  LET j == Quote(s, i + 1) IN
  IF j <= Len(s) THEN Parsed(Terminal("string", s, i + 1, j), j + 1, 1)
  ELSE Failed("overrun", j, 0)
parse_string(s, i) ==
  LET j == Quote(s, i + 1) IN
  IF j <= Len(s) THEN Parsed(Terminal("string", s, i + 1, j), j + 1, 1)
  ELSE Failed(IF j = Len(s) + 1 THEN "error" ELSE "overrun", j, 0)

parse_key(s, i) ==
  LET j == eat_space(s, i)
      k == parse_string(s, j)
  IN  IF Char(s, j) # QuoteMark THEN Failed("error", j, 0)
      ELSE IF k.state # "ok" THEN k ELSE [k EXCEPT !.at = eat_space(s, @)]

(* The operators below are given p, which says how what begins at a position   *)
(* is parsed: p["value"][i] a value, p["items"][i] what is left of an array    *)
(* and p["pairs"][i] of an object.                                             *)

parse_pair(p, s, i) ==
  LET k == parse_key(s, i)
      v == p["value"][k.at + 1]
  IN  IF k.state # "ok" THEN k
      ELSE IF Char(s, k.at) # ":" THEN Failed("error", k.at, k.nodes)
      ELSE IF v.state # "ok" THEN [v EXCEPT !.nodes = @ + k.nodes]
      ELSE Parsed([key |-> k.value, value |-> v.value], v.at, k.nodes + v.nodes + 1)

(* One element and, behind a comma, the rest, up to the closing bracket.      *)
Elements(p, s, first, rest, bracket) ==
  LET n == first.nodes + 1
      r == p[rest][first.at + 1]
  IN  IF first.state # "ok" THEN first
      ELSE CASE Char(s, first.at) = ","     ->
                  IF r.state = "ok" THEN Parsed(<<first.value>> \o r.value, r.at, n + r.nodes)
                  ELSE [r EXCEPT !.nodes = @ + n]
             [] Char(s, first.at) = bracket -> Parsed(<<first.value>>, first.at + 1, n)
             [] OTHER                       -> Failed("error", first.at, n)

(* The elements, as a value.  An empty array or object is static.             *)
Whole(kind, elements) ==
  IF elements.state = "ok" THEN [elements EXCEPT !.value = [kind |-> kind, elements |-> @]]
  ELSE elements

parse_array(p, s, i) ==
  LET j == eat_space(s, i + 1) IN
  Whole("array", IF Char(s, j) = "]" THEN Parsed(<<>>, j + 1, 0) ELSE p["items"][j])

parse_object(p, s, i) ==
  LET j == eat_space(s, i + 1) IN
  Whole("object", IF Char(s, j) = "}" THEN Parsed(<<>>, j + 1, 0) ELSE p["pairs"][j])

Dispatched(p, s, i) ==
  CASE Char(s, i) \in {"-", "1"} -> parse_number(s, i)
    [] Char(s, i) = QuoteMark    -> parse_string(s, i)
    [] Char(s, i) = "["          -> parse_array(p, s, i)
    [] Char(s, i) = "{"          -> parse_object(p, s, i)
    [] OTHER                     -> parse_identifier(s, i)

(* A value with the spaces around it. *)
Spaced(p, s, i) ==
  LET v == Dispatched(p, s, eat_space(s, i))
  IN  IF v.state = "ok" THEN [v EXCEPT !.at = eat_space(s, @)] ELSE v

Part(p, s, what, i) ==
  CASE what = "value" -> Spaced(p, s, i)
    [] what = "items" -> Elements(p, s, p["value"][i], "items", "]")
    [] what = "pairs" -> Elements(p, s, parse_pair(p, s, i), "pairs", "}")

parse_value(s, i) ==
  LET p[what \in {"value", "items", "pairs"}] == [j \in 1 .. Len(s) + 1 |-> Part(p, s, what, j)]
  IN  p["value"][i]

-----------------------------------------------------------------------------
(* Parts of texts *)

(* Texts with commas between them. *)
Joined(texts) ==
  FlattenSeq([i \in DOMAIN texts |-> texts[i] \o (IF i = Len(texts) THEN <<>> ELSE <<",">>)])

(* Bug: a string is printed as an identifier. *)
print_string_Bare(chars) == chars
print_string(chars) == <<QuoteMark>> \o chars \o <<QuoteMark>>

-----------------------------------------------------------------------------
(* Lookups *)

(* strncmp over the length of the key: a key equals every name it begins.     *)
(* Bug: over the length of the name.                                          *)
Equal_NameLength(key, name) == IsPrefix(name, key)
Equal(key, name) == IsPrefix(key, name)

(* Object::operator[]: the value of the first pair, in the order of the text,  *)
(* whose key equals the name, as a sequence that is empty if there is none.    *)
find(pairs, name) ==
  LET i == SelectInSeq(pairs, LAMBDA p : Equal(p.key.chars, name))
  IN  IF i = 0 THEN <<>> ELSE <<pairs[i].value>>

(* Object::map: the table hashes all of a key, and keeps the first of two.    *)
(* Bug: the last of two.                                                      *)
map_Last(pairs) ==
  [k \in {p.key.chars : p \in ToSet(pairs)} |->
     pairs[SelectLastInSeq(pairs, LAMBDA p : p.key.chars = k)].value]
map(pairs) ==
  [k \in {p.key.chars : p \in ToSet(pairs)} |->
     pairs[SelectInSeq(pairs, LAMBDA p : p.key.chars = k)].value]

(* Map::operator[] *)
Member(pairs, name) == IF name \in DOMAIN map(pairs) THEN <<map(pairs)[name]>> ELSE <<>>

-----------------------------------------------------------------------------
(* Construction of a command: names and values as strings, without escapes.   *)
(* Bug: no quotes around a value.                                             *)

make_object_Bare(fields) ==
  <<"{">> \o Joined([i \in DOMAIN fields |-> print_string(fields[i][1]) \o <<":">> \o fields[i][2]])
  \o <<"}">>
make_object(fields) ==
  <<"{">> \o Joined([i \in DOMAIN fields |->
                       print_string(fields[i][1]) \o <<":">> \o print_string(fields[i][2])])
  \o <<"}">>

make_array(list) == <<"[">> \o Joined(list) \o <<"]">>
=============================================================================
