------------------------------- MODULE MCJson -------------------------------
(* A small instance of JsonDocument: the characters that the parser tells      *)
(* apart, names of which one is the beginning of another, and values with      *)
(* what an escape would be for left out.                                       *)
EXTENDS JsonPrinting

AllChars == {"{", "}", "[", "]", ":", ",", "\"", "\\", "a", "1", "-", " "}

a == <<"a">>
ab == <<"a", "b">>
TwoNames == {a, ab}
TwoStrings == {<<"1">>, <<>>}

(* {"a":[1,-1e],"ab":"","a":{}} with spaces, and [{"b":"\""} ,_b] a. *)
Nested ==
  {<<"{", " ", "\"", "a", "\"", " ", ":", "[", "1", ",", " ", "-", "1", "e", "]", " ", ",", "\"",
     "a", "b", "\"", ":", "\"", "\"", ",", "\"", "a", "\"", ":", "{", "}", "}">>,
   <<"[", "{", "\"", "b", "\"", ":", "\"", "\\", "\"", "\"", "}", " ", ",", "_", "b", "]", " ", "a">>}
=============================================================================
