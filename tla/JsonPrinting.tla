---------------------------- MODULE JsonPrinting ----------------------------
(***************************************************************************)
(* Printing values, in src/freeflow/json.cpp, and what it tells about the  *)
(* values that a program of JsonDocument has read.                         *)
(***************************************************************************)
EXTENDS JsonDocument

RECURSIVE print_value(_)
print_value(v) ==
  LET pair(p) == print_string(p.key.chars) \o <<":">> \o print_value(p.value)
      printed == [i \in DOMAIN v.elements |->
                    IF v.kind = "array" THEN print_value(v.elements[i]) ELSE pair(v.elements[i])]
  IN  CASE v.kind \in {"identifier", "number"} -> v.chars
        [] v.kind = "string" -> print_string(v.chars)
        [] v.kind = "array"  -> <<"[">> \o Joined(printed) \o <<"]">>
        [] v.kind = "object" -> <<"{">> \o Joined(printed) \o <<"}">>

-----------------------------------------------------------------------------

(* What is printed of the values read, and what is left, is what was given:    *)
(* no character is lost or read twice, by whatever way a value ends            *)
(* (json.cpp:165-241, 281-469).                                                *)
PrintsWhatWasRead ==
  FlattenSeq([i \in DOMAIN docs |-> print_value(docs[i])]) \o Squeezed(text) = Squeezed(given)

(* A value that is printed reads back as itself, and as a whole                *)
(* (json.cpp:165-241, 326-469).                                                *)
ReadsBack ==
  \A i \in DOMAIN docs :
    LET s == print_value(docs[i])
        v == parse_value(s, 1)
    IN  v.state = "ok" /\ v.value = docs[i] /\ v.at = Len(s) + 1
=============================================================================
