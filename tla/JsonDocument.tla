---------------------------- MODULE JsonDocument ----------------------------
(***************************************************************************)
(* A program that reads JSON, as freeflow/test/json-parse.cpp and flowmgr  *)
(* do: it parses one value from a text with a json::Document, which takes  *)
(* the nodes from a sequential allocator; that of flowmgr is a buffer, for *)
(* which only the number of nodes matters.  The text is any short one, a   *)
(* command that flowctl built, a longer one, or a part of these, as a read *)
(* from a socket may return.  parse(std::string&), which nothing calls and *)
(* whose nodes point into the string it replaces, is not modelled.         *)
(***************************************************************************)
EXTENDS Json, Allocators, FiniteSets

CONSTANTS
  Chars,      \* characters of the short texts
  MaxShort,   \* bound: their length
  Names,      \* names of the members of a command
  Strings,    \* their values
  Longer      \* further texts

(* Commands have up to two members. *)
Fields == UNION {[1 .. n -> Names \X Strings] : n \in 0 .. 2}

Cut(texts) == UNION {{SubSeq(s, 1, n) : n \in 0 .. Len(s)} : s \in texts}

ASSUME DocumentAssumption ==
  /\ Chars \subseteq STRING /\ MaxShort \in Nat
  /\ Names \cup Strings \cup Longer \subseteq Seq(STRING)

VARIABLES
  text,      \* what is still to be read
  given,     \* what there was to read
  command,   \* whether that is a command,
  fields,    \* and the members it was made of
  docs,      \* the value read, if any, as a sequence
  state,     \* how the last parse ended
  pending    \* nodes of the value that are still to be allocated

jvars == <<vars, text, given, command, fields, docs, state, pending>>

Start(s) == given = s /\ text = s /\ command = FALSE /\ fields = <<>>
StartCommand(f) ==
  given = make_object(f) /\ text = given /\ command = TRUE /\ fields = f

DocumentInit ==
  /\ Init
  /\ \/ \E n \in 0 .. MaxShort : \E s \in [1 .. n -> Chars] : Start(s)
     \/ \E s \in Cut(Longer) : Start(s)
     \/ \E f \in Fields : StartCommand(f)
     \/ \E list \in UNION {[1 .. n -> Strings] : n \in 0 .. 2} : Start(make_array(list))
  /\ docs = <<>>
  /\ state = "ok"
  /\ pending = 0

(* Document::parse moves the pointer of the caller behind the value.  When an  *)
(* exception ends the parse, text is left whole.                               *)
parse ==
  LET v == parse_value(text, 1) IN
  /\ state = "ok" /\ docs = <<>> /\ pending = 0
  /\ state' = v.state
  /\ pending' = v.nodes
  /\ IF v.state = "ok"
     THEN docs' = Append(docs, v.value) /\ text' = SubSeq(text, v.at, Len(text))
     ELSE UNCHANGED <<docs, text>>
  /\ UNCHANGED <<vars, given, command, fields>>

(* The nodes of the value, one by one. *)
allocate ==
  /\ pending > 0
  /\ Allocate
  /\ pending' = pending - 1
  /\ UNCHANGED <<text, given, command, fields, docs, state>>

DocumentNext == parse \/ allocate

DocumentSpec == DocumentInit /\ [][DocumentNext]_jvars

-----------------------------------------------------------------------------

(* A text without the spaces that are not in strings. *)
Squeezed(s) ==
  LET from[i \in 1 .. Len(s) + 1] ==
        IF i > Len(s) THEN <<>>
        ELSE IF s[i] = QuoteMark
        THEN LET q == Min({Quote(s, i + 1), Len(s)}) IN SubSeq(s, i, q) \o from[q + 1]
        ELSE (IF s[i] \in Space THEN <<>> ELSE <<s[i]>>) \o from[i + 1]
  IN  from[1]

(* The parser steps over the end only where the text is cut before a value     *)
(* that must follow, or behind a backslash (json.cpp:359-392).                 *)
OverrunsOnlyIfCut ==
  state = "overrun" =>
    LET s == Squeezed(text) IN s = <<>> \/ Last(s) \in {"[", ",", ":", "\\"}

(* Both lookups give the same, unless a key is the beginning of the name       *)
(* (json.cpp:62-78, 143-156, json.hpp:83-100).                                 *)
LookupsAgree ==
  \A i \in DOMAIN docs : docs[i].kind = "object" =>
    \A name \in Names :
      LET pairs == docs[i].elements
          keys  == {p.key.chars : p \in ToSet(pairs)}
      IN  (\A k \in keys : k = name \/ ~IsPrefix(k, name)) =>
             find(pairs, name) = Member(pairs, name)

(* A command that flowctl builds is one object, in which flowmgr finds each    *)
(* member's value by its name (json.cpp:479-489, 143-156).                     *)
CommandReadBack ==
  command /\ docs # <<>> =>
    /\ text = <<>> /\ Len(docs) = 1 /\ docs[1].kind = "object"
    /\ \A i \in DOMAIN fields : (\A j \in 1 .. i - 1 : fields[j][1] # fields[i][1]) =>
         Member(docs[1].elements, fields[i][1]) = <<[kind |-> "string", chars |-> fields[i][2]]>>

(* A text has no more nodes than characters, so that a message that is no      *)
(* longer than the nodes of its buffer does not exceed it                      *)
(* (json.hpp:394-470, request.cpp:96-104).                                     *)
NodesAtMostChars ==
  Cardinality(objects) + pending <=
    Len(given) - (IF state = "ok" THEN Len(text) ELSE 0)

(* A value takes characters of the text, whichever kind it is, so that a       *)
(* caller that goes on behind it comes to the end (json.hpp:492-502,           *)
(* json.cpp:326-392).                                                          *)
EachParseReads == [][docs' # docs => Len(text') < Len(text)]_jvars
=============================================================================
