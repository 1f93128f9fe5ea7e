----------------------------- MODULE MessageXml -----------------------------
(***************************************************************************)
(* What both kinds of class helpers share: values and their text, XML      *)
(* elements as tinyxml2 has them, the FieldBinding of a field with the     *)
(* type the WSDL gives it, and a client that was generated from that WSDL. *)
(*                                                                         *)
(* A value, an item of a field, is a sequence of tokens, the blank among   *)
(* them: a string is its characters, a double its first six decimals and   *)
(* then the rest.  A field holds a list of items, and a message lists for  *)
(* its fields.  A nested message is named Inner and has one int field.     *)
(***************************************************************************)
EXTENDS Sequences, SequencesExt, Naturals

CONSTANTS Hex,        \* the hexadecimal form of each byte
          EnumNames   \* the names of the enumeration's values, in order

Blank == " "

(* A byte's hexadecimal form is its own, and no byte is one: no text but   *)
(* the empty one is its own hexadecimal form, which is twice as long.  The *)
(* provers must be told that the literals below are strings.               *)
ASSUME HexAssumption ==
    /\ Hex \in [DOMAIN Hex -> STRING] /\ DOMAIN Hex \subseteq STRING
    /\ \A b, c \in DOMAIN Hex : Hex[b] = Hex[c] => b = c
    /\ \A b \in DOMAIN Hex : Hex[b] \notin DOMAIN Hex \cup {Blank}
ASSUME StringAssumption == {"0", "1", "true", "false", "n", "item"} \subseteq STRING
ASSUME EnumAssumption == EnumNames \in Seq(Seq(STRING)) /\ EnumNames # << >>

(* What SetText and a later GetText do to a text: tinyxml2 makes no text   *)
(* node of blanks only, and GetText is then a null pointer.                *)
Parsed(text) == IF \A i \in DOMAIN text : text[i] = Blank THEN << >> ELSE text

Element(name, text, kids) == [name |-> name, text |-> text, kids |-> kids]

Leaf(name, text) == Element(name, text, << >>)

Leaves == [name : STRING, text : Seq(STRING), kids : {<< >>}]
Elements == [name : STRING, text : Seq(STRING), kids : Seq(Leaves)]

ParsedLeaf(e) == Leaf(e.name, Parsed(e.text))
ParsedElement(e) ==
    Element(e.name, Parsed(e.text), [k \in DOMAIN e.kids |-> ParsedLeaf(e.kids[k])])
Parse(els) == [i \in DOMAIN els |-> ParsedElement(els[i])]

(* FirstChildElement(name) is the first of these, null if there is none. *)
Named(els, name) ==
    LET upto[i \in 0..Len(els)] ==
            IF i = 0 THEN << >>
            ELSE IF els[i].name = name THEN Append(upto[i - 1], els[i]) ELSE upto[i - 1]
    IN  upto[Len(els)]

ValueToString(type, item) ==
    IF type = "double" THEN <<Head(item)>> ELSE item

FirstWord(text) ==
    LET start == Min({i \in DOMAIN text : text[i] # Blank})
        blanks == {i \in start..Len(text) : text[i] = Blank}
    IN  SubSeq(text, start, IF blanks = {} THEN Len(text) ELSE Min(blanks) - 1)

ValueFromStringNumeric(type, text) ==
    CASE type = "boolean" -> IF text = <<"1">> THEN <<"1">> ELSE <<"0">>
      [] OTHER -> FirstWord(text)

(* operator>> of a string stops at a blank; the text is not null. *)
ValueFromString(type, text) ==
    CASE type = "boolean" ->
            IF text \in {<<"true">>, <<"1">>} THEN <<"1">> ELSE <<"0">>
      [] OTHER -> FirstWord(text)

(* The value of a new object's field. *)
Default(type) ==
    CASE type \in {"string", "hexBinary"} -> << >>
      [] type = "enum" -> EnumNames[1]
      [] OTHER -> <<"0">>

(* A conversion has a result, or an assert or a null pointer ends the      *)
(* program.                                                                *)
Up(val) == [up |-> TRUE, val |-> val]
Down == [up |-> FALSE, val |-> << >>]

-----------------------------------------------------------------------------
(* FieldBinding and FieldFlags, the bits of an int.                        *)

FF_Optional == {}
FF_Repeated == {0}
FF_Enum == {1}
FF_Class == {0, 1}

IsClass(b) == FF_Class \subseteq b.flags
IsOptional(b) == FF_Optional \subseteq b.flags
IsEnum(b) == FF_Enum \subseteq b.flags
IsRepeated(b) == FF_Repeated \subseteq b.flags

GetFullType(b) ==
    LET type == IF IsClass(b) THEN <<"class:">> \o b.type ELSE b.type
    IN  IF IsRepeated(b) THEN <<"vector<">> \o type \o <<">">> ELSE type

(* The schema's element: a restriction of a string to values, or a type    *)
(* with how often the element may occur.                                   *)
GenerateWsdl(b) ==
    IF IsEnum(b)
    THEN [name |-> b.name, type |-> << >>, values |-> b.values, least |-> 1, many |-> FALSE]
    ELSE [name |-> b.name, values |-> {},
          type |-> (IF IsClass(b) THEN <<"bntypes:">> ELSE <<"xs:">>) \o b.type,
          least |-> IF IsOptional(b) THEN 0 ELSE 1,
          many |-> IsRepeated(b)]

-----------------------------------------------------------------------------
(* A client that was generated from the WSDL.  It cannot use an element    *)
(* whose type the WSDL does not define: xs:char is no type, nor is the     *)
(* restriction to no value at all that a class gets, its FF_Class being    *)
(* FF_Enum too.                                                            *)

XsTypes == {<<"xs:", t>> : t \in {"int", "boolean", "string", "double", "hexBinary"}}

Typed(w) == w.values # {} \/ w.type \in XsTypes

Allowed(w, list) ==
    Typed(w) /\ Len(list) >= w.least /\ (w.many \/ Len(list) <= 1)

ToText(w, item) ==
    CASE w.type = <<"xs:", "boolean">> ->
            IF item = <<"1">> THEN <<"true">> ELSE <<"false">>
      [] w.type = <<"xs:", "hexBinary">> -> [i \in DOMAIN item |-> Hex[item[i]]]
      [] OTHER -> item

Encode(w, list) == [i \in DOMAIN list |-> Leaf(w.name, ToText(w, list[i]))]

Valid(w, e) ==
    /\ e.kids = << >>
    /\ CASE w.values # {} -> e.text \in w.values
         [] w.type = <<"xs:", "string">> -> TRUE
         [] w.type = <<"xs:", "hexBinary">> -> ToSet(e.text) \subseteq {Hex[c] : c \in DOMAIN Hex}
         [] OTHER -> e.text # << >>

FromText(w, text) ==
    CASE w.type = <<"xs:", "boolean">> ->
            IF text \in {<<"true">>, <<"1">>} THEN <<"1">> ELSE <<"0">>
      [] w.type = <<"xs:", "hexBinary">> ->
            [i \in DOMAIN text |-> CHOOSE c \in DOMAIN Hex : Hex[c] = text[i]]
      [] OTHER -> text

(* The list a client finds in an answer; no field's list is Unreadable. *)
Unreadable == <<<<"unreadable">>>>

Decode(w, els) ==
    LET mine == Named(els, w.name)
    IN  IF Allowed(w, mine) /\ \A i \in DOMAIN mine : Valid(w, mine[i])
        THEN [i \in DOMAIN mine |-> FromText(w, mine[i].text)]
        ELSE Unreadable
=============================================================================
