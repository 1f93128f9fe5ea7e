--------------------------- MODULE MCClassHelpers ---------------------------
(* Classes of one field, of every type, a native class of two fields,      *)
(* classes of none, and a message whose replies come in an element of      *)
(* another name.                                                           *)
EXTENDS ClassHelpers, TLC

CONSTANTS t1, t2

MCThread == {t1, t2}
Sym == Permutations(MCThread)

MCHex == [J |-> "4A", K |-> "4B"]
MCEnumNames == <<<<"RED">>, <<"BLUE">>>>

Numbers == {<<"0">>, <<"7">>}
Strings == {<< >>, <<"a">>, <<"a", " ", "b">>}
MCItems ==
    [string |-> Strings, bytes |-> {<< >>, <<"J">>},
     int |-> Numbers, int32 |-> Numbers, sint32 |-> Numbers,
     class |-> Numbers, message |-> Numbers, char |-> Numbers,
     double |-> {<<"0">>, <<"0.142857", "142">>},
     boolean |-> {<<"0">>, <<"1">>}, bool |-> {<<"0">>, <<"1">>},
     enum |-> ToSet(MCEnumNames)]

Field(name, of, many) == [name |-> name, of |-> of, many |-> many]
Class(native, fs, named) == [native |-> native, fields |-> fs, named |-> named]

MCClasses ==
    {Class(TRUE, <<Field("f", of, many)>>, FALSE) : of \in NativeType, many \in BOOLEAN}
    \cup {Class(TRUE, <<Field("f", "int", FALSE), Field("g", "boolean", FALSE)>>, FALSE)}
    \cup {Class(FALSE, <<Field("f", of, many)>>, TRUE) :
             of \in ProtobufType, many \in BOOLEAN}
    \cup {Class(FALSE, <<Field("f", "int32", FALSE)>>, FALSE)}
    \cup {Class(native, << >>, TRUE) : native \in BOOLEAN}
=============================================================================
