----------------------------- MODULE ProtobufXml -----------------------------
(***************************************************************************)
(* The fields of a protobuf message: their FieldBindings, from the         *)
(* descriptor, and ProtobufFieldHelper's conversions.  A field is          *)
(* [name, of, many]: repeated when many, of "message" the message Inner.   *)
(* The other widths of numbers are as int32 and sint32 (whose type has no  *)
(* name in the schema) are.                                                *)
(***************************************************************************)
EXTENDS MessageXml

(* The constructor's switch; a type it leaves out keeps protobuf's name. *)
XsName ==
    [string |-> "string", bool |-> "boolean", bytes |-> "hexBinary", int32 |-> "int",
     sint32 |-> "sint32", double |-> "double", enum |-> "enum", message |-> "Inner"]

ProtobufType == DOMAIN XsName

(* The type as the conversions know it. *)
CppType(f) == IF f.of = "bytes" THEN "string" ELSE XsName[f.of]

ProtobufBinding(f) ==
    [name |-> f.name, type |-> <<XsName[f.of]>>,
     flags |-> FF_Optional \cup (IF f.many THEN FF_Repeated ELSE {})
               \cup (IF f.of = "enum" THEN FF_Enum ELSE {})
               \cup (IF f.of = "message" THEN FF_Class ELSE {}),
     values |-> IF f.of = "enum" THEN ToSet(EnumNames) ELSE {}]

ConvertToHexRaw(bytes) == bytes

ConvertToHex(bytes) == [i \in DOMAIN bytes |-> Hex[bytes[i]]]

(* A message is written as its fields, inside the field's element. *)
Nested(f, item) == Element(f.name, << >>, <<Leaf("n", ValueToString("int", item))>>)

SetRepeatedValueToXml(f, list) ==
    [i \in DOMAIN list |->
        IF f.of = "message" THEN Nested(f, list[i])
        ELSE Leaf(f.name, ValueToString(CppType(f), list[i]))]

(* An absent field is written with its default, an absent message empty. *)
SetSingleValueToXml(f, list) ==
    LET item == IF list = << >> THEN Default(CppType(f)) ELSE list[1]
    IN  CASE f.of = "bytes" -> Leaf(f.name, ConvertToHex(item))
          [] f.of = "message" -> IF list = << >> THEN Leaf(f.name, << >>) ELSE Nested(f, item)
          [] f.of = "string" -> Leaf(f.name, item)
          [] OTHER -> Leaf(f.name, ValueToString(CppType(f), item))

(* SetValueToXml: the elements of a field. *)
ProtobufToXml(f, list) ==
    IF f.of = "enum" THEN Down
    ELSE Up(IF f.many THEN SetRepeatedValueToXml(f, list) ELSE <<SetSingleValueToXml(f, list)>>)

(* A nested message is looked for under the name of its class. *)
NestedToObj(list, el) ==
    LET node == Named(el.kids, "Inner")
        n == IF node = << >> THEN << >> ELSE Named(node[1].kids, "n")
    IN  IF n = << >> THEN Up(list)
        ELSE IF n[1].text = << >> THEN Down
        ELSE Up(<<ValueFromString("int", n[1].text)>>)

(* SetValueToObj for an element that is there. *)
ProtobufToObj(f, list, el) ==
    IF f.many \/ f.of = "enum" THEN Down
    ELSE IF f.of = "message" THEN NestedToObj(list, el)
    ELSE IF el.text = << >> THEN Down
    ELSE Up(<<IF f.of \in {"string", "bytes"} THEN el.text
              ELSE ValueFromString(CppType(f), el.text)>>)
=============================================================================
