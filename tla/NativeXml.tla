------------------------------ MODULE NativeXml ------------------------------
(***************************************************************************)
(* The fields of a native class: their FieldBindings, from the type of     *)
(* the C++ member, and NativeFieldHelper's conversions.  A member is       *)
(* [name, of, many]: a vector of its type when many, of "class" a class    *)
(* named Inner.                                                            *)
(***************************************************************************)
EXTENDS MessageXml

NativeType == {"int", "double", "boolean", "string", "char", "class"}

TypeidName(of) == IF of = "class" THEN <<"class", " ", "Inner">> ELSE <<of>>

GetSoapTypeName(f) ==
    IF f.many THEN <<"vector<">> \o TypeidName(f.of) \o <<">">> ELSE TypeidName(f.of)

(* The name a class is registered under. *)
GetTypeName(type) ==
    IF Head(type) = "class" THEN <<"class:">> \o SubSeq(type, 3, Len(type)) ELSE type

(* GetFieldFlags strips the vector and the word class off the type's name, *)
(* but not the blank behind it.                                            *)
GetFieldFlags(type) ==
    LET vector == Head(type) = "vector<" /\ Last(type) = ">"
        plain == IF vector THEN SubSeq(type, 2, Len(type) - 1) ELSE type
        class == Head(plain) = "class"
    IN  [flags |-> FF_Optional \cup (IF vector THEN FF_Repeated ELSE {})
                               \cup (IF class THEN FF_Class ELSE {}),
         type |-> IF class THEN Tail(plain) ELSE plain]

NativeBinding(f) ==
    LET t == GetFieldFlags(GetSoapTypeName(f))
    IN  [name |-> f.name, type |-> t.type, flags |-> t.flags, values |-> {}]

(* The class a field names is looked up by a name with a blank in it, and  *)
(* so is not found, be it bound or, as what a vector is of may be, not.    *)
HasClassBinding(key) == key = GetTypeName(TypeidName("class"))

(* m_xmlToObj and m_objToXml have these types and the vectors of them; the *)
(* other widths of numbers are converted as int and double are.            *)
Converted == {"double", "int", "string", "boolean"}
HasScalar(f) == GetFullType(NativeBinding(f)) \in {<<t>> : t \in Converted}
HasVector(f) == GetFullType(NativeBinding(f)) \in {<<"vector<", t, ">">> : t \in Converted}

HasNested(f) ==
    /\ IsClass(NativeBinding(f))
    /\ HasClassBinding(<<"class:">> \o NativeBinding(f).type)

SetValueToObjFromMem(f, el) ==
    IF el.text = << >> THEN Down ELSE Up(<<ValueFromString(f.of, el.text)>>)

SetVectorToObjSkipsEmpty(f, list, el) ==
    LET full == SelectSeq(el.kids, LAMBDA e : e.text # << >>)
    IN  Up(list \o [k \in DOMAIN full |-> ValueFromString(f.of, full[k].text)])

SetVectorToObjFromMem(f, list, el) ==
    IF \E k \in DOMAIN el.kids : el.kids[k].name # "item" THEN Down
    ELSE Up(list \o [k \in DOMAIN el.kids |->
                        IF el.kids[k].text = << >> THEN Default(f.of)
                        ELSE ValueFromString(f.of, el.kids[k].text)])

(* SetValueToObj: the field's list becomes that of the element. *)
NativeToObj(f, list, el) ==
    CASE HasScalar(f) -> SetValueToObjFromMem(f, el)
      [] HasVector(f) -> SetVectorToObjFromMem(f, list, el)
      [] HasNested(f) -> LET n == Named(el.kids, "n")
                         IN  IF n = << >> THEN Up(list)
                             ELSE SetValueToObjFromMem([f EXCEPT !.of = "int"], n[1])
      [] OTHER -> Down

(* SetValueToXml into the element that GenerateResponse made. *)
SetValueToXmlFromMem(f, list) == Leaf(f.name, ValueToString(f.of, list[1]))

SetVectorToXmlFromMem(f, list) ==
    Element(f.name, << >>,
            [i \in DOMAIN list |-> Leaf("item", ValueToString(f.of, list[i]))])

NativeToXml(f, list) ==
    CASE HasScalar(f) -> Up(<<SetValueToXmlFromMem(f, list)>>)
      [] HasVector(f) -> Up(<<SetVectorToXmlFromMem(f, list)>>)
      [] HasNested(f) -> Up(<<Element(f.name, << >>, <<Leaf("n", list[1])>>)>>)
      [] OTHER -> Down
=============================================================================
