--------------------------- MODULE ClassRegistry ---------------------------
(***************************************************************************)
(* How the server learns the message types of the methods it binds:        *)
(* m_classBindings and m_fieldBindings, filled by GetClassBinding and      *)
(* GetFieldBinding.  The two recurse into each other: a class is inserted  *)
(* only after its parent and the classes of its fields are bound.          *)
(*                                                                         *)
(* A type is a protobuf message, bound from its descriptor, or a native    *)
(* one, a class or a vector, bound by visiting an object of it.  Each call *)
(* in progress is a frame of the program's stack.                          *)
(***************************************************************************)
EXTENDS Sequences, FiniteSets, Naturals

CONSTANTS Type,        \* the message types of a program
          Native,      \* those that are native
          Vector,      \* those of them that are vectors
          FieldName,   \* the names of their fields
          Schemas,     \* what the types may look like, see Schema
          Method,      \* the methods to bind
          StackLimit,  \* the depth at which the program's stack overflows
          None

(* A field has a name and the type of its value, None for one that is      *)
(* neither message nor class nor vector.  parent is the message a nested   *)
(* message is declared in, element what a vector is of.  The fields of a   *)
(* native type are what its visitor names, each once.                      *)
Field == [name : FieldName, msg : Type \cup {None}]

Schema(s) ==
    /\ s.fields \in [Type -> Seq(Field)]
    /\ s.parent \in [Type -> Type \cup {None}]
    /\ s.element \in [Vector -> Type \cup {None}]
    /\ \A t \in Native :
          /\ s.parent[t] = None
          /\ \A i, j \in 1..Len(s.fields[t]) : s.fields[t][i].name = s.fields[t][j].name => i = j
    /\ s.request \in [Method -> Type] /\ s.response \in [Method -> Type]

ASSUME TypesAssumption ==
    /\ IsFiniteSet(Type) /\ Native \subseteq Type /\ Vector \subseteq Native
    /\ None \notin Type \cup Method
ASSUME SchemasAssumption == \A s \in Schemas : Schema(s)
ASSUME LimitAssumption == StackLimit \in Nat /\ StackLimit > Cardinality(Type)

VARIABLES schema,        \* the program's types and methods
          classes,       \* m_classBindings: type -> its m_fields
          fieldBindings, \* m_fieldBindings: key -> FieldBinding
          stack,         \* the GetClassBinding calls in progress
          binding,       \* the method that is being bound, or None
          todo,          \* the types it still has to look up
          methods,       \* the methods that were added
          lost           \* TRUE once the stack has overflowed

vars == <<schema, classes, fieldBindings, stack, binding, todo, methods, lost>>

Fields(t) == schema.fields[t]

(* A protobuf field goes by its full name, a native one by its name alone. *)
Key(t, i) == IF t \in Native THEN <<Fields(t)[i].name>> ELSE <<t, i>>

(* The class a native field's type is named by: of a vector, its element's.*)
GetFieldFlags(u) == IF u \in Vector THEN schema.element[u] ELSE u

(* FieldBinding: name, the class that is the field's type, and for a       *)
(* native field, which a visitor of an object has found, its place there.  *)
OfDescriptor(t, i) == [field |-> Fields(t)[i], class |-> Fields(t)[i].msg, at |-> None]
SoapFieldVisitor(t, i) ==
    [field |-> Fields(t)[i], class |-> GetFieldFlags(Fields(t)[i].msg), at |-> i]

Declared(t, i) == IF t \in Native THEN SoapFieldVisitor(t, i) ELSE OfDescriptor(t, i)

Init ==
    /\ schema \in Schemas
    /\ classes = [t \in {} |-> << >>]
    /\ fieldBindings = [k \in {} |-> None]
    /\ stack = << >>
    /\ binding = None /\ todo = << >> /\ methods = {}
    /\ lost = FALSE

-----------------------------------------------------------------------------

(* Function looks up the request's class, then the response's;             *)
(* BindProtobuf has them as arguments of AddMethod, in either order.       *)
Bind(m) ==
    /\ binding = None /\ m \notin methods
    /\ binding' = m
    /\ \/ todo' = <<schema.request[m], schema.response[m]>>
       \/ /\ schema.request[m] \notin Native
          /\ todo' = <<schema.response[m], schema.request[m]>>
    /\ UNCHANGED <<schema, classes, fieldBindings, stack, methods, lost>>

AddMethod ==
    /\ binding # None /\ todo = << >> /\ stack = << >>
    /\ methods' = methods \cup {binding}
    /\ binding' = None
    /\ UNCHANGED <<schema, classes, fieldBindings, stack, todo, lost>>

Bound(t) == t \in DOMAIN classes

(* A class that is known is returned at once; for another a frame is       *)
(* entered.  next is what the frame does next: 0 the parent, i the i-th    *)
(* field; ptrs are the fields it has so far.                               *)
Enter(t) ==
    IF Len(stack) < StackLimit
    THEN /\ stack' = Append(stack, [of |-> t, next |-> 0, ptrs |-> << >>])
         /\ UNCHANGED lost
    ELSE lost' = TRUE /\ UNCHANGED stack

GetClassBinding ==
    /\ stack = << >> /\ todo # << >>
    /\ IF Bound(Head(todo))
       THEN todo' = Tail(todo) /\ UNCHANGED <<stack, lost>>
       ELSE Enter(Head(todo)) /\ UNCHANGED todo
    /\ UNCHANGED <<schema, classes, fieldBindings, binding, methods>>

Top == stack[Len(stack)]
Below == SubSeq(stack, 1, Len(stack) - 1)
AtField == Top.next \in 1..Len(Fields(Top.of))

NeedsNested ==
    IF \E t \in Type : schema.parent[t] = Top.of
    THEN CHOOSE t \in Type : schema.parent[t] = Top.of
    ELSE schema.parent[Top.of]

(* The type a field needs to be bound.  A protobuf field that is known     *)
(* does not look it up again, a native one is visited each time: a class   *)
(* and, as FF_Repeated is a bit of FF_Class, a vector of anything; but not *)
(* what the vector is of.                                                  *)
DescriptorNeeds(t, i) ==
    IF Key(t, i) \in DOMAIN fieldBindings THEN None ELSE Fields(t)[i].msg
VisitorNeedsElement(t, i) == GetFieldFlags(Fields(t)[i].msg)
VisitorNeeds(t, i) == Fields(t)[i].msg

(* What the next step of the top frame needs. *)
Needs ==
    CASE Top.next = 0 -> schema.parent[Top.of]
      [] AtField -> IF Top.of \in Native THEN VisitorNeeds(Top.of, Top.next)
                    ELSE DescriptorNeeds(Top.of, Top.next)
      [] OTHER -> None

Recurse ==
    /\ stack # << >>
    /\ Needs # None /\ ~Bound(Needs)
    /\ Enter(Needs)
    /\ UNCHANGED <<schema, classes, fieldBindings, binding, todo, methods>>

SetParent ==
    /\ stack # << >>
    /\ Top.next = 0
    /\ Needs = None \/ Bound(Needs)
    /\ stack' = Append(Below, [Top EXCEPT !.next = 1])
    /\ UNCHANGED <<schema, classes, fieldBindings, binding, todo, methods, lost>>

(* The top frame's field is stored, and AddField. *)
Store(key) ==
    fieldBindings' = [k \in DOMAIN fieldBindings \cup {key} |->
                         IF k = key THEN Declared(Top.of, Top.next)
                         ELSE fieldBindings[k]]

AddField(key) ==
    /\ stack' = Append(Below, [Top EXCEPT !.next = @ + 1, !.ptrs = Append(@, key)])
    /\ UNCHANGED <<schema, classes, binding, todo, methods, lost>>

StoreIfNew(key) ==
    IF key \in DOMAIN fieldBindings THEN UNCHANGED fieldBindings ELSE Store(key)

GetFieldBindingSkipsClass ==
    /\ stack # << >> /\ AtField
    /\ StoreIfNew(Key(Top.of, Top.next)) /\ AddField(Key(Top.of, Top.next))

GetFieldBindingOverwrites ==
    /\ stack # << >> /\ AtField
    /\ Needs = None \/ Bound(Needs)
    /\ Store(Key(Top.of, Top.next)) /\ AddField(Key(Top.of, Top.next))

(* Only a field whose key is new is stored. *)
GetFieldBinding ==
    /\ stack # << >> /\ AtField
    /\ Needs = None \/ Bound(Needs)
    /\ StoreIfNew(Key(Top.of, Top.next)) /\ AddField(Key(Top.of, Top.next))

(* RegisterClassBinding: the class is inserted last, and returned. *)
RegisterClassBinding ==
    /\ stack # << >>
    /\ Top.next = Len(Fields(Top.of)) + 1
    /\ classes' = [t \in DOMAIN classes \cup {Top.of} |->
                      IF t = Top.of THEN Top.ptrs ELSE classes[t]]
    /\ stack' = Below
    /\ UNCHANGED <<schema, fieldBindings, binding, todo, methods, lost>>

Step ==
    /\ ~lost
    /\ \/ AddMethod \/ GetClassBinding \/ Recurse \/ SetParent \/ GetFieldBinding
       \/ RegisterClassBinding

Next == Step \/ \E m \in Method : ~lost /\ Bind(m)

Spec == Init /\ [][Next]_vars

-----------------------------------------------------------------------------

FieldKey == {<<n>> : n \in FieldName} \cup Type \X (Nat \ {0})

Frame == [of : Type, next : Nat, ptrs : Seq(FieldKey)]

TypeOK ==
    /\ schema \in Schemas
    /\ DOMAIN classes \subseteq Type /\ DOMAIN fieldBindings \subseteq FieldKey
    /\ \A t \in DOMAIN classes : classes[t] \in Seq(FieldKey)
    /\ stack \in Seq(Frame) /\ Len(stack) <= StackLimit
    /\ binding \in Method \cup {None} /\ todo \in Seq(Type)
    /\ methods \subseteq Method /\ lost \in BOOLEAN

Have(t) == t # None => Bound(t)

(* When a class is in the registry so are its parent and the type of each  *)
(* of its fields, and the class each field's binding names, also where a   *)
(* native field got the binding of another class: but what a vector is of  *)
(* need not be.  The WSDL refers to these classes and the helpers look     *)
(* them up, on connections' threads, where nothing may be inserted.        *)
NamesWhatItHas ==
    \A t \in DOMAIN classes :
        /\ Have(schema.parent[t])
        /\ Len(classes[t]) = Len(Fields(t))
        /\ \A i \in 1..Len(Fields(t)) :
              /\ classes[t][i] = Key(t, i) /\ Key(t, i) \in DOMAIN fieldBindings
              /\ Have(Fields(t)[i].msg)
              /\ LET b == fieldBindings[classes[t][i]]
                 IN  Have(b.class) \/ b.field.msg \in Vector

(* A field is stored as one of the classes that may share its key declares *)
(* it, when the class of that one's value is registered.                   *)
StoredAsDeclared ==
    \A key \in DOMAIN fieldBindings :
        \E t \in Type : \E i \in 1..Len(Fields(t)) :
            /\ key = Key(t, i) /\ fieldBindings[key] = Declared(t, i)
            /\ Have(Fields(t)[i].msg)

(* Each frame has what it has passed and waits for the next one's class.   *)
(* No class is registered while it is on the stack, also when it is there  *)
(* twice.                                                                  *)
Awaits(f, t) ==
    \/ f.next = 0 /\ schema.parent[f.of] = t
    \/ f.next \in 1..Len(Fields(f.of)) /\ Fields(f.of)[f.next].msg = t

Passed(f) ==
    /\ f.next <= Len(Fields(f.of)) + 1
    /\ Len(f.ptrs) = IF f.next = 0 THEN 0 ELSE f.next - 1
    /\ f.next > 0 => Have(schema.parent[f.of])
    /\ \A i \in 1..Len(f.ptrs) :
          /\ f.ptrs[i] = Key(f.of, i) /\ Key(f.of, i) \in DOMAIN fieldBindings
          /\ Have(Fields(f.of)[i].msg)

FramesWait ==
    \A k \in 1..Len(stack) :
        /\ ~Bound(stack[k].of) /\ Passed(stack[k])
        /\ k < Len(stack) => Awaits(stack[k], stack[k + 1].of)

(* The invariant of the registry, beside the types. *)
RegistryInv ==
    /\ TypeOK
    /\ NamesWhatItHas
    /\ StoredAsDeclared
    /\ FramesWait

(* A type needs its parent and the types of its fields. *)
Refers(t, u) ==
    schema.parent[t] = u \/ \E i \in 1..Len(Fields(t)) : Fields(t)[i].msg = u

Cyclic(C) == C # {} /\ \A t \in C : \E u \in C : Refers(t, u)

(* Nothing is registered or looked up but what a method's types need,      *)
(* directly or not: the class of a vector's elements is there only if      *)
(* something else needs it.                                                *)
Closed(S) ==
    /\ \A m \in methods \cup ({binding} \ {None}) :
          schema.request[m] \in S /\ schema.response[m] \in S
    /\ \A t \in S : \A u \in Type : Refers(t, u) => u \in S

OnlyWhatMethodsNeed ==
    \A S \in SUBSET Type :
        Closed(S) =>
            /\ DOMAIN classes \subseteq S
            /\ \A i \in 1..Len(stack) : stack[i].of \in S
            /\ \A i \in 1..Len(todo) : todo[i] \in S

(* The recursion overflows the stack only for types that need themselves:  *)
(* a message that contains itself, directly or not, or one that uses a     *)
(* message declared in it, but no class with a vector of itself.  They are *)
(* on the stack when it overflows, and it does for each of them: none is   *)
(* ever registered.                                                        *)
LostOnlyByCycle ==
    /\ lost => \E C \in SUBSET {stack[i].of : i \in 1..Len(stack)} : Cyclic(C)
    /\ \A C \in SUBSET DOMAIN classes : ~Cyclic(C)

(* The binding of a field says what its own class declares, and only a     *)
(* native field may have got that of another class with a field of the     *)
(* same name: its type and its place in an object of that class.           *)
FieldsAsDeclared ==
    \A t \in DOMAIN classes : \A i \in 1..Len(Fields(t)) :
        \/ fieldBindings[classes[t][i]] = Declared(t, i)
        \/ /\ t \in Native
           /\ \E u \in Native \ {t} : \E j \in 1..Len(Fields(u)) :
                 /\ Fields(u)[j].name = Fields(t)[i].name
                 /\ fieldBindings[classes[t][i]] = Declared(u, j)

(* GetClassBinding and GetFieldBinding return references, and classes keep *)
(* pointers to fields: what they refer to never changes.                   *)
NothingRebound ==
    [][/\ \A t \in DOMAIN classes : Bound(t)' /\ classes'[t] = classes[t]
       /\ \A k \in DOMAIN fieldBindings :
             k \in DOMAIN fieldBindings' /\ fieldBindings'[k] = fieldBindings[k]]_vars
=============================================================================
