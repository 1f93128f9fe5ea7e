------------------------ MODULE ClassRegistryProofs ------------------------
(***************************************************************************)
(* For any message types of a program and any order in which its methods   *)
(* are bound: what is registered is complete and never changes, and the    *)
(* recursion overflows the stack only for types that need themselves.      *)
(***************************************************************************)
EXTENDS ClassRegistry, SequenceTheorems, FiniteSetTheorems, TLAPS

LEMMA SchemaFacts ==
    ASSUME schema \in Schemas
    PROVE  /\ \A t \in Type : /\ Fields(t) \in Seq(Field) /\ Len(Fields(t)) \in Nat
                              /\ schema.parent[t] \in Type \cup {None}
           /\ \A t \in Type : \A i \in 1..Len(Fields(t)) :
                 Fields(t)[i].name \in FieldName /\ Fields(t)[i].msg \in Type \cup {None}
           /\ \A t \in Native : \A i, j \in 1..Len(Fields(t)) :
                 Fields(t)[i].name = Fields(t)[j].name => i = j
           /\ \A m \in Method : schema.request[m] \in Type /\ schema.response[m] \in Type
<1>1. Schema(schema)
  BY SchemasAssumption
<1>2. \A t \in Type : Fields(t) \in Seq(Field) /\ Len(Fields(t)) \in Nat
  BY <1>1 DEF Schema, Fields
<1>3. \A t \in Type : \A i \in 1..Len(Fields(t)) : Fields(t)[i] \in Field
  BY <1>2
<1>4. QED
  BY <1>1, <1>2, <1>3, TypesAssumption DEF Schema, Fields, Field

(* Two fields share a key only when they are native and of one name. *)
LEMMA KeyFacts ==
    ASSUME schema \in Schemas
    PROVE  /\ \A t \in Type : \A i \in 1..Len(Fields(t)) : Key(t, i) \in FieldKey
           /\ \A t, u : \A i, j : Key(t, i) = Key(u, j) =>
                 \/ t \notin Native /\ u = t /\ i = j
                 \/ t \in Native /\ u \in Native /\ Fields(u)[j].name = Fields(t)[i].name
<1>1. \A t \in Type : \A i \in 1..Len(Fields(t)) : Key(t, i) \in FieldKey
  BY SchemaFacts DEF Key, FieldKey
<1>2. \A t, u : \A i, j : Key(t, i) = Key(u, j) =>
          \/ t \notin Native /\ u = t /\ i = j
          \/ t \in Native /\ u \in Native /\ Fields(u)[j].name = Fields(t)[i].name
  BY DEF Key
<1>3. QED
  BY <1>1, <1>2

LEMMA SameSchema ==
    ASSUME schema' = schema
    PROVE  /\ \A t : Fields(t)' = Fields(t)
           /\ \A t, i : Key(t, i)' = Key(t, i) /\ Declared(t, i)' = Declared(t, i)
           /\ \A f, t : Awaits(f, t)' <=> Awaits(f, t)
  BY DEF Fields, Key, Declared, SoapFieldVisitor, GetFieldFlags, OfDescriptor, Awaits

(* What is had and passed stays so while the registry grows. *)
LEMMA MoreIsKept ==
    ASSUME schema' = schema, DOMAIN classes \subseteq DOMAIN classes',
           DOMAIN fieldBindings \subseteq DOMAIN fieldBindings'
    PROVE  /\ \A t : Bound(t) => Bound(t)'
           /\ \A t : Have(t) => Have(t)'
           /\ \A f : Passed(f) => Passed(f)'
<1>1. /\ \A t : Bound(t) => Bound(t)'
      /\ \A t : Have(t) => Have(t)'
  BY DEF Bound, Have
<1>2. ASSUME NEW f, Passed(f) PROVE Passed(f)'
  BY <1>1, <1>2, SameSchema DEF Passed
<1>3. QED
  BY <1>1, <1>2

(* The invariants of the next state, of frames and classes that are given. *)
LEMMA FramesNext ==
    ASSUME \A k \in 1..Len(stack') : \A f, g : f = stack'[k] /\ g = stack'[k + 1] =>
               /\ ~Bound(f.of)' /\ Passed(f)'
               /\ k < Len(stack') => Awaits(f, g.of)'
    PROVE  FramesWait'
<1> SUFFICES ASSUME NEW k \in 1..Len(stack')
             PROVE  (/\ ~Bound(stack[k].of) /\ Passed(stack[k])
                     /\ k < Len(stack) => Awaits(stack[k], stack[k + 1].of))'
  BY DEF FramesWait
<1>1. PICK f : f = stack'[k]
  OBVIOUS
<1>2. PICK g : g = stack'[k + 1]
  OBVIOUS
<1>3. /\ ~Bound(f.of)' /\ Passed(f)'
      /\ k < Len(stack') => Awaits(f, g.of)'
  BY <1>1, <1>2
<1>4. (~Bound(stack[k].of))' /\ (k < Len(stack) => Awaits(stack[k], stack[k + 1].of))'
  BY <1>1, <1>2, <1>3 DEF Bound, Awaits, Fields
<1>5. Passed(stack[k])'
  BY <1>1, <1>3 DEF Passed, Have, Bound, Fields, Key
<1>6. QED
  BY <1>4, <1>5

(* A registry and a stack that stay keep what the frames wait for. *)
LEMMA SameFrames ==
    ASSUME FramesWait, UNCHANGED <<schema, classes, fieldBindings, stack>>
    PROVE  FramesWait'
<1>1. \A u : Bound(u)' <=> Bound(u)
  BY DEF Bound
<1>2. ASSUME NEW k \in 1..Len(stack'), NEW f, NEW g, f = stack'[k], g = stack'[k + 1]
      PROVE  /\ ~Bound(f.of)' /\ Passed(f)'
             /\ k < Len(stack') => Awaits(f, g.of)'
  <2>1. /\ ~Bound(f.of) /\ Passed(f)
        /\ k < Len(stack) => Awaits(f, g.of)
    BY <1>2 DEF FramesWait
  <2>2. QED
    BY <1>1, <2>1, SameSchema, MoreIsKept
<1>3. QED
  BY <1>2, FramesNext

-----------------------------------------------------------------------------
(* The stack *)

LEMMA TopFacts ==
    ASSUME TypeOK, stack # << >>
    PROVE  /\ Len(stack) \in Nat /\ Len(stack) > 0 /\ Len(stack) \in 1..Len(stack)
           /\ Top \in Frame /\ Top = stack[Len(stack)]
           /\ Below \in Seq(Frame) /\ Len(Below) = Len(stack) - 1
           /\ \A k \in 1..Len(stack) - 1 : Below[k] = stack[k]
<1>1. stack \in Seq(Frame) /\ Len(stack) \in Nat /\ Len(stack) > 0
  BY DEF TypeOK
<1>2. Top \in Frame
  BY <1>1 DEF Top
<1>3. /\ Below \in Seq(Frame) /\ Len(Below) = Len(stack) - 1
      /\ \A k \in 1..Len(stack) - 1 : Below[k] = stack[k]
  <2>1. \A k \in 1..Len(stack) - 1 : stack[k] \in Frame
    BY <1>1
  <2>2. /\ Below \in Seq(Frame)
        /\ Len(Below) = IF 1 <= Len(stack) - 1 THEN Len(stack) - 1 - 1 + 1 ELSE 0
        /\ \A k \in 1..(Len(stack) - 1 - 1 + 1) : Below[k] = stack[1 + k - 1]
    BY <1>1, <2>1, SubSeqProperties DEF Below
  <2>3. Len(Below) = Len(stack) - 1
    <3>1. CASE Len(stack) = 1
      <4>1. ~(1 <= Len(stack) - 1)
        BY <3>1
      <4>2. QED
        BY <2>2, <3>1, <4>1
    <3>2. CASE Len(stack) > 1
      <4>1. 1 <= Len(stack) - 1 /\ Len(stack) - 1 - 1 + 1 = Len(stack) - 1
        BY <1>1, <3>2
      <4>2. QED
        BY <2>2, <4>1
    <3>3. \A n \in Nat : n > 0 => n = 1 \/ n > 1
      OBVIOUS
    <3>4. Len(stack) = 1 \/ Len(stack) > 1
      BY <1>1, <3>3, Zenon
    <3>5. QED
      BY <3>1, <3>2, <3>4, Zenon
  <2>4. ASSUME NEW k \in 1..Len(stack) - 1 PROVE Below[k] = stack[k]
    <3>1. k \in 1..(Len(stack) - 1 - 1 + 1) /\ 1 + k - 1 = k
      BY <1>1
    <3>2. QED
      BY <2>2, <3>1
  <2>5. QED
    BY <2>2, <2>3, <2>4
<1>4. QED
  BY <1>1, <1>2, <1>3 DEF Top

LEMMA NewTop ==
    ASSUME TypeOK, stack # << >>, NEW f \in Frame, stack' = Append(Below, f)
    PROVE  /\ stack' \in Seq(Frame) /\ Len(stack') = Len(stack) /\ stack'[Len(stack)] = f
           /\ \A k \in 1..Len(stack) - 1 : stack'[k] = stack[k]
<1>1. /\ Below \in Seq(Frame) /\ Len(Below) = Len(stack) - 1 /\ Len(stack) \in Nat
      /\ \A k \in 1..Len(stack) - 1 : Below[k] = stack[k]
  BY TopFacts
<1>2. /\ stack' \in Seq(Frame) /\ Len(stack') = Len(Below) + 1 /\ stack'[Len(Below) + 1] = f
      /\ \A k \in 1..Len(Below) : stack'[k] = Below[k]
  BY <1>1
<1>3. QED
  BY <1>1, <1>2

LEMMA Pushed ==
    ASSUME TypeOK, NEW f \in Frame, stack' = Append(stack, f)
    PROVE  /\ stack' \in Seq(Frame) /\ Len(stack) \in Nat /\ Len(stack') = Len(stack) + 1
           /\ stack'[Len(stack) + 1] = f
           /\ \A k \in 1..Len(stack) : stack'[k] = stack[k]
<1>1. stack \in Seq(Frame)
  BY DEF TypeOK
<1>2. QED
  BY <1>1

(* What the top frame waits for is not registered, or it needs nothing. *)
LEMMA NeedsIs ==
    ASSUME RegistryInv, stack # << >>
    PROVE  /\ Needs \in Type \cup {None}
           /\ Needs # None => Awaits(Top, Needs)
           /\ (Needs = None \/ Bound(Needs)) /\ Top.next = 0 => Have(schema.parent[Top.of])
           /\ (Needs = None \/ Bound(Needs)) /\ AtField => Have(Fields(Top.of)[Top.next].msg)
<1>1. /\ TypeOK /\ schema \in Schemas /\ StoredAsDeclared /\ Top \in Frame
      /\ Top.of \in Type /\ Top.next \in Nat
  BY TopFacts DEF RegistryInv, TypeOK, Frame
<1>2. CASE Top.next = 0
  <2>1. Needs = schema.parent[Top.of] /\ ~AtField
    BY <1>1, <1>2, SchemaFacts DEF Needs, AtField
  <2>2. QED
    BY <1>1, <1>2, <2>1, SchemaFacts DEF Awaits, Have
<1>3. CASE AtField /\ Top.of \in Native
  <2>1. Needs = Fields(Top.of)[Top.next].msg /\ Top.next # 0
    BY <1>1, <1>3, SchemaFacts DEF Needs, AtField, VisitorNeeds
  <2>2. QED
    BY <1>1, <1>3, <2>1, SchemaFacts DEF Awaits, Have, AtField
<1>4. CASE AtField /\ Top.of \notin Native
  <2>1. /\ Needs = DescriptorNeeds(Top.of, Top.next) /\ Top.next # 0
        /\ Top.next \in 1..Len(Fields(Top.of))
    BY <1>1, <1>4, SchemaFacts DEF Needs, AtField
  <2>2. CASE Key(Top.of, Top.next) \in DOMAIN fieldBindings
    <3>1. PICK t \in Type : \E i \in 1..Len(Fields(t)) :
              Key(Top.of, Top.next) = Key(t, i) /\ Have(Fields(t)[i].msg)
      BY <1>1, <2>2 DEF StoredAsDeclared
    <3>2. Have(Fields(Top.of)[Top.next].msg)
      BY <1>1, <1>4, <3>1, KeyFacts
    <3>3. QED
      BY <2>1, <2>2, <3>2 DEF DescriptorNeeds
  <2>3. CASE Key(Top.of, Top.next) \notin DOMAIN fieldBindings
    BY <1>1, <2>1, <2>3, SchemaFacts DEF DescriptorNeeds, Awaits, Have
  <2>4. QED
    BY <2>2, <2>3
<1>5. CASE Top.next # 0 /\ ~AtField
  BY <1>5 DEF Needs
<1>6. QED
  BY <1>2, <1>3, <1>4, <1>5

-----------------------------------------------------------------------------
(* The steps *)

LEMMA RegistryInitially == Init => RegistryInv
<1> SUFFICES ASSUME Init PROVE RegistryInv
  OBVIOUS
<1>1. DOMAIN classes = {} /\ DOMAIN fieldBindings = {} /\ stack = << >> /\ Len(stack) = 0
  BY DEF Init
<1>2. TypeOK
  <2>1. schema \in Schemas /\ binding = None /\ todo = << >> /\ methods = {} /\ lost = FALSE
    BY DEF Init
  <2>2. stack \in Seq(Frame) /\ Len(stack) <= StackLimit /\ todo \in Seq(Type)
    BY <1>1, <2>1, LimitAssumption
  <2>3. QED
    BY <1>1, <2>1, <2>2 DEF TypeOK
<1>3. NamesWhatItHas /\ StoredAsDeclared /\ FramesWait
  BY <1>1 DEF NamesWhatItHas, StoredAsDeclared, FramesWait
<1>4. QED
  BY <1>2, <1>3 DEF RegistryInv

(* A class that is not registered is entered. *)
LEMMA Enters ==
    ASSUME RegistryInv, NEW t \in Type, ~Bound(t), Enter(t),
           UNCHANGED <<schema, classes, fieldBindings>>,
           stack # << >> => Awaits(Top, t)
    PROVE  FramesWait' /\ stack' \in Seq(Frame) /\ Len(stack') <= StackLimit
<1> DEFINE new == [of |-> t, next |-> 0, ptrs |-> << >>]
<1>1. TypeOK /\ schema \in Schemas /\ stack \in Seq(Frame) /\ Len(stack) \in Nat
  BY DEF RegistryInv, TypeOK
<1>2. CASE Len(stack) < StackLimit
  <2>1. new \in Frame
    BY DEF Frame
  <2>2. stack' = Append(stack, new)
    BY <1>2 DEF Enter
  <2> HIDE DEF new
  <2>3. /\ stack' \in Seq(Frame) /\ Len(stack') = Len(stack) + 1
        /\ stack'[Len(stack) + 1] = new
        /\ \A k \in 1..Len(stack) : stack'[k] = stack[k]
    BY <1>1, <2>1, <2>2, Pushed
  <2>4. Passed(new)' /\ new.of = t
    BY <1>1, SameSchema, SchemaFacts DEF Passed, new
  <2>5. \A u : Bound(u)' <=> Bound(u)
    BY DEF Bound
  <2>6. ASSUME NEW k \in 1..Len(stack'), NEW f, NEW g, f = stack'[k], g = stack'[k + 1]
        PROVE  /\ ~Bound(f.of)' /\ Passed(f)'
               /\ k < Len(stack') => Awaits(f, g.of)'
    <3>1. CASE k = Len(stack) + 1
      BY <1>1, <2>3, <2>4, <2>5, <2>6, <3>1
    <3>2. CASE k \in 1..Len(stack)
      <4>1. f = stack[k] /\ ~Bound(f.of) /\ Passed(f)
        BY <2>3, <2>6, <3>2 DEF RegistryInv, FramesWait
      <4>2. ~Bound(f.of)' /\ Passed(f)'
        BY <2>5, <4>1, MoreIsKept
      <4>3. CASE k = Len(stack)
        <5>1. g.of = t /\ f = Top /\ stack # << >>
          BY <1>1, <2>3, <2>4, <2>6, <3>2, <4>1, <4>3 DEF Top
        <5>2. QED
          BY <4>2, <5>1, SameSchema
      <4>4. CASE k < Len(stack)
        <5>1. k + 1 \in 1..Len(stack)
          BY <1>1, <4>4
        <5>2. Awaits(f, g.of)
          BY <2>3, <2>6, <3>2, <4>1, <4>4, <5>1 DEF RegistryInv, FramesWait
        <5>3. QED
          BY <4>2, <5>2, SameSchema
      <4>5. QED
        BY <1>1, <3>2, <4>3, <4>4
    <3>3. QED
      BY <1>1, <2>3, <3>1, <3>2
  <2>7. QED
    BY <1>1, <1>2, <2>3, <2>6, FramesNext, LimitAssumption
<1>3. CASE ~(Len(stack) < StackLimit)
  <2>1. stack' = stack
    BY <1>3 DEF Enter
  <2>2. FramesWait'
    BY <2>1, SameFrames DEF RegistryInv
  <2>3. QED
    BY <1>1, <2>1, <2>2 DEF RegistryInv, TypeOK
<1>4. QED
  BY <1>2, <1>3

(* The top frame has passed its parent, or a field. *)
LEMMA Passes ==
    ASSUME RegistryInv, stack # << >>, NEW f \in Frame, stack' = Append(Below, f),
           f.of = Top.of, Passed(f)', schema' = schema, classes' = classes,
           DOMAIN fieldBindings \subseteq DOMAIN fieldBindings'
    PROVE  FramesWait' /\ stack' \in Seq(Frame) /\ Len(stack') <= StackLimit
<1>1. TypeOK /\ Len(stack) \in Nat /\ Len(stack) > 0 /\ Len(stack) <= StackLimit
      /\ Top = stack[Len(stack)] /\ Len(stack) \in 1..Len(stack)
  BY TopFacts DEF RegistryInv, TypeOK
<1>2. /\ stack' \in Seq(Frame) /\ Len(stack') = Len(stack) /\ stack'[Len(stack)] = f
      /\ \A k \in 1..Len(stack) - 1 : stack'[k] = stack[k]
  BY <1>1, NewTop
<1>3. \A u : Bound(u)' <=> Bound(u)
  BY DEF Bound
<1>4. ASSUME NEW k \in 1..Len(stack'), NEW e, NEW g, e = stack'[k], g = stack'[k + 1]
      PROVE  /\ ~Bound(e.of)' /\ Passed(e)'
             /\ k < Len(stack') => Awaits(e, g.of)'
  <2>1. CASE k = Len(stack)
    <3>1. ~Bound(f.of)
      BY <1>1 DEF RegistryInv, FramesWait
    <3>2. QED
      BY <1>2, <1>3, <1>4, <2>1, <3>1
  <2>2. CASE k \in 1..Len(stack) - 1
    <3>1. k \in 1..Len(stack) /\ k < Len(stack) /\ k + 1 \in 1..Len(stack)
      BY <1>1, <2>2
    <3>2. e = stack[k] /\ ~Bound(e.of) /\ Passed(e) /\ Awaits(e, stack[k + 1].of)
      BY <1>2, <1>4, <2>2, <3>1 DEF RegistryInv, FramesWait
    <3>3. g.of = stack[k + 1].of
      BY <1>1, <1>2, <1>4, <2>2, <3>1
    <3>4. Awaits(e, g.of)' /\ Passed(e)' /\ ~Bound(e.of)'
      BY <1>3, <3>2, <3>3, SameSchema, MoreIsKept
    <3>5. QED
      BY <3>4
  <2>3. QED
    BY <1>1, <1>2, <2>1, <2>2
<1>5. QED
  BY <1>1, <1>2, <1>4, FramesNext

(* Steps that register nothing and leave the stack. *)
LEMMA SameRegistry ==
    ASSUME RegistryInv, UNCHANGED <<schema, classes, fieldBindings>>
    PROVE  /\ NamesWhatItHas' /\ StoredAsDeclared'
           /\ stack' = stack => FramesWait'
<1>1. NamesWhatItHas'
  BY DEF RegistryInv, NamesWhatItHas, Have, Bound, Fields, Key
<1>2. StoredAsDeclared'
  BY DEF RegistryInv, StoredAsDeclared, Have, Bound, Fields, Key, Declared, OfDescriptor,
         SoapFieldVisitor, GetFieldFlags
<1>3. stack' = stack => FramesWait'
  BY SameFrames DEF RegistryInv
<1>4. QED
  BY <1>1, <1>2, <1>3

LEMMA FieldStep ==
    ASSUME RegistryInv, GetFieldBinding
    PROVE  RegistryInv'
<1>0. PICK top : top = Top
  OBVIOUS
<1> DEFINE t == top.of
           i == top.next
<1>1. /\ TypeOK /\ schema \in Schemas /\ stack # << >> /\ top \in Frame
      /\ t \in Type /\ i \in Nat /\ top.ptrs \in Seq(FieldKey) /\ Passed(top)
  BY <1>0, TopFacts DEF RegistryInv, FramesWait, TypeOK, GetFieldBinding, Frame
<1>a. PICK key : key = Key(t, i)
  OBVIOUS
<1>b. PICK f : f = [top EXCEPT !.next = i + 1, !.ptrs = Append(top.ptrs, key)]
  OBVIOUS
<1>2. i \in 1..Len(Fields(t)) /\ key \in FieldKey
  BY <1>0, <1>1, <1>a, KeyFacts DEF GetFieldBinding, AtField
<1>3. Have(Fields(t)[i].msg)
  BY <1>0, <1>1, NeedsIs DEF GetFieldBinding
<1>4. /\ UNCHANGED <<schema, classes, binding, todo, methods, lost>>
      /\ stack' = Append(Below, f)
  BY <1>0, <1>a, <1>b DEF GetFieldBinding, AddField
<1>5. /\ DOMAIN fieldBindings' = DOMAIN fieldBindings \cup {key}
      /\ \A k \in DOMAIN fieldBindings : fieldBindings'[k] = fieldBindings[k]
      /\ key \notin DOMAIN fieldBindings => fieldBindings'[key] = Declared(t, i)
  <2>1. StoreIfNew(key)
    BY <1>0, <1>a DEF GetFieldBinding
  <2>2. CASE key \in DOMAIN fieldBindings
    BY <2>1, <2>2 DEF StoreIfNew
  <2>3. CASE key \notin DOMAIN fieldBindings
    <3>1. fieldBindings' = [k \in DOMAIN fieldBindings \cup {key} |->
                               IF k = key THEN Declared(t, i) ELSE fieldBindings[k]]
      BY <1>0, <2>1, <2>3 DEF StoreIfNew, Store
    <3>2. QED
      BY <2>3, <3>1
  <2>4. QED
    BY <2>2, <2>3
<1>6. /\ f \in Frame /\ f.of = t /\ f.next = i + 1 /\ Len(f.ptrs) = Len(top.ptrs) + 1
      /\ f.ptrs[Len(top.ptrs) + 1] = key
      /\ \A j \in 1..Len(top.ptrs) : f.ptrs[j] = top.ptrs[j]
  <2>1. /\ Append(top.ptrs, key) \in Seq(FieldKey)
        /\ Len(Append(top.ptrs, key)) = Len(top.ptrs) + 1
        /\ Append(top.ptrs, key)[Len(top.ptrs) + 1] = key
        /\ \A j \in 1..Len(top.ptrs) : Append(top.ptrs, key)[j] = top.ptrs[j]
    BY <1>1, <1>2
  <2>2. f \in Frame /\ f.of = t /\ f.next = i + 1 /\ f.ptrs = Append(top.ptrs, key)
    <3>1. PICK ptrs \in Seq(FieldKey) : ptrs = Append(top.ptrs, key)
      BY <2>1
    <3>2. f = [top EXCEPT !.next = i + 1, !.ptrs = ptrs] /\ i + 1 \in Nat
      BY <1>1, <1>b, <3>1
    <3>3. f \in Frame /\ f.of = t /\ f.next = i + 1 /\ f.ptrs = ptrs
      BY <1>1, <3>2 DEF Frame
    <3>4. QED
      BY <3>1, <3>3
  <2>3. QED
    BY <2>1, <2>2
<1>7. Passed(f)'
  <2>1. Passed(top)' /\ Have(Fields(t)[i].msg)'
    BY <1>1, <1>3, <1>4, <1>5, MoreIsKept, SameSchema DEF Have, Bound, Fields
  <2>2. /\ Len(top.ptrs) = i - 1 /\ Len(f.ptrs) = i /\ f.next <= Len(Fields(t)) + 1
    BY <1>1, <1>2, <1>6, SchemaFacts DEF Passed
  <2>3. Have(schema.parent[t])' /\ \A j \in 1..Len(top.ptrs) :
              /\ top.ptrs[j] = Key(t, j) /\ Key(t, j) \in DOMAIN fieldBindings'
              /\ Have(Fields(t)[j].msg)'
    <3>1. Have(schema.parent[t]) /\ \A j \in 1..Len(top.ptrs) :
              /\ top.ptrs[j] = Key(t, j) /\ Key(t, j) \in DOMAIN fieldBindings
              /\ Have(Fields(t)[j].msg)
      BY <1>1, <1>2 DEF Passed
    <3>2. QED
      BY <1>4, <1>5, <3>1 DEF Have, Bound, Fields
  <2>4. ASSUME NEW j \in 1..Len(f.ptrs)
        PROVE  /\ f.ptrs[j] = Key(t, j) /\ Key(t, j) \in DOMAIN fieldBindings'
               /\ Have(Fields(t)[j].msg)'
    <3>1. CASE j = i
      BY <1>5, <1>6, <2>1, <2>2, <3>1, <1>a
    <3>2. CASE j \in 1..Len(top.ptrs)
      BY <1>6, <2>3, <3>2
    <3>3. QED
      BY <1>1, <2>2, <3>1, <3>2
  <2>5. QED
    BY <1>1, <1>2, <1>4, <1>6, <2>2, <2>3, <2>4, SameSchema DEF Passed, Have, Bound, Fields
<1>8. FramesWait' /\ stack' \in Seq(Frame) /\ Len(stack') <= StackLimit
  BY <1>0, <1>1, <1>4, <1>5, <1>6, <1>7, Passes
<1>9. TypeOK'
  BY <1>1, <1>2, <1>4, <1>5, <1>8 DEF TypeOK
<1>10. NamesWhatItHas'
  BY <1>4, <1>5 DEF RegistryInv, NamesWhatItHas, Have, Bound, Fields, Key
<1>11. StoredAsDeclared'
  <2> SUFFICES ASSUME NEW k \in DOMAIN fieldBindings'
               PROVE  \E u \in Type : \E j \in 1..Len(Fields(u)) :
                          /\ k = Key(u, j) /\ fieldBindings'[k] = Declared(u, j)
                          /\ Have(Fields(u)[j].msg)
    BY <1>4 DEF StoredAsDeclared, Have, Bound, Fields, Key, Declared, OfDescriptor,
                SoapFieldVisitor, GetFieldFlags
  <2>1. CASE k \in DOMAIN fieldBindings
    BY <1>5, <2>1 DEF RegistryInv, StoredAsDeclared
  <2>2. CASE k \notin DOMAIN fieldBindings
    BY <1>1, <1>2, <1>3, <1>5, <2>2, <1>a
  <2>3. QED
    BY <2>1, <2>2
<1>12. QED
  BY <1>8, <1>9, <1>10, <1>11 DEF RegistryInv

(* When a frame is through, its class is on the stack only once: a frame   *)
(* below of the same class would wait for one this frame already has.      *)
LEMMA OnceWhenThrough ==
    ASSUME RegistryInv, stack # << >>, Top.next = Len(Fields(Top.of)) + 1
    PROVE  /\ \A k \in 1..Len(stack) - 1 : stack[k].of # Top.of
           /\ Have(schema.parent[Top.of])
           /\ \A i \in 1..Len(Fields(Top.of)) : Have(Fields(Top.of)[i].msg)
<1>1. /\ TypeOK /\ schema \in Schemas /\ Top \in Frame /\ Top.of \in Type
      /\ Passed(Top) /\ Len(stack) \in Nat
  BY TopFacts DEF RegistryInv, FramesWait, TypeOK, Frame
<1>2. /\ Have(schema.parent[Top.of])
      /\ \A i \in 1..Len(Fields(Top.of)) : Have(Fields(Top.of)[i].msg)
  BY <1>1, SchemaFacts DEF Passed
<1>3. ASSUME NEW k \in 1..Len(stack) - 1, stack[k].of = Top.of
      PROVE  FALSE
  <2>1. k \in 1..Len(stack) /\ k < Len(stack) /\ k + 1 \in 1..Len(stack)
    BY <1>1
  <2>2. Awaits(stack[k], stack[k + 1].of) /\ ~Bound(stack[k + 1].of)
    BY <2>1 DEF RegistryInv, FramesWait
  <2>3. stack[k + 1].of # None
    <3>1. stack \in Seq(Frame)
      BY <1>1 DEF TypeOK
    <3>2. stack[k + 1] \in Frame
      BY <2>1, <3>1
    <3>3. QED
      BY <3>2, TypesAssumption DEF Frame
  <2>4. QED
    BY <1>2, <1>3, <2>2, <2>3 DEF Awaits, Have
<1>4. QED
  BY <1>2, <1>3

LEMMA RegisterStep ==
    ASSUME RegistryInv, RegisterClassBinding
    PROVE  RegistryInv'
<1> DEFINE t == Top.of
<1>1. /\ TypeOK /\ schema \in Schemas /\ stack # << >> /\ Top \in Frame /\ Passed(Top)
      /\ t \in Type /\ Top.ptrs \in Seq(FieldKey) /\ Top.next = Len(Fields(t)) + 1
      /\ Len(stack) \in Nat /\ ~Bound(t)
  BY TopFacts DEF RegistryInv, FramesWait, TypeOK, RegisterClassBinding, Frame
<1>2. /\ stack' = Below /\ UNCHANGED <<schema, fieldBindings, binding, todo, methods, lost>>
      /\ DOMAIN classes' = DOMAIN classes \cup {t} /\ classes'[t] = Top.ptrs
      /\ \A u \in DOMAIN classes : u # t => classes'[u] = classes[u]
  BY DEF RegisterClassBinding
<1>3. /\ \A k \in 1..Len(stack) - 1 : stack[k].of # t
      /\ Have(schema.parent[t])
      /\ \A i \in 1..Len(Fields(t)) : Have(Fields(t)[i].msg)
  BY <1>1, OnceWhenThrough
<1> HIDE DEF t
<1>4. /\ stack' \in Seq(Frame) /\ Len(stack') = Len(stack) - 1
      /\ \A k \in 1..Len(stack) - 1 : stack'[k] = stack[k]
  BY <1>1, <1>2, TopFacts
<1>5. TypeOK'
  <2>1. Len(stack') <= StackLimit
    BY <1>1, <1>4, LimitAssumption DEF TypeOK
  <2>2. \A u \in DOMAIN classes' : classes'[u] \in Seq(FieldKey)
    BY <1>1, <1>2 DEF TypeOK
  <2>3. QED
    BY <1>1, <1>2, <1>4, <2>1, <2>2 DEF TypeOK
<1>6. FramesWait'
  <2> SUFFICES ASSUME NEW k \in 1..Len(stack'), NEW f, NEW g, f = stack'[k], g = stack'[k + 1]
               PROVE  /\ ~Bound(f.of)' /\ Passed(f)'
                      /\ k < Len(stack') => Awaits(f, g.of)'
    BY FramesNext
  <2>1. k \in 1..Len(stack) - 1 /\ k \in 1..Len(stack) /\ k < Len(stack)
    BY <1>1, <1>4
  <2>2. f = stack[k] /\ ~Bound(f.of) /\ Passed(f) /\ Awaits(f, stack[k + 1].of) /\ f.of # t
    BY <1>3, <1>4, <2>1 DEF RegistryInv, FramesWait
  <2>3. k < Len(stack') => g = stack[k + 1]
    <3>1. k < Len(stack') => k + 1 \in 1..Len(stack) - 1
      BY <1>1, <1>4
    <3>2. QED
      BY <1>4, <3>1
  <2>4. ~Bound(f.of)' /\ Passed(f)'
    BY <1>2, <2>2, MoreIsKept DEF Bound
  <2>5. k < Len(stack') => Awaits(f, g.of)'
    BY <1>2, <2>2, <2>3, SameSchema
  <2>6. QED
    BY <2>4, <2>5
<1>7. StoredAsDeclared'
  <2>1. \A u : Have(u) => Have(u)'
    BY <1>2 DEF Have, Bound
  <2>2. QED
    BY <1>2, <2>1 DEF RegistryInv, StoredAsDeclared, Fields, Key, Declared, OfDescriptor,
                      SoapFieldVisitor, GetFieldFlags
<1>8. NamesWhatItHas'
  <2> SUFFICES ASSUME NEW u \in DOMAIN classes'
               PROVE  /\ Have(schema.parent[u])
                      /\ Len(classes'[u]) = Len(Fields(u))
                      /\ \A i \in 1..Len(Fields(u)) :
                            /\ classes'[u][i] = Key(u, i) /\ Key(u, i) \in DOMAIN fieldBindings
                            /\ Have(Fields(u)[i].msg)
                            /\ \/ Have(fieldBindings[classes'[u][i]].class)
                               \/ fieldBindings[classes'[u][i]].field.msg \in Vector
    BY <1>2 DEF NamesWhatItHas, Have, Bound, Fields, Key
  <2>1. CASE u # t
    BY <1>2, <2>1 DEF RegistryInv, NamesWhatItHas
  <2>2. CASE u = t
    <3>1. Len(Top.ptrs) = Len(Fields(t))
      BY <1>1, SchemaFacts DEF Passed, t
    <3>2. \A i \in 1..Len(Fields(t)) : Top.ptrs[i] = Key(t, i) /\ Key(t, i) \in DOMAIN fieldBindings
      BY <1>1, <3>1 DEF Passed, t
    <3>3. \A key \in DOMAIN fieldBindings :
              Have(fieldBindings[key].class) \/ fieldBindings[key].field.msg \in Vector
      BY DEF RegistryInv, StoredAsDeclared, Declared, OfDescriptor, SoapFieldVisitor,
             GetFieldFlags
    <3>4. QED
      BY <1>2, <1>3, <2>2, <3>1, <3>2, <3>3
  <2>3. QED
    BY <2>1, <2>2
<1>9. QED
  BY <1>5, <1>6, <1>7, <1>8 DEF RegistryInv

LEMMA ParentStep ==
    ASSUME RegistryInv, SetParent
    PROVE  RegistryInv'
<1>1. PICK top : top = Top
  OBVIOUS
<1>2. /\ TypeOK /\ schema \in Schemas /\ stack # << >> /\ top \in Frame
      /\ top.of \in Type /\ top.next = 0 /\ top.ptrs \in Seq(FieldKey) /\ Passed(top)
  BY <1>1, TopFacts DEF RegistryInv, FramesWait, TypeOK, SetParent, Frame
<1>3. Have(schema.parent[top.of])
  BY <1>1, <1>2, NeedsIs DEF SetParent
<1>4. PICK f : f = [top EXCEPT !.next = 1]
  OBVIOUS
<1>5. f \in Frame /\ f.of = top.of /\ f.next = 1 /\ f.ptrs = top.ptrs
  BY <1>2, <1>4 DEF Frame
<1>6. /\ UNCHANGED <<schema, classes, fieldBindings, binding, todo, methods, lost>>
      /\ stack' = Append(Below, f)
  BY <1>1, <1>4 DEF SetParent
<1>7. Passed(f)'
  <2>1. Len(top.ptrs) = 0 /\ 1 <= Len(Fields(top.of)) + 1
    BY <1>2, SchemaFacts DEF Passed
  <2>2. Passed(f)
    BY <1>2, <1>3, <1>5, <2>1 DEF Passed
  <2>3. QED
    BY <1>6, <2>2, MoreIsKept
<1>8. FramesWait' /\ stack' \in Seq(Frame) /\ Len(stack') <= StackLimit
  BY <1>1, <1>2, <1>5, <1>6, <1>7, Passes
<1>9. QED
  BY <1>2, <1>6, <1>8, SameRegistry DEF RegistryInv, TypeOK

LEMMA RecurseStep ==
    ASSUME RegistryInv, NEW t \in Type, ~Bound(t), Enter(t),
           stack # << >> => Awaits(Top, t),
           UNCHANGED <<schema, classes, fieldBindings, binding, todo, methods>>
    PROVE  RegistryInv'
<1>1. FramesWait' /\ stack' \in Seq(Frame) /\ Len(stack') <= StackLimit
  BY Enters
<1>2. lost' \in BOOLEAN
  BY DEF Enter, RegistryInv, TypeOK
<1>3. QED
  BY <1>1, <1>2, SameRegistry DEF RegistryInv, TypeOK

LEMMA RegistryStep == RegistryInv /\ [Next]_vars => RegistryInv'
<1> SUFFICES ASSUME RegistryInv, [Next]_vars PROVE RegistryInv'
  OBVIOUS
<1>1. TypeOK /\ schema \in Schemas /\ todo \in Seq(Type) /\ stack \in Seq(Frame)
  BY DEF RegistryInv, TypeOK
<1>2. CASE \/ \E m \in Method : Bind(m)
           \/ AddMethod
           \/ UNCHANGED vars
  <2>1. UNCHANGED <<schema, classes, fieldBindings, stack, lost>>
    BY <1>2 DEF Bind, AddMethod, vars
  <2>2. binding' \in Method \cup {None} /\ methods' \subseteq Method
    BY <1>1, <1>2 DEF Bind, AddMethod, vars, TypeOK
  <2>3. todo' \in Seq(Type)
    <3>1. ASSUME NEW m \in Method, Bind(m) PROVE todo' \in Seq(Type)
      <4>1. \A a, b \in Type : <<a, b>> \in Seq(Type)
        OBVIOUS
      <4>2. <<schema.request[m], schema.response[m]>> \in Seq(Type)
            /\ <<schema.response[m], schema.request[m]>> \in Seq(Type)
        BY <1>1, <4>1, SchemaFacts, Zenon
      <4>3. QED
        BY <3>1, <4>2, Zenon DEF Bind
    <3>2. QED
      BY <1>1, <1>2, <3>1 DEF AddMethod, vars
  <2>4. TypeOK'
    BY <1>1, <2>1, <2>2, <2>3 DEF TypeOK
  <2>5. QED
    BY <2>1, <2>4, SameRegistry DEF RegistryInv
<1>3. CASE GetClassBinding
  <2>1. stack = << >> /\ todo # << >> /\ Head(todo) \in Type /\ Tail(todo) \in Seq(Type)
    BY <1>1, <1>3 DEF GetClassBinding
  <2>2. CASE Bound(Head(todo))
    <3>1. UNCHANGED <<schema, classes, fieldBindings, stack, lost, binding, methods>>
          /\ todo' \in Seq(Type)
      BY <1>3, <2>1, <2>2 DEF GetClassBinding
    <3>2. TypeOK'
      BY <1>1, <3>1 DEF TypeOK
    <3>3. QED
      BY <3>1, <3>2, SameRegistry DEF RegistryInv
  <2>3. CASE ~Bound(Head(todo))
    <3>1. /\ Enter(Head(todo))
          /\ UNCHANGED <<schema, classes, fieldBindings, binding, todo, methods>>
      BY <1>3, <2>3 DEF GetClassBinding
    <3>2. QED
      BY <2>1, <2>3, <3>1, RecurseStep
  <2>4. QED
    BY <2>2, <2>3
<1>4. CASE Recurse
  <2>1. /\ Needs \in Type /\ ~Bound(Needs) /\ Enter(Needs) /\ Awaits(Top, Needs)
        /\ UNCHANGED <<schema, classes, fieldBindings, binding, todo, methods>>
    BY <1>4, NeedsIs DEF Recurse
  <2>2. QED
    BY <2>1, RecurseStep
<1>5. QED
  BY <1>2, <1>3, <1>4, ParentStep, FieldStep, RegisterStep DEF Next, Step

(* What is registered is complete: a class is there only with its parent   *)
(* and the types of its fields, and what its fields' bindings name is      *)
(* there too, unless the field is a vector.                                *)
THEOREM RegistryInvariant == Spec => []RegistryInv
  BY RegistryInitially, RegistryStep, PTL DEF Spec

(* The binding of a field says what its own class declares, or what        *)
(* another native class declares of a field of the same name.              *)
THEOREM FieldsAreDeclared == Spec => []FieldsAsDeclared
<1>1. RegistryInv => FieldsAsDeclared
  <2> SUFFICES ASSUME RegistryInv, NEW t \in DOMAIN classes, NEW i \in 1..Len(Fields(t)),
                      fieldBindings[classes[t][i]] # Declared(t, i)
               PROVE  /\ t \in Native
                      /\ \E u \in Native \ {t} : \E j \in 1..Len(Fields(u)) :
                            /\ Fields(u)[j].name = Fields(t)[i].name
                            /\ fieldBindings[classes[t][i]] = Declared(u, j)
    BY DEF FieldsAsDeclared
  <2>1. schema \in Schemas /\ t \in Type
    BY DEF RegistryInv, TypeOK
  <2>2. classes[t][i] = Key(t, i) /\ Key(t, i) \in DOMAIN fieldBindings
    BY DEF RegistryInv, NamesWhatItHas
  <2>3. PICK u \in Type : \E j \in 1..Len(Fields(u)) :
            Key(t, i) = Key(u, j) /\ fieldBindings[Key(t, i)] = Declared(u, j)
    BY <2>2 DEF RegistryInv, StoredAsDeclared
  <2>4. PICK j \in 1..Len(Fields(u)) :
            Key(t, i) = Key(u, j) /\ fieldBindings[Key(t, i)] = Declared(u, j)
    BY <2>3
  <2>5. t \in Native /\ u \in Native /\ Fields(u)[j].name = Fields(t)[i].name
    BY <2>1, <2>2, <2>4, KeyFacts
  <2>6. u # t
    BY <2>1, <2>2, <2>4, <2>5, SchemaFacts
  <2>7. QED
    BY <2>2, <2>4, <2>5, <2>6
<1>2. QED
  BY <1>1, RegistryInvariant, PTL

(* What GetClassBinding and GetFieldBinding have returned never changes.   *)
THEOREM NothingIsRebound == Spec => NothingRebound
<1> DEFINE Kept == /\ \A t \in DOMAIN classes : Bound(t)' /\ classes'[t] = classes[t]
                   /\ \A k \in DOMAIN fieldBindings :
                         k \in DOMAIN fieldBindings' /\ fieldBindings'[k] = fieldBindings[k]
<1>1. ASSUME RegistryInv, Next PROVE Kept
  <2>1. CASE RegisterClassBinding
    <3>1. ~Bound(Top.of)
      BY <1>1, <2>1, TopFacts DEF RegistryInv, FramesWait, RegisterClassBinding
    <3>2. QED
      BY <2>1, <3>1 DEF RegisterClassBinding, Bound
  <2>2. CASE GetFieldBinding
    BY <2>2 DEF GetFieldBinding, AddField, StoreIfNew, Store, Bound
  <2>3. CASE UNCHANGED <<classes, fieldBindings>>
    BY <2>3 DEF Bound
  <2>4. QED
    BY <1>1, <2>1, <2>2, <2>3
    DEF Next, Step, Bind, AddMethod, GetClassBinding, Recurse, SetParent
<1>2. RegistryInv /\ [Next]_vars => [Kept]_vars
  BY <1>1
<1>3. QED
  BY <1>2, RegistryInvariant, PTL DEF Spec, NothingRebound

-----------------------------------------------------------------------------
(* Overflow *)

(* A stack at its limit has more frames than there are types: a class is   *)
(* on it twice, and each one in between waits for the next.                *)
LEMMA LongStackHasCycle ==
    ASSUME RegistryInv, Len(stack) >= StackLimit
    PROVE  \E C \in SUBSET {stack[i].of : i \in 1..Len(stack)} : Cyclic(C)
<1> DEFINE n == Len(stack)
           f == [i \in 1..n |-> stack[i].of]
<1>1. schema \in Schemas /\ stack \in Seq(Frame) /\ n \in Nat /\ n > Cardinality(Type)
      /\ IsFiniteSet(Type) /\ Cardinality(Type) \in Nat
  BY TypesAssumption, LimitAssumption, FS_CardinalityType DEF RegistryInv, TypeOK
<1>2. f \in [1..n -> Type]
  <2>1. ASSUME NEW i \in 1..n PROVE stack[i].of \in Type
    <3>1. stack[i] \in Frame
      BY <1>1
    <3>2. QED
      BY <3>1 DEF Frame
  <2>2. QED
    BY <2>1
<1>3. IsFiniteSet(1..n) /\ Cardinality(1..n) = n
  <2>1. IsFiniteSet(1..n) /\ Cardinality(1..n) = IF 1 > n THEN 0 ELSE n - 1 + 1
    BY <1>1, FS_Interval
  <2>2. QED
    BY <1>1, <2>1
<1>4. PICK x, y \in 1..n : x # y /\ stack[x].of = stack[y].of
  <2>1. \E x, y \in 1..n : x # y /\ f[x] = f[y]
    <3> HIDE DEF n, f
    <3>1. Cardinality(Type) < Cardinality(1..n)
      BY <1>1, <1>3
    <3>2. QED
      BY <1>1, <1>2, <1>3, <3>1, FS_PigeonHole
  <2>2. QED
    BY <2>1
<1>5. PICK k, l \in 1..n : k < l /\ stack[k].of = stack[l].of
  BY <1>4
<1> DEFINE C == {stack[i].of : i \in k..l - 1}
<1>6. \A i \in k..l - 1 : i \in 1..n /\ i < n /\ i + 1 \in 1..n
  BY <1>1, <1>5
<1>7. C \in SUBSET {stack[i].of : i \in 1..n}
  BY <1>6
<1>8. ASSUME NEW i \in k..l - 1 PROVE Refers(stack[i].of, stack[i + 1].of)
  BY <1>6, <1>8 DEF RegistryInv, FramesWait, Awaits, Refers
<1>9. ASSUME NEW i \in k..l - 1 PROVE stack[i + 1].of \in C
  <2>1. CASE i + 1 = l
    <3>1. k \in k..l - 1
      BY <1>1, <1>5
    <3>2. QED
      BY <1>5, <2>1, <3>1
  <2>2. CASE i + 1 # l
    <3>1. i + 1 \in k..l - 1
      BY <1>1, <1>5, <2>2
    <3>2. QED
      BY <3>1
  <2>3. QED
    BY <2>1, <2>2
<1>10. C # {}
  <2>1. k \in k..l - 1
    BY <1>1, <1>5
  <2>2. QED
    BY <2>1
<1>11. \A t \in C : \E u \in C : Refers(t, u)
  <2> SUFFICES ASSUME NEW i \in k..l - 1
               PROVE  \E u \in C : Refers(stack[i].of, u)
    OBVIOUS
  <2>1. QED
    BY <1>8, <1>9
<1>12. QED
  BY <1>7, <1>10, <1>11 DEF Cyclic

LEMMA SameCycles ==
    ASSUME schema' = schema
    PROVE  /\ \A t, u : Refers(t, u)' <=> Refers(t, u)
           /\ \A C : Cyclic(C)' <=> Cyclic(C)
  BY DEF Refers, Cyclic, Fields

(* What a registered class refers to was registered before it, so a set    *)
(* of classes that is a cycle without the one just registered already was. *)
LEMMA RegisterMakesNoCycle ==
    ASSUME RegistryInv, RegisterClassBinding,
           \A C \in SUBSET DOMAIN classes : ~Cyclic(C),
           NEW C \in SUBSET DOMAIN classes'
    PROVE  ~Cyclic(C)
<1> SUFFICES ASSUME Cyclic(C) PROVE FALSE
  OBVIOUS
<1>1. PICK t : t = Top.of
  OBVIOUS
<1>2. /\ t \in Type /\ ~Bound(t) /\ stack # << >> /\ Top.next = Len(Fields(t)) + 1
      /\ DOMAIN classes' = DOMAIN classes \cup {t}
  BY <1>1, TopFacts DEF RegistryInv, FramesWait, RegisterClassBinding, Frame
<1>3. \A u \in Type : Refers(t, u) => Bound(u)
  BY <1>1, <1>2, OnceWhenThrough, TypesAssumption DEF Refers, Have
<1>4. \A v \in DOMAIN classes : \A u \in Type : Refers(v, u) => Bound(u)
  BY TypesAssumption DEF RegistryInv, NamesWhatItHas, Refers, Have
<1>5. C \subseteq Type /\ \A v \in C : \A u \in C : Refers(v, u) => u \in C \ {t}
  <2>1. DOMAIN classes \subseteq Type
    BY DEF RegistryInv, TypeOK
  <2>2. QED
    BY <1>2, <1>3, <1>4, <2>1 DEF Bound
<1>6. C \ {t} # {} /\ \A v \in C \ {t} : \E u \in C \ {t} : Refers(v, u)
  BY <1>5 DEF Cyclic
<1>7. C \ {t} \in SUBSET DOMAIN classes
  BY <1>2
<1>8. QED
  BY <1>6, <1>7 DEF Cyclic

(* The recursion overflows the stack only for types that need themselves,  *)
(* and none of such a cycle is ever registered.                            *)
THEOREM OverflowsOnlyByCycle == Spec => []LostOnlyByCycle
<1>1. Init => LostOnlyByCycle
  BY DEF Init, LostOnlyByCycle, Cyclic
<1>2. ASSUME RegistryInv, LostOnlyByCycle, [Next]_vars PROVE LostOnlyByCycle'
  <2>1. schema' = schema
    BY <1>2 DEF Next, Step, vars, Bind, AddMethod, GetClassBinding, Recurse, SetParent,
                GetFieldBinding, AddField, RegisterClassBinding
  <2>2. ASSUME NEW C \in SUBSET DOMAIN classes' PROVE ~Cyclic(C)
    <3>1. CASE RegisterClassBinding
      BY <1>2, <2>2, <3>1, RegisterMakesNoCycle DEF LostOnlyByCycle
    <3>2. CASE UNCHANGED classes
      BY <1>2, <2>2, <3>2 DEF LostOnlyByCycle
    <3>3. RegisterClassBinding \/ UNCHANGED classes
      BY <1>2 DEF Next, Step, vars, Bind, AddMethod, GetClassBinding, Recurse, SetParent,
                  GetFieldBinding, AddField
    <3>4. QED
      BY <3>1, <3>2, <3>3
  <2>3. ASSUME lost' PROVE \E C \in SUBSET {stack'[i].of : i \in 1..Len(stack')} : Cyclic(C)
    <3>1. CASE lost
      <4>1. UNCHANGED vars
        BY <1>2, <3>1 DEF Next, Step
      <4>2. QED
        BY <1>2, <3>1, <4>1 DEF LostOnlyByCycle, vars
    <3>2. CASE ~lost
      <4>1. PICK t : Enter(t)
        BY <1>2, <2>3, <3>2
        DEF Next, Step, vars, Bind, AddMethod, GetClassBinding, Recurse, SetParent,
            GetFieldBinding, AddField, RegisterClassBinding
      <4>2. stack' = stack /\ ~(Len(stack) < StackLimit)
        BY <2>3, <3>2, <4>1 DEF Enter
      <4>3. Len(stack) >= StackLimit
        BY <1>2, <4>2, LimitAssumption DEF RegistryInv, TypeOK
      <4>4. QED
        BY <1>2, <4>2, <4>3, LongStackHasCycle
    <3>3. QED
      BY <3>1, <3>2
  <2>4. QED
    BY <2>1, <2>2, <2>3, SameCycles DEF LostOnlyByCycle
<1>3. QED
  BY <1>1, <1>2, RegistryInvariant, PTL DEF Spec

-----------------------------------------------------------------------------
(* What is registered *)

(* A step only adds to what is needed. *)
LEMMA NeedsGrow ==
    ASSUME TypeOK, [Next]_vars, NEW S, Closed(S)'
    PROVE  Closed(S) /\ \A t \in S : \A u \in Type : Refers(t, u) => u \in S
<1>1. schema' = schema
  BY DEF Next, Step, vars, Bind, AddMethod, GetClassBinding, Recurse, SetParent,
         GetFieldBinding, AddField, RegisterClassBinding
<1>2. methods \cup ({binding} \ {None}) \subseteq methods' \cup ({binding'} \ {None})
  <2>1. CASE \E m \in Method : Bind(m)
    BY <2>1 DEF Bind
  <2>2. CASE AddMethod
    BY <2>2 DEF AddMethod
  <2>3. CASE UNCHANGED <<methods, binding>>
    BY <2>3
  <2>4. QED
    BY <2>1, <2>2, <2>3
    DEF Next, Step, vars, GetClassBinding, Recurse, SetParent, GetFieldBinding, AddField,
        RegisterClassBinding
<1>3. \A t \in S : \A u \in Type : Refers(t, u) => u \in S
  BY <1>1, SameCycles DEF Closed
<1>4. QED
  BY <1>1, <1>2, <1>3 DEF Closed

(* Nothing is registered or looked up but what a method's types need: of a *)
(* vector only the vector, and not the class of its elements.              *)
THEOREM RegistersOnlyWhatMethodsNeed == Spec => []OnlyWhatMethodsNeed
<1>1. Init => OnlyWhatMethodsNeed
  BY DEF Init, OnlyWhatMethodsNeed
<1>2. ASSUME RegistryInv, OnlyWhatMethodsNeed, [Next]_vars PROVE OnlyWhatMethodsNeed'
  <2> SUFFICES ASSUME NEW S \in SUBSET Type, Closed(S)'
               PROVE  /\ DOMAIN classes' \subseteq S
                      /\ \A i \in 1..Len(stack') : stack'[i].of \in S
                      /\ \A i \in 1..Len(todo') : todo'[i] \in S
    BY DEF OnlyWhatMethodsNeed
  <2>1. TypeOK /\ todo \in Seq(Type) /\ stack \in Seq(Frame)
    BY <1>2 DEF RegistryInv, TypeOK
  <2>2. Closed(S) /\ \A t \in S : \A u \in Type : Refers(t, u) => u \in S
    BY <1>2, <2>1, NeedsGrow
  <2>3. /\ DOMAIN classes \subseteq S
        /\ \A i \in 1..Len(stack) : stack[i].of \in S
        /\ \A i \in 1..Len(todo) : todo[i] \in S
    BY <1>2, <2>2 DEF OnlyWhatMethodsNeed
  <2>4. ASSUME NEW t \in S, Enter(t) PROVE \A i \in 1..Len(stack') : stack'[i].of \in S
    <3> DEFINE new == [of |-> t, next |-> 0, ptrs |-> << >>]
    <3>1. CASE stack' = stack
      BY <2>3, <3>1
    <3>2. CASE stack' = Append(stack, new)
      <4>1. new \in Frame /\ new.of = t
        BY DEF Frame
      <4> HIDE DEF new
      <4>2. /\ Len(stack) \in Nat /\ Len(stack') = Len(stack) + 1
            /\ stack'[Len(stack) + 1] = new
            /\ \A k \in 1..Len(stack) : stack'[k] = stack[k]
        BY <2>1, <3>2, <4>1, Pushed
      <4>3. ASSUME NEW i \in 1..Len(stack') PROVE stack'[i].of \in S
        <5>1. i = Len(stack) + 1 \/ i \in 1..Len(stack)
          BY <4>2
        <5>2. QED
          BY <2>3, <4>1, <4>2, <5>1
      <4>4. QED
        BY <4>3
    <3>3. QED
      BY <2>4, <3>1, <3>2 DEF Enter
  <2>5. ASSUME stack # << >>, NEW f \in Frame, stack' = Append(Below, f), f.of = Top.of
        PROVE  \A i \in 1..Len(stack') : stack'[i].of \in S
    <3>1. /\ Len(stack) \in Nat /\ Len(stack) \in 1..Len(stack) /\ Top = stack[Len(stack)]
          /\ Len(stack') = Len(stack) /\ stack'[Len(stack)] = f
          /\ \A k \in 1..Len(stack) - 1 : stack'[k] = stack[k]
      BY <2>1, <2>5, TopFacts, NewTop
    <3>2. \A i \in 1..Len(stack') : i = Len(stack) \/ i \in 1..Len(stack) - 1
      BY <3>1
    <3>3. \A i \in 1..Len(stack) - 1 : i \in 1..Len(stack)
      BY <3>1
    <3>4. QED
      BY <2>3, <2>5, <3>1, <3>2, <3>3
  <2>6. CASE \E m \in Method : Bind(m)
    <3>1. PICK m \in Method : Bind(m)
      BY <2>6
    <3>2. schema.request[m] \in S /\ schema.response[m] \in S
      <4>1. binding' = m /\ m # None /\ schema' = schema
        BY <3>1, TypesAssumption DEF Bind
      <4>2. QED
        BY <4>1 DEF Closed
    <3>3. \A a, b \in S : \A i \in 1..Len(<<a, b>>) : <<a, b>>[i] \in S
      OBVIOUS
    <3>4. \A i \in 1..Len(todo') : todo'[i] \in S
      <4>1. \/ todo' = <<schema.request[m], schema.response[m]>>
            \/ todo' = <<schema.response[m], schema.request[m]>>
        BY <3>1 DEF Bind
      <4>2. QED
        BY <3>2, <3>3, <4>1
    <3>5. QED
      BY <2>3, <3>1, <3>4 DEF Bind
  <2>7. CASE GetClassBinding
    <3>1. stack = << >> /\ todo # << >> /\ Head(todo) \in S /\ Len(todo) \in Nat
      BY <2>1, <2>3, <2>7 DEF GetClassBinding
    <3>2. CASE Bound(Head(todo))
      <4>1. todo' = Tail(todo) /\ UNCHANGED <<classes, stack>>
        BY <2>7, <3>2 DEF GetClassBinding
      <4>2. \A i \in 1..Len(Tail(todo)) : i + 1 \in 1..Len(todo) /\ Tail(todo)[i] = todo[i + 1]
        BY <2>1, <3>1
      <4>3. QED
        BY <2>3, <4>1, <4>2
    <3>3. CASE ~Bound(Head(todo))
      BY <2>3, <2>4, <2>7, <3>1, <3>3 DEF GetClassBinding
    <3>4. QED
      BY <3>2, <3>3
  <2>8. CASE Recurse
    <3>1. stack # << >> /\ Needs \in Type /\ Awaits(Top, Needs) /\ Enter(Needs)
      BY <1>2, <2>8, NeedsIs DEF Recurse
    <3>2. Top.of \in S /\ Refers(Top.of, Needs)
      BY <2>1, <2>3, <3>1, TopFacts DEF Awaits, Refers
    <3>3. Needs \in S
      BY <2>2, <3>1, <3>2
    <3>4. QED
      BY <2>3, <2>4, <2>8, <3>1, <3>3 DEF Recurse
  <2>9. CASE SetParent
    <3>1. [Top EXCEPT !.next = 1] \in Frame /\ [Top EXCEPT !.next = 1].of = Top.of
      BY <2>1, <2>9, TopFacts DEF SetParent, Frame
    <3>2. QED
      BY <2>3, <2>5, <2>9, <3>1 DEF SetParent
  <2>10. CASE GetFieldBinding
    <3>1. PICK key : key = Key(Top.of, Top.next)
      OBVIOUS
    <3>2. PICK f : f = [Top EXCEPT !.next = @ + 1, !.ptrs = Append(@, key)]
      OBVIOUS
    <3>3. Top \in Frame /\ key \in FieldKey
      BY <1>2, <2>1, <2>10, <3>1, TopFacts, KeyFacts
      DEF GetFieldBinding, AtField, RegistryInv, TypeOK, Frame
    <3>4. PICK ptrs \in Seq(FieldKey) : ptrs = Append(Top.ptrs, key)
      <4>1. Top.ptrs \in Seq(FieldKey)
        BY <3>3 DEF Frame
      <4>2. Append(Top.ptrs, key) \in Seq(FieldKey)
        BY <3>3, <4>1
      <4>3. QED
        BY <4>2
    <3>5. f = [Top EXCEPT !.next = Top.next + 1, !.ptrs = ptrs] /\ Top.next + 1 \in Nat
      BY <3>2, <3>3, <3>4 DEF Frame
    <3>6. f \in Frame /\ f.of = Top.of
      BY <3>3, <3>5 DEF Frame
    <3>7. stack # << >> /\ stack' = Append(Below, f) /\ UNCHANGED <<classes, todo>>
      BY <2>10, <3>1, <3>2 DEF GetFieldBinding, AddField
    <3>8. QED
      BY <2>3, <2>5, <3>6, <3>7
  <2>11. CASE RegisterClassBinding
    <3>1. stack # << >> /\ stack' = Below /\ DOMAIN classes' = DOMAIN classes \cup {Top.of}
          /\ UNCHANGED todo
      BY <2>11 DEF RegisterClassBinding
    <3>2. /\ Top.of \in S /\ Len(Below) = Len(stack) - 1
          /\ \A k \in 1..Len(stack) - 1 : k \in 1..Len(stack) /\ Below[k] = stack[k]
      BY <2>1, <2>3, <3>1, TopFacts
    <3>3. QED
      BY <2>3, <3>1, <3>2
  <2>12. CASE AddMethod \/ UNCHANGED vars
    BY <2>3, <2>12 DEF AddMethod, vars
  <2>13. QED
    BY <1>2, <2>6, <2>7, <2>8, <2>9, <2>10, <2>11, <2>12 DEF Next, Step
<1>3. QED
  BY <1>1, <1>2, RegistryInvariant, PTL DEF Spec
=============================================================================
