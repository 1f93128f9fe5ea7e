----------------------- MODULE ServiceContractProofs -----------------------
(***************************************************************************)
(* For any program that binds any methods of any services: the WSDL is one *)
(* a client can be generated from, and what the server does with a request *)
(* of an operation, what it answers and what it sends of its own are what  *)
(* the WSDL says, with the exceptions that AdvertisedIsInvoked,            *)
(* RepliesAsAdvertised and CallsAsAdvertised name.                         *)
(***************************************************************************)
EXTENDS ServiceContract, SequenceTheorems, TLAPS

(* What is bound, and the WSDL of it, seen one binding at a time. *)
Operated(b) == GenerateWsdlOperation(b.service, b.method, b.function)

RequestElementOf(b) ==
    [of |-> Name(b), name |-> RequestElement(b.method), class |-> b.function.request]
ResponseElementOf(b) ==
    [of |-> Name(b), name |-> ResponseElement(b.method), class |-> b.function.response]
RequestMessageOf(b) ==
    [name |-> GetRequestMessageName(b.service, b.method, b.function),
     element |-> RequestElement(b.method)]
ResponseMessageOf(b) ==
    [name |-> GetResponseMessageName(b.service, b.method, b.function),
     element |-> ResponseElement(b.method)]

LEMMA BindableFacts ==
    /\ \A b \in Bindable : /\ b.service \in Service /\ b.method \in Method
                           /\ b.function \in Function
                           /\ b = [service |-> b.service, method |-> b.method,
                                   function |-> b.function]
    /\ \A f \in Function : /\ f.request \in Class /\ f.response \in Class
                           /\ f.isInput \in BOOLEAN /\ f.isOneWay \in BOOLEAN
                           /\ f.callback \in BOOLEAN
    /\ \A b, d \in Bindable : Name(b) = Name(d) <=> b.service = d.service /\ b.method = d.method
<1>1. \A b \in Bindable : /\ b.service \in Service /\ b.method \in Method
                           /\ b.function \in Function
                           /\ b = [service |-> b.service, method |-> b.method,
                                   function |-> b.function]
  BY DEF Bindable
<1>2. \A f \in Function : /\ f.request \in Class /\ f.response \in Class
                           /\ f.isInput \in BOOLEAN /\ f.isOneWay \in BOOLEAN
                           /\ f.callback \in BOOLEAN
  BY DEF Function
<1>3. \A b, d : Name(b) = Name(d) <=> b.service = d.service /\ b.method = d.method
  BY DEF Name
<1>4. QED
  BY <1>1, <1>2, <1>3

(* Bindings, before and after a step. *)
BindingsIn(ms) ==
    UNION {{[service |-> s, method |-> m, function |-> ms[s][m]] :
               m \in DOMAIN ms[s]} : s \in DOMAIN ms}

LEMMA BindingsAre ==
    ASSUME NEW ms
    PROVE  \A x : x \in BindingsIn(ms) <=>
               \E s \in DOMAIN ms : \E m \in DOMAIN ms[s] :
                   x = [service |-> s, method |-> m, function |-> ms[s][m]]
<1> DEFINE In(s) == {[service |-> s, method |-> m, function |-> ms[s][m]] : m \in DOMAIN ms[s]}
<1>1. \A s, x : x \in In(s) <=> \E m \in DOMAIN ms[s] :
                    x = [service |-> s, method |-> m, function |-> ms[s][m]]
  BY Zenon
<1>2. \A x : x \in BindingsIn(ms) <=> \E s \in DOMAIN ms : x \in In(s)
  BY Zenon DEF BindingsIn
<1> HIDE DEF In
<1>3. QED
  BY <1>1, <1>2

(* ... of which there is one of a name. *)
LEMMA InBindings ==
    ASSUME NEW ms, NEW b \in Bindable
    PROVE  b \in BindingsIn(ms) <=> /\ b.service \in DOMAIN ms
                                    /\ b.method \in DOMAIN ms[b.service]
                                    /\ b.function = ms[b.service][b.method]
<1>1. b = [service |-> b.service, method |-> b.method, function |-> b.function]
  BY BindableFacts
<1>2. ASSUME b \in BindingsIn(ms)
      PROVE  /\ b.service \in DOMAIN ms
             /\ b.method \in DOMAIN ms[b.service]
             /\ b.function = ms[b.service][b.method]
  <2>1. PICK s \in DOMAIN ms : \E m \in DOMAIN ms[s] :
                 b = [service |-> s, method |-> m, function |-> ms[s][m]]
    BY <1>2, BindingsAre
  <2>2. QED
    BY <2>1
<1>3. ASSUME /\ b.service \in DOMAIN ms
             /\ b.method \in DOMAIN ms[b.service]
             /\ b.function = ms[b.service][b.method]
      PROVE  b \in BindingsIn(ms)
  BY <1>1, <1>3, BindingsAre
<1>4. QED
  BY <1>2, <1>3

LEMMA BindingsNow == Bindings = BindingsIn(mappings) /\ Bindings' = BindingsIn(mappings')
  BY Zenon DEF Bindings, BindingsIn

LEMMA OneOfAName ==
    ASSUME NEW b \in Bindable, NEW d \in Bindable, b \in Bindings, d \in Bindings, Name(b) = Name(d)
    PROVE  b = d
  BY InBindings, BindingsNow, BindableFacts

LEMMA WsdlIs ==
    ASSUME NEW bs
    PROVE  /\ \A op : op \in GenerateWsdl(bs).operations <=> \E b \in bs : op = Operated(b)
           /\ \A e : e \in GenerateWsdl(bs).elements <=>
                         \E b \in bs : \/ e = RequestElementOf(b)
                                       \/ ~b.function.isOneWay /\ e = ResponseElementOf(b)
           /\ \A x : x \in GenerateWsdl(bs).messages <=>
                         \E b \in bs : \/ x = RequestMessageOf(b)
                                       \/ ~b.function.isOneWay /\ x = ResponseMessageOf(b)
<1> DEFINE E(b) == GenerateWsdlElements(b.service, b.method, b.function)
           M(b) == GenerateWsdlMessage(b.service, b.method, b.function)
<1>1. /\ GenerateWsdl(bs).operations = {Operated(b) : b \in bs}
      /\ GenerateWsdl(bs).elements = UNION {E(b) : b \in bs}
      /\ GenerateWsdl(bs).messages = UNION {M(b) : b \in bs}
  BY Zenon DEF GenerateWsdl, Operated
<1>2. \A b, e : e \in E(b) <=> \/ e = RequestElementOf(b)
                               \/ ~b.function.isOneWay /\ e = ResponseElementOf(b)
  BY DEF GenerateWsdlElements, RequestElementOf, ResponseElementOf, Name
<1>3. \A b, x : x \in M(b) <=> \/ x = RequestMessageOf(b)
                               \/ ~b.function.isOneWay /\ x = ResponseMessageOf(b)
  BY DEF GenerateWsdlMessage, RequestMessageOf, ResponseMessageOf
<1> HIDE DEF E, M
<1>4. \A e : e \in UNION {E(b) : b \in bs} <=> \E b \in bs : e \in E(b)
  BY Zenon
<1>5. \A x : x \in UNION {M(b) : b \in bs} <=> \E b \in bs : x \in M(b)
  BY Zenon
<1>6. \A op : op \in {Operated(b) : b \in bs} <=> \E b \in bs : op = Operated(b)
  BY Zenon
<1>7. \A op : op \in GenerateWsdl(bs).operations <=> \E b \in bs : op = Operated(b)
  BY <1>1, <1>6, Zenon
<1>8. \A e : e \in GenerateWsdl(bs).elements <=> \E b \in bs : e \in E(b)
  BY <1>1, <1>4, Zenon
<1>9. \A x : x \in GenerateWsdl(bs).messages <=> \E b \in bs : x \in M(b)
  BY <1>1, <1>5, Zenon
<1>10. QED
  BY <1>2, <1>3, <1>7, <1>8, <1>9, Zenon

(* The action of a response, by its names and by what is appended to the   *)
(* action of the request.                                                  *)
LEMMA ActionAppended ==
    ASSUME NEW s \in Service, NEW m \in Method
    PROVE  Append(<<s, m>>, "Response") = ResponseAction(s, m)
<1> DEFINE a == <<s, m>>
           r == <<s, m, "Response">>
           T == Service \cup Method \cup {"Response"}
<1>1. a \in Seq(T) /\ "Response" \in T /\ r \in Seq(T)
  OBVIOUS
<1>2. /\ Len(a) = 2 /\ a[1] = s /\ a[2] = m
      /\ Len(r) = 3 /\ r[1] = s /\ r[2] = m /\ r[3] = "Response"
  OBVIOUS
<1> HIDE DEF a, r, T
<1>3. /\ Append(a, "Response") \in Seq(T) /\ Len(Append(a, "Response")) = Len(a) + 1
      /\ Append(a, "Response")[Len(a) + 1] = "Response"
      /\ \A i \in 1..Len(a) : Append(a, "Response")[i] = a[i]
  BY <1>1
<1>4. 1 \in 1..Len(a) /\ 2 \in 1..Len(a) /\ Len(a) + 1 = 3
  BY <1>2
<1>5. Append(a, "Response")[1] = s /\ Append(a, "Response")[2] = m /\ Append(a, "Response")[3] = "Response"
  BY <1>2, <1>3, <1>4
<1>6. \A i \in 1..3 : i = 1 \/ i = 2 \/ i = 3
  OBVIOUS
<1>7. Len(Append(a, "Response")) = Len(r) /\ \A i \in 1..Len(r) : Append(a, "Response")[i] = r[i]
  BY <1>2, <1>3, <1>4, <1>5, <1>6
<1>8. Append(a, "Response") = r
  BY <1>1, <1>3, <1>7, SeqEqual
<1>9. QED
  BY <1>8 DEF a, r, ResponseAction

LEMMA NamesTyped ==
    ASSUME NEW b \in Bindable
    PROVE  /\ Name(b) \in MethodName
           /\ RequestElement(b.method) \in ElementName /\ ResponseElement(b.method) \in ElementName
           /\ GetRequestMessageName(b.service, b.method, b.function) \in MessageName
           /\ GetResponseMessageName(b.service, b.method, b.function) \in MessageName
           /\ RequestAction(b.service, b.method) \in MethodName
           /\ ResponseAction(b.service, b.method) \in Service \X Method \X {"Response"}
<1>1. /\ b.service \in Service /\ b.method \in Method
      /\ b.function.request \in Class /\ b.function.response \in Class
  BY BindableFacts
<1>2. RequestElement(b.method) \in ElementName /\ ResponseElement(b.method) \in ElementName
  BY <1>1 DEF ElementName, RequestElement, ResponseElement
<1>3. Name(b) \in MethodName /\ RequestAction(b.service, b.method) \in MethodName
  BY <1>1 DEF Name, MethodName, RequestAction
<1>4. QED
  BY <1>1, <1>2, <1>3
  DEF MessageName, GetRequestMessageName, GetResponseMessageName, ResponseAction

LEMMA WsdlTyped ==
    ASSUME NEW bs \in SUBSET Bindable
    PROVE  GenerateWsdl(bs) \in Wsdl
<1>1. ASSUME NEW b \in bs PROVE Operated(b) \in Operation
  <2>1. b \in Bindable /\ b.function.isInput \in BOOLEAN
    BY BindableFacts
  <2>2. [message |-> GetRequestMessageName(b.service, b.method, b.function),
         action |-> RequestAction(b.service, b.method)] \in Part
    BY <2>1, NamesTyped DEF Part
  <2>3. [message |-> GetResponseMessageName(b.service, b.method, b.function),
         action |-> ResponseAction(b.service, b.method)] \in Part
    BY <2>1, NamesTyped DEF Part
  <2>4. <<b.service, b.method>> \in MethodName
    BY <2>1, NamesTyped DEF Name
  <2>5. QED
    BY <2>1, <2>2, <2>3, <2>4 DEF Operated, GenerateWsdlOperation, Operation
<1>2. ASSUME NEW b \in bs
      PROVE  /\ RequestElementOf(b) \in [of : MethodName, name : ElementName, class : Class]
             /\ ResponseElementOf(b) \in [of : MethodName, name : ElementName, class : Class]
             /\ RequestMessageOf(b) \in [name : MessageName, element : ElementName]
             /\ ResponseMessageOf(b) \in [name : MessageName, element : ElementName]
  BY BindableFacts, NamesTyped
  DEF RequestElementOf, ResponseElementOf, RequestMessageOf, ResponseMessageOf
<1>3. GenerateWsdl(bs).operations \subseteq Operation
  BY <1>1, WsdlIs
<1>4. GenerateWsdl(bs).elements \subseteq [of : MethodName, name : ElementName, class : Class]
  BY <1>2, WsdlIs
<1>5. GenerateWsdl(bs).messages \subseteq [name : MessageName, element : ElementName]
  BY <1>2, WsdlIs
<1>6. GenerateWsdl(bs) = [elements |-> GenerateWsdl(bs).elements,
                          messages |-> GenerateWsdl(bs).messages,
                          operations |-> GenerateWsdl(bs).operations]
  BY Zenon DEF GenerateWsdl
<1>7. QED
  BY <1>3, <1>4, <1>5, <1>6 DEF Wsdl

(* What the WSDL has for the message of a request is the element of that   *)
(* method, declared by it, and perhaps by methods of that name of other    *)
(* services.                                                               *)
LEMMA RequestDescribed ==
    ASSUME NEW bs \in SUBSET Bindable, wsdl = GenerateWsdl(bs), NEW b \in bs
    PROVE  /\ RequestElementOf(b) \in Described(Operated(b).request.message)
           /\ \A e \in Described(Operated(b).request.message) :
                 \E d \in bs : d.method = b.method /\ e = RequestElementOf(d)
<1> DEFINE name == GetRequestMessageName(b.service, b.method, b.function)
<1>1. Operated(b).request.message = name
  BY DEF Operated, GenerateWsdlOperation
<1>2. /\ RequestElementOf(b) \in wsdl.elements /\ RequestMessageOf(b) \in wsdl.messages
      /\ RequestElementOf(b).name = RequestElement(b.method)
      /\ RequestMessageOf(b).name = name
      /\ RequestMessageOf(b).element = RequestElement(b.method)
  BY WsdlIs DEF RequestElementOf, RequestMessageOf
<1>3. \A x \in wsdl.messages : x.name = name => x.element = RequestElement(b.method)
  <2> SUFFICES ASSUME NEW x \in wsdl.messages, x.name = name
               PROVE  x.element = RequestElement(b.method)
    OBVIOUS
  <2>1. PICK d \in bs : x = RequestMessageOf(d) \/ x = ResponseMessageOf(d)
    BY WsdlIs
  <2>2. CASE x = RequestMessageOf(d)
    <3>1. GetRequestMessageName(d.service, d.method, d.function) = name
      BY <2>2 DEF RequestMessageOf
    <3>2. d.method = b.method
      BY <3>1 DEF GetRequestMessageName
    <3>3. QED
      BY <2>2, <3>2 DEF RequestMessageOf
  <2>3. CASE x = ResponseMessageOf(d)
    <3>1. GetResponseMessageName(d.service, d.method, d.function) = name
      BY <2>3 DEF ResponseMessageOf
    <3>2. FALSE
      BY <3>1 DEF GetRequestMessageName, GetResponseMessageName
    <3>3. QED
      BY <3>2
  <2>4. QED
    BY <2>1, <2>2, <2>3
<1> HIDE DEF name
<1>4. RequestElementOf(b) \in Described(name)
  BY <1>2 DEF Described
<1>5. ASSUME NEW e \in Described(name)
      PROVE  \E d \in bs : d.method = b.method /\ e = RequestElementOf(d)
  <2>1. e \in wsdl.elements /\ e.name = RequestElement(b.method)
    BY <1>3 DEF Described
  <2>2. PICK d \in bs : e = RequestElementOf(d) \/ e = ResponseElementOf(d)
    BY <2>1, WsdlIs
  <2>3. e # ResponseElementOf(d)
    BY <2>1 DEF ResponseElementOf, RequestElement, ResponseElement
  <2>4. d.method = b.method
    BY <2>1, <2>2, <2>3 DEF RequestElementOf, RequestElement
  <2>5. QED
    BY <2>2, <2>3, <2>4
<1>6. QED
  BY <1>1, <1>4, <1>5

(* So it is for responses, of which one-way methods have none. *)
LEMMA ResponseDescribed ==
    ASSUME NEW bs \in SUBSET Bindable, wsdl = GenerateWsdl(bs), NEW b \in bs, ~b.function.isOneWay
    PROVE  /\ ResponseElementOf(b) \in Described(Operated(b).response.message)
           /\ \A e \in Described(Operated(b).response.message) :
                 \E d \in bs : d.method = b.method /\ e = ResponseElementOf(d)
<1> DEFINE name == GetResponseMessageName(b.service, b.method, b.function)
<1>1. Operated(b).response.message = name
  BY DEF Operated, GenerateWsdlOperation
<1>2. /\ ResponseElementOf(b) \in wsdl.elements /\ ResponseMessageOf(b) \in wsdl.messages
      /\ ResponseElementOf(b).name = ResponseElement(b.method)
      /\ ResponseMessageOf(b).name = name
      /\ ResponseMessageOf(b).element = ResponseElement(b.method)
  BY WsdlIs DEF ResponseElementOf, ResponseMessageOf
<1>3. \A x \in wsdl.messages : x.name = name => x.element = ResponseElement(b.method)
  <2> SUFFICES ASSUME NEW x \in wsdl.messages, x.name = name
               PROVE  x.element = ResponseElement(b.method)
    OBVIOUS
  <2>1. PICK d \in bs : x = RequestMessageOf(d) \/ x = ResponseMessageOf(d)
    BY WsdlIs
  <2>2. CASE x = RequestMessageOf(d)
    <3>1. GetRequestMessageName(d.service, d.method, d.function) = name
      BY <2>2 DEF RequestMessageOf
    <3>2. FALSE
      BY <3>1 DEF GetRequestMessageName, GetResponseMessageName
    <3>3. QED
      BY <3>2
  <2>3. CASE x = ResponseMessageOf(d)
    <3>1. GetResponseMessageName(d.service, d.method, d.function) = name
      BY <2>3 DEF ResponseMessageOf
    <3>2. d.method = b.method
      BY <3>1 DEF GetResponseMessageName
    <3>3. QED
      BY <2>3, <3>2 DEF ResponseMessageOf
  <2>4. QED
    BY <2>1, <2>2, <2>3
<1> HIDE DEF name
<1>4. ResponseElementOf(b) \in Described(name)
  BY <1>2 DEF Described
<1>5. ASSUME NEW e \in Described(name)
      PROVE  \E d \in bs : d.method = b.method /\ e = ResponseElementOf(d)
  <2>1. e \in wsdl.elements /\ e.name = ResponseElement(b.method)
    BY <1>3 DEF Described
  <2>2. PICK d \in bs : e = RequestElementOf(d) \/ e = ResponseElementOf(d)
    BY <2>1, WsdlIs
  <2>3. e # RequestElementOf(d)
    BY <2>1 DEF RequestElementOf, RequestElement, ResponseElement
  <2>4. d.method = b.method
    BY <2>1, <2>2, <2>3 DEF ResponseElementOf, ResponseElement
  <2>5. QED
    BY <2>2, <2>3, <2>4
<1>6. QED
  BY <1>1, <1>4, <1>5

-----------------------------------------------------------------------------
(* What the invariant says of an operation of the WSDL. *)

LEMMA OperationIs ==
    ASSUME TypeOK, BoundAndGenerated, wsdl # None, NEW op \in wsdl.operations
    PROVE  \E b \in Program \ todo :
              /\ op = Operated(b) /\ op.of = Name(b) /\ op.isInput = b.function.isInput
              /\ op.request.action = RequestAction(b.service, b.method)
              /\ RequestElementOf(b) \in Described(op.request.message)
              /\ \A e \in Described(op.request.message) :
                    /\ \E d \in Bindable : e = RequestElementOf(d)
                    /\ e = RequestElementOf(b) \/ Ambiguous(op.of)
              /\ IF b.function.isOneWay THEN op.response = None
                 ELSE /\ op.response # None
                      /\ op.response.action = ResponseAction(b.service, b.method)
                      /\ ResponseElementOf(b) \in Described(op.response.message)
                      /\ \A e \in Described(op.response.message) :
                            e = ResponseElementOf(b) \/ Ambiguous(op.of)
              /\ op.of \notin late => /\ op.of[1] \in DOMAIN mappings
                                      /\ op.of[2] \in DOMAIN mappings[op.of[1]]
                                      /\ Of(op) = b.function
<1>1. PICK bs \in SUBSET (Program \ todo) :
          /\ wsdl = GenerateWsdl(bs)
          /\ \A b, d \in bs : Name(b) = Name(d) => b = d
          /\ \A b \in Program \ todo : Name(b) \notin late => (b \in bs <=> b \in Bindings)
  BY DEF BoundAndGenerated
<1>2. bs \subseteq Bindable
  BY <1>1, ProgramAssumption
<1>3. \A d \in bs : Operated(d) \in wsdl.operations
  BY <1>1, WsdlIs
<1>4. PICK b \in bs : op = Operated(b)
  BY <1>1, WsdlIs
<1>5. b \in Program \ todo /\ b \in Bindable
  BY <1>1, <1>2
<1>6. /\ op.of = Name(b) /\ op.isInput = b.function.isInput
      /\ op.request.action = RequestAction(b.service, b.method)
      /\ op.response = IF b.function.isOneWay THEN None
                       ELSE [message |-> GetResponseMessageName(b.service, b.method, b.function),
                             action |-> ResponseAction(b.service, b.method)]
  BY <1>4 DEF Operated, GenerateWsdlOperation, Name
<1>7. ASSUME NEW d \in bs, d.method = b.method, d # b
      PROVE  Ambiguous(op.of)
  <2>1. Name(d) # Name(b) /\ Operated(d) \in wsdl.operations
    BY <1>1, <1>3, <1>7
  <2>2. Operated(d).of = Name(d) /\ Name(d)[2] = Name(b)[2]
    BY <1>7 DEF Operated, GenerateWsdlOperation, Name
  <2>3. QED
    BY <1>6, <2>1, <2>2 DEF Ambiguous
<1>8. /\ RequestElementOf(b) \in Described(op.request.message)
      /\ \A e \in Described(op.request.message) :
            /\ \E d \in Bindable : e = RequestElementOf(d)
            /\ e = RequestElementOf(b) \/ Ambiguous(op.of)
  <2>1. /\ RequestElementOf(b) \in Described(Operated(b).request.message)
        /\ \A e \in Described(Operated(b).request.message) :
              \E d \in bs : d.method = b.method /\ e = RequestElementOf(d)
    BY <1>1, <1>2, RequestDescribed
  <2>2. QED
    BY <1>2, <1>4, <1>7, <2>1
<1>9. IF b.function.isOneWay THEN op.response = None
      ELSE /\ op.response # None
           /\ op.response.action = ResponseAction(b.service, b.method)
           /\ ResponseElementOf(b) \in Described(op.response.message)
           /\ \A e \in Described(op.response.message) :
                 e = ResponseElementOf(b) \/ Ambiguous(op.of)
  <2>1. CASE b.function.isOneWay
    BY <1>6, <2>1
  <2>2. CASE ~b.function.isOneWay
    <3>1. op.response \in Part /\ op.response.action = ResponseAction(b.service, b.method)
      BY <1>5, <1>6, <2>2, NamesTyped DEF Part
    <3>2. /\ ResponseElementOf(b) \in Described(Operated(b).response.message)
          /\ \A e \in Described(Operated(b).response.message) :
                \E d \in bs : d.method = b.method /\ e = ResponseElementOf(d)
      BY <1>1, <1>2, <2>2, ResponseDescribed
    <3>3. QED
      BY <1>4, <1>7, <2>2, <3>1, <3>2, NoneAssumption
  <2>3. QED
    BY <2>1, <2>2
<1>10. ASSUME op.of \notin late
       PROVE  /\ op.of[1] \in DOMAIN mappings
              /\ op.of[2] \in DOMAIN mappings[op.of[1]]
              /\ Of(op) = b.function
  <2>1. b \in Bindings
    BY <1>1, <1>5, <1>6, <1>10
  <2>2. op.of[1] = b.service /\ op.of[2] = b.method
    BY <1>6 DEF Name
  <2>3. QED
    BY <1>5, <2>1, <2>2, InBindings, BindingsNow DEF Of
<1>11. QED
  BY <1>4, <1>5, <1>6, <1>8, <1>9, <1>10

LEMMA GeneratedForClients ==
    ASSUME TypeOK, BoundAndGenerated
    PROVE  ClientCanBeGenerated
<1> SUFFICES ASSUME wsdl # None, NEW op \in wsdl.operations,
                    NEW part \in {op.request, op.response} \ {None}
             PROVE  /\ \E e \in Described(part.message) : e.of = op.of
                    /\ Ambiguous(op.of) \/ \A e \in Described(part.message) : e.of = op.of
  BY DEF ClientCanBeGenerated
<1>1. PICK b \in Program \ todo :
              /\ op.of = Name(b)
              /\ RequestElementOf(b) \in Described(op.request.message)
              /\ \A e \in Described(op.request.message) :
                    e = RequestElementOf(b) \/ Ambiguous(op.of)
              /\ IF b.function.isOneWay THEN op.response = None
                 ELSE /\ ResponseElementOf(b) \in Described(op.response.message)
                      /\ \A e \in Described(op.response.message) :
                            e = ResponseElementOf(b) \/ Ambiguous(op.of)
  BY OperationIs
<1>2. RequestElementOf(b).of = op.of /\ ResponseElementOf(b).of = op.of
  BY <1>1 DEF RequestElementOf, ResponseElementOf
<1>3. CASE part = op.request
  BY <1>1, <1>2, <1>3
<1>4. CASE part = op.response /\ ~b.function.isOneWay
  BY <1>1, <1>2, <1>4
<1>5. QED
  BY <1>1, <1>3, <1>4

-----------------------------------------------------------------------------
(* The steps *)

LEMMA ServiceAdded ==
    ASSUME NEW s, AddService(s)
    PROVE  /\ Bindings' = Bindings
           /\ DOMAIN mappings' = DOMAIN mappings \cup {s}
           /\ \A t \in DOMAIN mappings : mappings'[t] = mappings[t]
<1>1. /\ DOMAIN mappings' = DOMAIN mappings \cup {s}
      /\ \A t \in DOMAIN mappings : mappings'[t] = mappings[t]
      /\ \A t \in DOMAIN mappings' \ DOMAIN mappings : DOMAIN mappings'[t] = {}
  BY DEF AddService, NoMethods
<1>2. ASSUME NEW x PROVE x \in BindingsIn(mappings') <=> x \in BindingsIn(mappings)
  <2>1. x \in BindingsIn(mappings') =>
            \E t \in DOMAIN mappings' : \E m \in DOMAIN mappings'[t] :
                x = [service |-> t, method |-> m, function |-> mappings'[t][m]]
    BY BindingsAre
  <2>2. x \in BindingsIn(mappings) =>
            \E t \in DOMAIN mappings' : \E m \in DOMAIN mappings'[t] :
                x = [service |-> t, method |-> m, function |-> mappings'[t][m]]
    BY <1>1, BindingsAre
  <2>3. x \in BindingsIn(mappings') => x \in BindingsIn(mappings)
    BY <1>1, <2>1, BindingsAre
  <2>4. x \in BindingsIn(mappings) => x \in BindingsIn(mappings')
    BY <2>2, BindingsAre
  <2>5. QED
    BY <2>3, <2>4
<1>3. BindingsIn(mappings') = BindingsIn(mappings)
  BY <1>2
<1>4. QED
  BY <1>1, <1>3, BindingsNow, Zenon

LEMMA MethodAdded ==
    ASSUME TypeOK, NEW b \in Program, AddMethod(b)
    PROVE  /\ Bindings' \subseteq Program \ todo'
           /\ \A x \in Program : x \in Bindings' <=> x = b \/ (x \in Bindings /\ Name(x) # Name(b))
           /\ DOMAIN mappings' = DOMAIN mappings
           /\ \A s \in DOMAIN mappings : \A m \in DOMAIN mappings[s] :
                 <<s, m>> # Name(b) =>
                     m \in DOMAIN mappings'[s] /\ mappings'[s][m] = mappings[s][m]
<1> DEFINE s0 == b.service
           m0 == b.method
<1>1. /\ s0 \in DOMAIN mappings /\ DOMAIN mappings' = DOMAIN mappings
      /\ \A s \in DOMAIN mappings : s # s0 => mappings'[s] = mappings[s]
      /\ DOMAIN mappings'[s0] = DOMAIN mappings[s0] \cup {m0}
      /\ mappings'[s0][m0] = b.function
      /\ \A m \in DOMAIN mappings[s0] : m # m0 => mappings'[s0][m] = mappings[s0][m]
  BY DEF AddMethod
<1>2. todo' = todo \ {b} /\ b \in todo /\ Program \subseteq Bindable
  BY ProgramAssumption DEF AddMethod
<1>3. ASSUME NEW x \in Bindable
      PROVE  x \in BindingsIn(mappings') <=>
                 x = b \/ (x \in BindingsIn(mappings) /\ Name(x) # Name(b))
  <2>1. x = b <=> x.service = s0 /\ x.method = m0 /\ x.function = b.function
    BY <1>2, BindableFacts
  <2>2. Name(x) # Name(b) <=> x.service # s0 \/ x.method # m0
    BY DEF Name
  <2>3. x \in BindingsIn(mappings') <=> /\ x.service \in DOMAIN mappings'
                                        /\ x.method \in DOMAIN mappings'[x.service]
                                        /\ x.function = mappings'[x.service][x.method]
    BY InBindings
  <2>4. x \in BindingsIn(mappings) <=> /\ x.service \in DOMAIN mappings
                                       /\ x.method \in DOMAIN mappings[x.service]
                                       /\ x.function = mappings[x.service][x.method]
    BY InBindings
  <2> HIDE DEF s0, m0
  <2>5. CASE x.service = s0 /\ x.method = m0
    BY <1>1, <2>1, <2>2, <2>3, <2>5
  <2>6. CASE x.service = s0 /\ x.method # m0
    BY <1>1, <2>1, <2>2, <2>3, <2>4, <2>6
  <2>7. CASE x.service # s0
    BY <1>1, <2>1, <2>2, <2>3, <2>4, <2>7
  <2>8. QED
    BY <2>5, <2>6, <2>7
<1>4. ASSUME NEW x \in BindingsIn(mappings')
      PROVE  x = b \/ x \in BindingsIn(mappings)
  <2>1. PICK s \in DOMAIN mappings' : \E m \in DOMAIN mappings'[s] :
                 x = [service |-> s, method |-> m, function |-> mappings'[s][m]]
    BY BindingsAre
  <2>2. PICK m \in DOMAIN mappings'[s] :
                 x = [service |-> s, method |-> m, function |-> mappings'[s][m]]
    BY <2>1
  <2>3. CASE s = s0 /\ m = m0
    BY <1>1, <1>2, <2>2, <2>3, BindableFacts
  <2>4. CASE s # s0 \/ m # m0
    <3>1. /\ s \in DOMAIN mappings /\ m \in DOMAIN mappings[s]
          /\ mappings'[s][m] = mappings[s][m]
      BY <1>1, <2>4
    <3>2. x = [service |-> s, method |-> m, function |-> mappings[s][m]]
      BY <2>2, <3>1
    <3>3. QED
      BY <3>1, <3>2, BindingsAre
  <2>5. QED
    BY <2>3, <2>4
<1>5. Bindings' \subseteq Program \ todo'
  <2>1. b \notin Bindings /\ Bindings \subseteq Program \ todo
    BY <1>2 DEF TypeOK
  <2>2. QED
    BY <1>2, <1>4, <2>1, BindingsNow
<1>6. \A s \in DOMAIN mappings : \A m \in DOMAIN mappings[s] :
          <<s, m>> # Name(b) => m \in DOMAIN mappings'[s] /\ mappings'[s][m] = mappings[s][m]
  BY <1>1 DEF Name
<1>7. QED
  BY <1>1, <1>2, <1>3, <1>5, <1>6, BindingsNow

(* An operation of the WSDL has a binding, if not the one it was made of. *)
LEMMA OperationBound ==
    ASSUME TypeOK, BoundAndGenerated, wsdl # None, NEW op \in wsdl.operations
    PROVE  /\ op.of \in MethodName /\ op.request.action = op.of
           /\ op.of = <<op.of[1], op.of[2]>>
           /\ op.of[1] \in DOMAIN mappings /\ op.of[2] \in DOMAIN mappings[op.of[1]]
           /\ Of(op) \in Function /\ MethodOf(op.request.action) = Of(op)
<1>1. PICK b \in Program \ todo :
              op.of = Name(b) /\ op.request.action = RequestAction(b.service, b.method)
  BY OperationIs
<1>2. PICK d \in Bindings : Name(d) = Name(b)
  BY <1>1 DEF BoundAndGenerated
<1>3. d \in Bindable /\ b \in Bindable
  BY <1>2, ProgramAssumption DEF TypeOK
<1>4. /\ d.service \in DOMAIN mappings /\ d.method \in DOMAIN mappings[d.service]
      /\ d.function = mappings[d.service][d.method] /\ d.function \in Function
  BY <1>2, <1>3, InBindings, BindingsNow, BindableFacts
<1>5. op.of[1] = d.service /\ op.of[2] = d.method /\ op.request.action = op.of
  BY <1>1, <1>2 DEF Name, RequestAction
<1>6. QED
  BY <1>1, <1>3, <1>4, <1>5, NamesTyped DEF Of, MethodOf, Name

LEMMA ContractInitially == Init => ContractInv
<1> SUFFICES ASSUME Init PROVE ContractInv
  OBVIOUS
<1>1. Bindings = {}
  <2>1. DOMAIN mappings = {}
    BY DEF Init
  <2>2. \A x : x \notin BindingsIn(mappings)
    BY <2>1, BindingsAre
  <2>3. QED
    BY <2>2, BindingsNow
<1>2. DOMAIN mappings = {} /\ Program \ todo = {}
  BY DEF Init
<1>3. TypeOK
  <2>1. /\ replies \in Seq(Reply) /\ Len(replies) <= MaxReplies + 1
        /\ document \in Seq(Envelope)
    BY MaxRepliesAssumption DEF Init
  <2>2. QED
    BY <1>1, <1>2, <2>1 DEF Init, TypeOK
<1>4. BoundAndGenerated /\ ClientCanBeGenerated /\ RequestFollowed /\ CallFollowed
  BY <1>2 DEF Init, BoundAndGenerated, ClientCanBeGenerated, RequestFollowed, CallFollowed
<1>5. QED
  BY <1>3, <1>4 DEF ContractInv

LEMMA KeepsBound ==
    ASSUME TypeOK, BoundAndGenerated, Next
    PROVE  BoundAndGenerated'
<1>1. ASSUME NEW s \in Service, AddService(s)
      PROVE  BoundAndGenerated'
  <2>1. Bindings' = Bindings /\ UNCHANGED <<todo, late, wsdl>>
    BY <1>1, ServiceAdded DEF AddService
  <2>2. QED
    BY <2>1 DEF BoundAndGenerated, Name, GenerateWsdl, GenerateWsdlElements,
                GenerateWsdlMessage, GenerateWsdlOperation
<1>2. ASSUME NEW b \in Program, AddMethod(b)
      PROVE  BoundAndGenerated'
  <2>1. \A x \in Program : x \in Bindings' <=> x = b \/ (x \in Bindings /\ Name(x) # Name(b))
    BY <1>2, MethodAdded
  <2>2. /\ b \in todo /\ todo' = todo \ {b} /\ wsdl' = wsdl
        /\ wsdl # None => late' = late \cup {Name(b)}
        /\ Bindings \subseteq Program
    BY <1>2 DEF AddMethod, Name, TypeOK
  <2>3. \A x \in Program \ todo' : \E d \in Bindings' : Name(d) = Name(x)
    <3> SUFFICES ASSUME NEW x \in Program \ todo'
                 PROVE  \E d \in Bindings' : Name(d) = Name(x)
      OBVIOUS
    <3>1. CASE Name(x) = Name(b)
      BY <2>1, <3>1
    <3>2. CASE Name(x) # Name(b)
      <4>1. PICK d \in Bindings : Name(d) = Name(x)
        BY <2>2, <3>2 DEF BoundAndGenerated
      <4>2. QED
        BY <2>1, <2>2, <3>2, <4>1
    <3>3. QED
      BY <3>1, <3>2
  <2>4. ASSUME wsdl # None
        PROVE  \E bs \in SUBSET (Program \ todo') :
                  /\ wsdl = GenerateWsdl(bs)
                  /\ \A c, d \in bs : Name(c) = Name(d) => c = d
                  /\ \A c \in Program \ todo' : Name(c) \notin late' => (c \in bs <=> c \in Bindings')
    <3>1. PICK bs \in SUBSET (Program \ todo) :
              /\ wsdl = GenerateWsdl(bs)
              /\ \A c, d \in bs : Name(c) = Name(d) => c = d
              /\ \A c \in Program \ todo : Name(c) \notin late => (c \in bs <=> c \in Bindings)
      BY <2>4 DEF BoundAndGenerated
    <3>2. bs \in SUBSET (Program \ todo')
      BY <2>2
    <3>3. \A c \in Program \ todo' : Name(c) \notin late' => (c \in bs <=> c \in Bindings')
      BY <2>1, <2>2, <2>4, <3>1
    <3>4. QED
      BY <3>1, <3>2, <3>3
  <2>5. QED
    BY <2>2, <2>3, <2>4 DEF BoundAndGenerated, Name, GenerateWsdl, GenerateWsdlElements,
                            GenerateWsdlMessage, GenerateWsdlOperation
<1>3. CASE Start
  <2>1. /\ wsdl = None /\ wsdl' = GenerateWsdl(Bindings)
        /\ UNCHANGED <<mappings, todo, late>> /\ late = {}
    BY <1>3 DEF Start, TypeOK
  <2>2. Bindings' = Bindings
    BY <2>1, BindingsNow
  <2>3. Bindings \subseteq Program \ todo /\ Bindings \subseteq Bindable
    BY ProgramAssumption DEF TypeOK
  <2>4. \A b, d \in Bindings : Name(b) = Name(d) => b = d
    BY <2>3, OneOfAName
  <2>5. QED
    BY <2>1, <2>2, <2>3, <2>4 DEF BoundAndGenerated, Name
<1>4. CASE UNCHANGED <<mappings, todo, late, wsdl>>
  <2>1. Bindings' = Bindings
    BY <1>4, BindingsNow
  <2>2. QED
    BY <1>4, <2>1 DEF BoundAndGenerated, Name, GenerateWsdl, GenerateWsdlElements,
                      GenerateWsdlMessage, GenerateWsdlOperation
<1>5. QED
  BY <1>1, <1>2, <1>3, <1>4
  DEF Next, Ask, Invoke, Reject, Answer, HandlerThrows, HandlerReturns, CallMethod, program

-----------------------------------------------------------------------------
(* RequestFollowed, of a request, its replies, the WSDL and the mappings.  *)

DescribedIn(w, name) ==
    {e \in w.elements : \E x \in w.messages : x.name = name /\ x.element = e.name}
ShadowedIn(ms, s) == \E t \in DOMAIN ms : <<t, s>> \in PrefixOf
OfIn(ms, op) == ms[op.of[1]][op.of[2]]

Advertised(r, w) ==
    \E e \in DescribedIn(w, r.op.request.message) : e.name = r.element /\ e.class = r.class

Decided(r, ms, lt) ==
    r.phase # "sent" /\ r.op.of \notin lt =>
        IF r.by # None THEN r.by = OfIn(ms, r.op)
                       ELSE ShadowedIn(ms, r.op.of[1]) \/ ~Invocable(OfIn(ms, r.op))

Counted(r, doc, rs) ==
    /\ r.phase = "sent" => r.by = None /\ rs = << >>
    /\ r.by # None => Invocable(r.by)
    /\ r.phase = "invoking" => /\ r.by # None /\ Len(rs) <= MaxReplies
                               /\ \A i \in DOMAIN rs : rs[i] # Fault
    /\ \A i, k \in DOMAIN rs : rs[i] = Fault /\ rs[k] = Fault => i = k
    /\ doc = << >> <=> \A i \in DOMAIN rs : rs[i] = Fault

LEMMA FollowedParts ==
    /\ RequestFollowed <=>
           (request # None => /\ Advertised(request, wsdl)
                              /\ Decided(request, mappings, late) /\ Counted(request, document, replies))
    /\ RequestFollowed' <=>
           (request' # None => /\ Advertised(request', wsdl')
                               /\ Decided(request', mappings', late') /\ Counted(request', document', replies'))
<1>1. RequestFollowed <=>
           (request # None => /\ Advertised(request, wsdl)
                              /\ Decided(request, mappings, late) /\ Counted(request, document, replies))
  BY DEF RequestFollowed, Advertised, Decided, Counted, DescribedIn, Described, ShadowedIn, Shadowed,
         OfIn, Of, Sent, Invoked
<1>2. RequestFollowed' <=>
           (request' # None => /\ Advertised(request', wsdl')
                               /\ Decided(request', mappings', late') /\ Counted(request', document', replies'))
  BY DEF RequestFollowed, Advertised, Decided, Counted, DescribedIn, Described, ShadowedIn, Shadowed,
         OfIn, Of, Sent, Invoked
<1>3. QED
  BY <1>1, <1>2

(* Only the first of the services whose names start the action is asked. *)
LEMMA FoundUnlessShadowed ==
    ASSUME NEW action, action[1] \in DOMAIN mappings, ~Shadowed(action[1])
    PROVE  ServiceOf(action) = action[1]
<1> DEFINE First(s) == /\ s = action[1] \/ <<s, action[1]>> \in PrefixOf
                       /\ \A t \in DOMAIN mappings :
                             t = action[1] \/ <<t, action[1]>> \in PrefixOf =>
                                 t = s \/ <<s, t>> \in PrefixOf
<1>1. \A t \in DOMAIN mappings : <<t, action[1]>> \notin PrefixOf
  BY DEF Shadowed
<1>2. First(action[1])
  BY <1>1
<1>3. \A s \in DOMAIN mappings : First(s) => s = action[1]
  BY <1>1
<1>4. ServiceOf(action) = CHOOSE s \in DOMAIN mappings : First(s)
  BY DEF ServiceOf
<1> HIDE DEF First
<1>5. QED
  BY <1>2, <1>3, <1>4

(* What was sent, and one more. *)
LEMMA Appended ==
    ASSUME NEW S, NEW q \in Seq(S), NEW x \in S
    PROVE  /\ Append(q, x) \in Seq(S) /\ Len(q) \in Nat
           /\ DOMAIN q = 1..Len(q) /\ DOMAIN Append(q, x) = 1..Len(q) + 1
           /\ Len(Append(q, x)) = Len(q) + 1 /\ Append(q, x)[Len(q) + 1] = x
           /\ \A i \in 1..Len(q) : Append(q, x)[i] = q[i]
  OBVIOUS

(* An answer is an envelope behind those of the answers before; the first  *)
(* has but the element of the answer.                                      *)
LEMMA AnswerBuilt ==
    ASSUME TypeOK, BoundAndGenerated, Answer
    PROVE  /\ document' \in Seq(Envelope) /\ Len(document') = Len(document) + 1
           /\ Len(document) \in Nat /\ document' \in Reply
           /\ document' # Fault /\ document' # << >>
           /\ document = << >> =>
                 document' = <<[action |-> ResponseAction(request.op.of[1], request.op.of[2]),
                                body |-> <<[element |-> ResponseElement(request.op.of[2]),
                                            class |-> Of(request.op).response]>>]>>
<1> DEFINE el == [element |-> ResponseElement(request.op.of[2]), class |-> Of(request.op).response]
           url == ResponseAction(request.op.of[1], request.op.of[2])
           E == [element : ElementName, class : Class]
           body == IF document = << >> THEN << >> ELSE document[Len(document)].body
           old == [i \in DOMAIN document |-> [document[i] EXCEPT !.body = << >>]]
           new == [action |-> url, body |-> Append(body, el)]
<1>1. /\ request # None /\ wsdl # None /\ request.op \in wsdl.operations
      /\ document \in Seq(Envelope)
  BY DEF TypeOK, Answer, Invoked
<1>2. /\ request.op.request.action = request.op.of
      /\ request.op.of = <<request.op.of[1], request.op.of[2]>>
      /\ request.op.of[1] \in Service /\ request.op.of[2] \in Method
      /\ Of(request.op) \in Function /\ MethodOf(request.op.request.action) = Of(request.op)
  BY <1>1, OperationBound DEF MethodName
<1>3. Append(request.op.of, "Response") = url
  BY <1>2, ActionAppended
<1>4. document' = Append(old, new)
  BY <1>2, <1>3, Zenon DEF Answer, SendResponse
<1>5. el \in E /\ url \in Service \X Method \X {"Response"}
  BY <1>2, BindableFacts DEF ElementName, ResponseElement, ResponseAction
<1>6. body \in Seq(E)
  <2>1. CASE document = << >>
    BY <2>1
  <2>2. CASE document # << >>
    <3>1. document[Len(document)] \in Envelope
      BY <1>1, <2>2
    <3>2. QED
      BY <2>2, <3>1 DEF Envelope
  <2>3. QED
    BY <2>1, <2>2
<1> HIDE DEF el, url, E, body
<1>7. new \in Envelope /\ new.action = url
  <2>1. Append(body, el) \in Seq(E)
    BY <1>5, <1>6
  <2>2. QED
    BY <1>5, <2>1 DEF Envelope, E
<1>8. old \in Seq(Envelope) /\ Len(old) = Len(document) /\ Len(document) \in Nat
  <2>1. PICK n \in Nat : n = Len(document) /\ DOMAIN document = 1..n
    BY <1>1
  <2>2. ASSUME NEW i \in 1..n PROVE [document[i] EXCEPT !.body = << >>] \in Envelope
    <3>1. document[i] \in Envelope
      BY <1>1, <2>1
    <3>2. << >> \in Seq([element : ElementName, class : Class])
      OBVIOUS
    <3>3. QED
      BY <3>1, <3>2 DEF Envelope
  <2>3. old = [i \in 1..n |-> [document[i] EXCEPT !.body = << >>]]
    BY <2>1
  <2>4. old \in [1..n -> Envelope]
    BY <2>2, <2>3
  <2>5. QED
    BY <2>1, <2>3, <2>4
<1> HIDE DEF old
<1>9. /\ document' \in Seq(Envelope) /\ Len(document') = Len(document) + 1
      /\ document'[Len(document) + 1] = new
  <2>1. PICK q \in Seq(Envelope) : q = old
    BY <1>8
  <2>2. PICK e \in Envelope : e = new
    BY <1>7
  <2> HIDE DEF new
  <2>3. document' = Append(q, e) /\ Len(q) = Len(document)
    BY <1>4, <1>8, <2>1, <2>2
  <2>4. QED
    BY <2>2, <2>3, Appended
<1>10. document' # Fault
  <2>1. Len(Fault) = 1 /\ Fault[1].action = << >>
    BY DEF Fault
  <2>2. document' = Fault => document'[1].action = url
    BY <1>7, <1>8, <1>9, <2>1
  <2>3. url # << >>
    BY DEF url, ResponseAction
  <2>4. QED
    BY <2>1, <2>2, <2>3
<1>11. document' # << >>
  BY <1>8, <1>9
<1>12. ASSUME document = << >> PROVE document' = <<[action |-> url, body |-> <<el>>]>>
  <2>1. body = << >> /\ old = << >>
    BY <1>8, <1>12 DEF body
  <2>2. Append(body, el) = <<el>>
    BY <2>1
  <2>3. new = [action |-> url, body |-> <<el>>]
    BY <2>2
  <2> HIDE DEF new
  <2>4. Append(old, new) = <<new>>
    BY <2>1
  <2>5. QED
    BY <1>4, <2>3, <2>4
<1>13. document' \in Reply
  BY <1>9 DEF Reply
<1>14. QED
  BY <1>8, <1>9, <1>10, <1>11, <1>12, <1>13 DEF el, url

(* How the steps that follow the request change it. *)
LEMMA KeepsRequest ==
    ASSUME TypeOK, BoundAndGenerated, RequestFollowed, Next
    PROVE  RequestFollowed'
<1> SUFFICES ASSUME request' # None
             PROVE  /\ Advertised(request', wsdl')
                    /\ Decided(request', mappings', late') /\ Counted(request', document', replies')
  BY FollowedParts
<1>1. request # None => /\ Advertised(request, wsdl)
                        /\ Decided(request, mappings, late) /\ Counted(request, document, replies)
  BY FollowedParts
<1>2. request # None => /\ wsdl # None /\ request.op \in wsdl.operations
                        /\ request \in Request
  BY DEF TypeOK
<1>3. request # None =>
          /\ request.op.of[1] \in DOMAIN mappings
          /\ request.op.of[2] \in DOMAIN mappings[request.op.of[1]]
          /\ request.op.request.action = request.op.of
          /\ request.op.of = <<request.op.of[1], request.op.of[2]>>
          /\ MethodOf(request.op.request.action) = OfIn(mappings, request.op)
          /\ OfIn(mappings, request.op) \in Function
  BY <1>2, OperationBound DEF OfIn, Of
<1>4. ASSUME NEW s \in Service, AddService(s)
      PROVE  /\ Advertised(request', wsdl')
             /\ Decided(request', mappings', late') /\ Counted(request', document', replies')
  <2>1. UNCHANGED <<request, document, replies, wsdl, late>>
    BY <1>4 DEF AddService
  <2>2. /\ DOMAIN mappings \subseteq DOMAIN mappings'
        /\ OfIn(mappings', request.op) = OfIn(mappings, request.op)
    BY <1>3, <1>4, <2>1, ServiceAdded DEF OfIn
  <2>3. Decided(request, mappings', late)
    BY <1>1, <2>1, <2>2 DEF Decided, ShadowedIn
  <2>4. QED
    BY <1>1, <2>1, <2>3
<1>5. ASSUME NEW b \in Program, AddMethod(b)
      PROVE  /\ Advertised(request', wsdl')
             /\ Decided(request', mappings', late') /\ Counted(request', document', replies')
  <2>1. /\ UNCHANGED <<request, document, replies, wsdl>>
        /\ late' = late \cup {Name(b)}
    BY <1>2, <1>5 DEF AddMethod, Name
  <2>2. DOMAIN mappings' = DOMAIN mappings
    BY <1>5, MethodAdded
  <2>3. request.op.of # Name(b) => OfIn(mappings', request.op) = OfIn(mappings, request.op)
    BY <1>3, <1>5, <2>1, MethodAdded DEF OfIn
  <2>4. Decided(request, mappings', late')
    BY <1>1, <2>1, <2>2, <2>3 DEF Decided, ShadowedIn
  <2>5. QED
    BY <1>1, <2>1, <2>4
<1>6. CASE Start
  BY <1>6 DEF Start, TypeOK
<1>7. ASSUME NEW op \in wsdl.operations, NEW e \in wsdl.elements, Ask(op, e)
      PROVE  /\ Advertised(request', wsdl')
             /\ Decided(request', mappings', late') /\ Counted(request', document', replies')
  <2>1. /\ wsdl' = wsdl /\ e \in DescribedIn(wsdl, op.request.message)
        /\ document' = << >> /\ replies' = << >>
        /\ request' = [op |-> op, element |-> e.name, class |-> e.class,
                       phase |-> "sent", by |-> None]
    BY <1>7 DEF Ask, program, Described, DescribedIn
  <2>2. QED
    BY <2>1 DEF Advertised, Decided, Counted
<1>8. CASE Invoke
  <2>1. /\ request # None /\ request.phase = "sent"
        /\ UNCHANGED <<wsdl, mappings, late, document, replies>>
        /\ request' = [request EXCEPT !.phase = "invoking", !.by = OfIn(mappings, request.op)]
        /\ Invocable(OfIn(mappings, request.op))
    BY <1>3, <1>8 DEF Invoke, Sent, program
  <2>2. /\ request'.op = request.op /\ request'.element = request.element
        /\ request'.class = request.class /\ request'.phase = "invoking"
        /\ request'.by = OfIn(mappings, request.op) /\ request'.by # None
    BY <1>2, <1>3, <2>1, NoneAssumption DEF Request
  <2>3. replies = << >>
    BY <1>1, <2>1 DEF Counted
  <2>4. Len(replies) <= MaxReplies
    BY <2>3, MaxRepliesAssumption
  <2>5. QED
    BY <1>1, <2>1, <2>2, <2>3, <2>4 DEF Advertised, Decided, Counted
<1>9. CASE Reject
  <2>1. /\ request # None /\ request.phase = "sent"
        /\ UNCHANGED <<wsdl, mappings, late, document>>
        /\ replies' = Append(replies, Fault)
        /\ request' = [request EXCEPT !.phase = "over"]
        /\ ~(FindsMethod(request.op.of) /\ Invocable(OfIn(mappings, request.op)))
    BY <1>3, <1>9 DEF Reject, Sent, program
  <2>2. /\ request'.op = request.op /\ request'.element = request.element
        /\ request'.class = request.class /\ request'.phase = "over"
        /\ request'.by = request.by
    BY <1>2, <2>1 DEF Request
  <2>3. request.by = None /\ replies = << >> /\ document = << >>
    BY <1>1, <2>1 DEF Counted
  <2>4. ~FindsMethod(request.op.of) => ShadowedIn(mappings, request.op.of[1])
    BY <1>3, <2>1, FoundUnlessShadowed DEF FindsMethod, Shadowed, ShadowedIn
  <2>5. replies' = <<Fault>>
    BY <2>1, <2>3
  <2>6. Counted(request', document', replies')
    BY <2>1, <2>2, <2>3, <2>5 DEF Counted
  <2>7. QED
    BY <1>1, <2>1, <2>2, <2>3, <2>4, <2>6 DEF Advertised, Decided
<1>10. CASE Answer
  <2>1. /\ request # None /\ request.by # None /\ request' = request
        /\ UNCHANGED <<wsdl, mappings, late>>
        /\ Len(replies) < MaxReplies
    BY <1>10 DEF Answer, Invoked, program
  <2>2. document' \in Reply /\ document' # Fault /\ document' # << >>
    BY <1>10, AnswerBuilt
  <2>3. replies' = Append(replies, document')
    BY <1>10 DEF Answer
  <2>4. /\ DOMAIN replies' = 1..Len(replies) + 1 /\ Len(replies') = Len(replies) + 1
        /\ replies'[Len(replies) + 1] = document' /\ Len(replies) \in Nat
        /\ DOMAIN replies = 1..Len(replies)
        /\ \A i \in 1..Len(replies) : replies'[i] = replies[i]
    BY <2>2, <2>3, Appended DEF TypeOK
  <2>5. \A i \in DOMAIN replies' : i = Len(replies) + 1 \/ i \in DOMAIN replies
    BY <2>4
  <2>6. Len(replies) + 1 \in DOMAIN replies' /\ Len(replies') <= MaxReplies
    BY <2>1, <2>4, MaxRepliesAssumption
  <2>7. Counted(request, document', replies')
    <3>1. request.phase # "sent"
      BY <1>1, <2>1 DEF Counted
    <3>2. \A i, k \in DOMAIN replies' : replies'[i] = Fault /\ replies'[k] = Fault => i = k
      BY <1>1, <2>1, <2>2, <2>4, <2>5 DEF Counted
    <3>3. request.phase = "invoking" => \A i \in DOMAIN replies' : replies'[i] # Fault
      BY <1>1, <2>1, <2>2, <2>4, <2>5 DEF Counted
    <3>4. document' # << >> /\ ~\A i \in DOMAIN replies' : replies'[i] = Fault
      BY <2>2, <2>4, <2>6
    <3>5. QED
      BY <1>1, <2>1, <2>6, <3>1, <3>2, <3>3, <3>4 DEF Counted
  <2>8. QED
    BY <1>1, <2>1, <2>7
<1>11. CASE HandlerThrows \/ HandlerReturns
  <2>1. /\ request # None /\ request.by # None /\ request.phase = "invoking"
        /\ UNCHANGED <<wsdl, mappings, late, document>>
        /\ replies' = replies \/ replies' = Append(replies, Fault)
        /\ request' = [request EXCEPT !.phase = "over"]
    BY <1>11 DEF HandlerThrows, HandlerReturns, Invoked, program
  <2>2. /\ request'.op = request.op /\ request'.element = request.element
        /\ request'.class = request.class /\ request'.phase = "over"
        /\ request'.by = request.by
    BY <1>2, <2>1 DEF Request
  <2>3. \A i \in DOMAIN replies : replies[i] # Fault
    BY <1>1, <2>1 DEF Counted
  <2>4. CASE replies' = replies
    <3>1. Counted(request', document', replies')
      BY <1>1, <2>1, <2>2, <2>4 DEF Counted
    <3>2. QED
      BY <1>1, <2>1, <2>2, <3>1 DEF Advertised, Decided
  <2>5. CASE replies' = Append(replies, Fault)
    <3>1. /\ DOMAIN replies' = 1..Len(replies) + 1
          /\ replies'[Len(replies) + 1] = Fault /\ Len(replies) \in Nat
          /\ DOMAIN replies = 1..Len(replies)
          /\ \A i \in 1..Len(replies) : replies'[i] = replies[i]
      BY <2>5, Appended DEF TypeOK, Reply
    <3>2. \A i \in DOMAIN replies' : i = Len(replies) + 1 \/ i \in DOMAIN replies
      BY <3>1
    <3>3. \A i \in DOMAIN replies : i \in DOMAIN replies' /\ replies'[i] = replies[i]
      BY <3>1
    <3>4. \A i, k \in DOMAIN replies' : replies'[i] = Fault /\ replies'[k] = Fault => i = k
      BY <2>3, <3>2, <3>3
    <3>5. document = << >> <=> \A i \in DOMAIN replies' : replies'[i] = Fault
      BY <1>1, <2>1, <3>1, <3>2, <3>3 DEF Counted
    <3>6. Counted(request', document', replies')
      BY <1>1, <2>1, <2>2, <3>4, <3>5 DEF Counted
    <3>7. QED
      BY <1>1, <2>1, <2>2, <3>6 DEF Advertised, Decided
  <2>6. QED
    BY <2>1, <2>4, <2>5
<1>12. ASSUME NEW b \in Program, CallMethod(b)
       PROVE  /\ Advertised(request', wsdl')
              /\ Decided(request', mappings', late') /\ Counted(request', document', replies')
  <2>1. UNCHANGED <<request, document, replies, wsdl, mappings, late>>
    BY <1>12 DEF CallMethod, program
  <2>2. QED
    BY <1>1, <2>1
<1>13. QED
  BY <1>4, <1>5, <1>6, <1>7, <1>8, <1>9, <1>10, <1>11, <1>12 DEF Next

LEMMA KeepsTypes ==
    ASSUME TypeOK, BoundAndGenerated, RequestFollowed, Next
    PROVE  TypeOK'
<1> USE DEF TypeOK
<1>1. request # None =>
          /\ wsdl # None /\ request.op \in wsdl.operations /\ request \in Request
          /\ Counted(request, document, replies)
  BY FollowedParts
<1>2. request # None =>
          /\ request.op.request.action = request.op.of
          /\ request.op.of = <<request.op.of[1], request.op.of[2]>>
          /\ request.op.of[1] \in Service /\ request.op.of[2] \in Method
          /\ MethodOf(request.op.request.action) \in Function
  BY <1>1, OperationBound DEF MethodName
<1>3. ASSUME NEW s \in Service, AddService(s)
      PROVE  TypeOK'
  <2>1. Bindings' = Bindings /\ DOMAIN mappings' = DOMAIN mappings \cup {s}
    BY <1>3, ServiceAdded
  <2>2. QED
    BY <1>3, <2>1 DEF AddService
<1>4. ASSUME NEW b \in Program, AddMethod(b)
      PROVE  TypeOK'
  <2>1. Bindings' \subseteq Program \ todo' /\ DOMAIN mappings' = DOMAIN mappings
    BY <1>4, MethodAdded
  <2>2. Name(b) \in Service \X Method
    BY ProgramAssumption, NamesTyped DEF MethodName
  <2>3. QED
    BY <1>4, <2>1, <2>2 DEF AddMethod, Name
<1>5. Bindings' = Bindings \/ mappings' # mappings
  BY BindingsNow
<1>6. CASE Start
  <2>1. wsdl' \in Wsdl /\ wsdl' # None
    <3>1. Bindings \in SUBSET Bindable
      BY ProgramAssumption
    <3>2. QED
      BY <1>6, <3>1, WsdlTyped, NoneAssumption DEF Start
  <2>2. QED
    BY <1>5, <1>6, <2>1 DEF Start
<1>7. ASSUME NEW op \in wsdl.operations, NEW e \in wsdl.elements, Ask(op, e)
      PROVE  TypeOK'
  <2>1. wsdl # None /\ wsdl \in Wsdl
    BY <1>7 DEF Ask
  <2>2. op \in Operation /\ e \in [of : MethodName, name : ElementName, class : Class]
    BY <2>1 DEF Wsdl
  <2>3. [op |-> op, element |-> e.name, class |-> e.class, phase |-> "sent", by |-> None] \in Request
    BY <2>2 DEF Request
  <2>4. /\ replies' = << >> /\ replies' \in Seq(Reply) /\ Len(replies') <= MaxReplies + 1
        /\ document' = << >> /\ document' \in Seq(Envelope)
    BY <1>7, MaxRepliesAssumption DEF Ask
  <2>5. /\ request' \in Request /\ request'.op = op
        /\ UNCHANGED <<mappings, todo, late, wsdl, call>>
    BY <1>7, <2>3 DEF Ask, program
  <2>6. QED
    BY <1>5, <2>1, <2>4, <2>5
<1>8. CASE Invoke
  <2>1. request' \in Request /\ request'.op = request.op
    BY <1>1, <1>2, <1>8 DEF Invoke, Sent, Request
  <2>2. QED
    BY <1>1, <1>5, <1>8, <2>1 DEF Invoke, Sent, program
<1>9. Len(replies) \in Nat /\ \A a \in Reply : /\ Append(replies, a) \in Seq(Reply)
                                               /\ Len(Append(replies, a)) = Len(replies) + 1
  OBVIOUS
<1>10. Fault \in Reply
  BY DEF Reply
<1>11. CASE Reject
  <2>1. request' \in Request /\ request'.op = request.op
    BY <1>1, <1>11 DEF Reject, Sent, Request
  <2>2. Len(replies) = 0
    BY <1>1, <1>11 DEF Reject, Sent, Counted
  <2>3. replies' \in Seq(Reply) /\ Len(replies') <= MaxReplies + 1
    BY <1>9, <1>10, <1>11, <2>2, MaxRepliesAssumption DEF Reject
  <2>4. QED
    BY <1>1, <1>5, <1>11, <2>1, <2>3 DEF Reject, Sent, program
<1>12. CASE Answer
  <2>1. request # None /\ Len(replies) < MaxReplies /\ replies' = Append(replies, document')
    BY <1>12 DEF Answer, Invoked
  <2>2. document' \in Reply /\ document' \in Seq(Envelope)
    BY <1>12, AnswerBuilt
  <2>3. replies' \in Seq(Reply) /\ Len(replies') <= MaxReplies + 1
    BY <1>9, <2>1, <2>2, MaxRepliesAssumption
  <2>4. QED
    BY <1>1, <1>5, <1>12, <2>1, <2>2, <2>3 DEF Answer, program
<1>13. CASE HandlerThrows \/ HandlerReturns
  <2>1. request' \in Request /\ request'.op = request.op
    BY <1>1, <1>13 DEF HandlerThrows, HandlerReturns, Invoked, Request
  <2>2. Len(replies) <= MaxReplies
    BY <1>1, <1>13 DEF HandlerThrows, HandlerReturns, Invoked, Counted
  <2>3. replies' \in Seq(Reply) /\ Len(replies') <= MaxReplies + 1
    <3>1. replies' = replies \/ replies' = Append(replies, Fault)
      BY <1>13 DEF HandlerThrows, HandlerReturns
    <3>2. QED
      BY <1>9, <1>10, <2>2, <3>1, MaxRepliesAssumption
  <2>4. QED
    BY <1>1, <1>5, <1>13, <2>1, <2>3 DEF HandlerThrows, HandlerReturns, Invoked, program
<1>14. ASSUME NEW b \in Program, CallMethod(b)
       PROVE  TypeOK'
  <2>1. b \in Bindable /\ b.function.request \in Class
    BY ProgramAssumption, BindableFacts
  <2>2. call' \in Call /\ wsdl # None
    BY <1>14, <2>1, NamesTyped DEF CallMethod, CallInfo, Call, Name
  <2>3. QED
    BY <1>5, <1>14, <2>2 DEF CallMethod, program
<1>15. QED
  BY <1>3, <1>4, <1>6, <1>7, <1>8, <1>11, <1>12, <1>13, <1>14 DEF Next

LEMMA KeepsCall ==
    ASSUME TypeOK, CallFollowed, Next
    PROVE  CallFollowed'
<1>1. todo' \subseteq todo
  BY DEF Next, AddService, AddMethod, Start, Ask, Invoke, Reject, Answer, HandlerThrows,
         HandlerReturns, CallMethod, program
<1>2. ASSUME NEW b \in Program, CallMethod(b)
      PROVE  CallFollowed'
  BY <1>2 DEF CallFollowed, CallMethod, CallInfo, Callable, Name, RequestAction, RequestElement, program
<1>3. CASE call' = call
  BY <1>1, <1>3 DEF CallFollowed, Callable, Name, RequestAction, RequestElement
<1>4. QED
  BY <1>2, <1>3 DEF Next, AddService, AddMethod, Start, Ask, Invoke, Reject, Answer, HandlerThrows,
                    HandlerReturns

LEMMA ContractStep == ContractInv /\ [Next]_vars => ContractInv'
<1>1. ASSUME ContractInv, Next PROVE ContractInv'
  <2>1. TypeOK' /\ BoundAndGenerated' /\ RequestFollowed' /\ CallFollowed'
    BY <1>1, KeepsTypes, KeepsBound, KeepsRequest, KeepsCall DEF ContractInv
  <2>2. TypeOK' /\ BoundAndGenerated' => ClientCanBeGenerated'
    BY GeneratedForClients, PTL
  <2>3. QED
    BY <2>1, <2>2 DEF ContractInv
<1>2. ASSUME ContractInv, UNCHANGED vars PROVE ContractInv'
  <2>1. Bindings' = Bindings
    BY <1>2, BindingsNow DEF vars
  <2>2. TypeOK'
    BY <1>2, <2>1 DEF ContractInv, TypeOK, vars
  <2>3. BoundAndGenerated'
    BY <1>2, <2>1 DEF ContractInv, BoundAndGenerated, Name, GenerateWsdl, GenerateWsdlElements,
                      GenerateWsdlMessage, GenerateWsdlOperation, vars
  <2>4. ClientCanBeGenerated'
    BY <1>2 DEF ContractInv, ClientCanBeGenerated, Described, Ambiguous, vars
  <2>5. RequestFollowed'
    BY <1>2, FollowedParts DEF ContractInv, vars
  <2>6. CallFollowed'
    BY <1>2 DEF ContractInv, CallFollowed, Callable, Name, RequestAction, RequestElement, vars
  <2>7. QED
    BY <2>2, <2>3, <2>4, <2>5, <2>6 DEF ContractInv
<1>3. QED
  BY <1>1, <1>2

(* The WSDL is one a client can be generated from, and it, the bindings,   *)
(* the request that is followed and the server's calls belong together.    *)
THEOREM ContractInvariant == Spec => []ContractInv
  BY ContractInitially, ContractStep, PTL DEF Spec

(* A request of an operation that clients call reaches the method's        *)
(* callback, as the message it takes, and no other request reaches any.    *)
THEOREM AdvertisedIsDone == Spec => []AdvertisedIsInvoked
<1>1. ContractInv => AdvertisedIsInvoked
  <2> SUFFICES ASSUME ContractInv, request # None, ~Sent,
                      ~Shadowed(request.op.of[1]), request.op.of \notin late
               PROVE  /\ Invoked <=> request.op.isInput /\ Of(request.op).callback
                      /\ Invoked => request.class = request.by.request \/ Ambiguous(request.op.of)
    BY DEF AdvertisedIsInvoked
  <2>1. wsdl # None /\ request.op \in wsdl.operations /\ TypeOK /\ BoundAndGenerated
    BY DEF ContractInv, TypeOK
  <2>2. PICK b \in Program \ todo :
            /\ request.op.isInput = b.function.isInput
            /\ \A e \in Described(request.op.request.message) :
                  e = RequestElementOf(b) \/ Ambiguous(request.op.of)
            /\ Of(request.op) = b.function
    BY <2>1, OperationIs
  <2>3. b.function \in Function /\ b.function.isInput \in BOOLEAN /\ b.function.callback \in BOOLEAN
    BY ProgramAssumption, BindableFacts
  <2>4. /\ \E e \in Described(request.op.request.message) : e.class = request.class
        /\ Invoked => Invocable(request.by)
        /\ IF Invoked THEN request.by = Of(request.op) ELSE ~Invocable(Of(request.op))
    BY DEF ContractInv, RequestFollowed
  <2>5. Invoked <=> request.op.isInput /\ Of(request.op).callback
    BY <2>2, <2>3, <2>4 DEF Invocable
  <2>6. Invoked => request.class = request.by.request \/ Ambiguous(request.op.of)
    BY <2>2, <2>4 DEF RequestElementOf
  <2>7. QED
    BY <2>5, <2>6
<1>2. QED
  BY <1>1, ContractInvariant, PTL

-----------------------------------------------------------------------------
(* RepliesAsAdvertised, strengthened: an answer after another has more     *)
(* than one envelope, so no binding can make a message of it.              *)

MessageIn(w, doc, part, again) ==
    /\ Len(doc) = 1 /\ doc[1].action = part.action /\ Len(doc[1].body) = 1
    /\ \E e \in DescribedIn(w, part.message) :
          /\ e.name = doc[1].body[1].element
          /\ e.class = doc[1].body[1].class \/ again

Stands(w, op, again, rs, i) ==
    IF op.response = None THEN again
    ELSE IF \A k \in 1..i - 1 : rs[k] = Fault THEN MessageIn(w, rs[i], op.response, again)
    ELSE Len(rs[i]) # 1

AnswersStand(w, op, again, rs) ==
    \A i \in DOMAIN rs : rs[i] # Fault => Stands(w, op, again, rs, i)

RepliesStand == AnswersStand(wsdl, request.op, request.op.of \in late, replies)

LEMMA StandingIsAdvertised == RepliesStand => RepliesAsAdvertised
<1>1. \A doc, part, again : IsMessage(doc, part, again) <=> MessageIn(wsdl, doc, part, again)
  BY DEF IsMessage, MessageIn, Described, DescribedIn
<1>2. \A doc, part, again : MessageIn(wsdl, doc, part, again) => Len(doc) = 1
  BY DEF MessageIn
<1>3. QED
  BY <1>1, <1>2 DEF RepliesStand, AnswersStand, Stands, RepliesAsAdvertised

(* Another reply leaves those before it as they stand. *)
LEMMA StandsStill ==
    ASSUME NEW w, NEW op, NEW again, NEW more, again => more, NEW rs \in Seq(Reply),
           AnswersStand(w, op, again, rs), NEW a \in Reply,
           a # Fault => Stands(w, op, more, Append(rs, a), Len(rs) + 1)
    PROVE  AnswersStand(w, op, more, rs) /\ AnswersStand(w, op, more, Append(rs, a))
<1>1. PICK q : q = Append(rs, a)
  OBVIOUS
<1>2. /\ Len(rs) \in Nat /\ DOMAIN rs = 1..Len(rs) /\ DOMAIN q = 1..Len(rs) + 1
      /\ q[Len(rs) + 1] = a /\ \A i \in 1..Len(rs) : q[i] = rs[i]
  BY <1>1, Appended
<1>3. ASSUME NEW i \in DOMAIN rs, rs[i] # Fault
      PROVE  Stands(w, op, more, rs, i) /\ Stands(w, op, more, q, i)
  <2>1. Stands(w, op, again, rs, i)
    BY <1>3 DEF AnswersStand
  <2>2. \A doc, part : MessageIn(w, doc, part, again) => MessageIn(w, doc, part, more)
    BY DEF MessageIn
  <2>3. \A k \in 1..i - 1 : q[k] = rs[k]
    BY <1>2
  <2>4. q[i] = rs[i]
    BY <1>2
  <2>5. QED
    BY <2>1, <2>2, <2>3, <2>4 DEF Stands
<1>4. \A i \in DOMAIN q : i = Len(rs) + 1 \/ i \in DOMAIN rs
  BY <1>2
<1>5. AnswersStand(w, op, more, q)
  BY <1>1, <1>2, <1>3, <1>4 DEF AnswersStand
<1>6. QED
  BY <1>1, <1>3, <1>5 DEF AnswersStand

LEMMA AnswerStands ==
    ASSUME ContractInv, RepliesStand, Answer
    PROVE  RepliesStand'
<1>1. /\ request # None /\ request.by # None /\ ~request.by.isOneWay
      /\ UNCHANGED <<request, wsdl, late>>
  BY DEF Answer, Invoked, program
<1>2. /\ wsdl # None /\ request.op \in wsdl.operations /\ TypeOK /\ BoundAndGenerated
      /\ replies \in Seq(Reply) /\ document \in Seq(Envelope)
  BY <1>1 DEF ContractInv, TypeOK
<1>3. PICK b \in Program \ todo :
          /\ request.op.of = Name(b)
          /\ IF b.function.isOneWay THEN request.op.response = None
             ELSE /\ request.op.response # None
                  /\ request.op.response.action = ResponseAction(b.service, b.method)
                  /\ ResponseElementOf(b) \in Described(request.op.response.message)
          /\ request.op.of \notin late => Of(request.op) = b.function
  BY <1>2, OperationIs
<1>4. request.op.of \notin late => request.by = b.function
  BY <1>1, <1>3 DEF ContractInv, RequestFollowed, Sent, Invoked
<1>5. /\ document' \in Reply /\ Len(document') = Len(document) + 1 /\ Len(document) \in Nat
      /\ document = << >> =>
            document' = <<[action |-> ResponseAction(request.op.of[1], request.op.of[2]),
                           body |-> <<[element |-> ResponseElement(request.op.of[2]),
                                       class |-> Of(request.op).response]>>]>>
      /\ replies' = Append(replies, document')
  BY <1>2, AnswerBuilt DEF Answer
<1>6. document = << >> <=> \A i \in DOMAIN replies : replies[i] = Fault
  BY <1>1 DEF ContractInv, RequestFollowed
<1>7. Stands(wsdl, request.op, request.op.of \in late, replies', Len(replies) + 1)
  <2>1. /\ replies'[Len(replies) + 1] = document' /\ Len(replies) \in Nat
        /\ DOMAIN replies = 1..Len(replies) /\ Len(replies) + 1 - 1 = Len(replies)
        /\ \A k \in 1..Len(replies) : replies'[k] = replies[k]
    BY <1>2, <1>5, Appended
  <2>2. document = << >> <=> \A k \in 1..Len(replies) + 1 - 1 : replies'[k] = Fault
    BY <1>6, <2>1
  <2>3. CASE request.op.response = None
    <3>1. request.op.of \in late
      BY <1>1, <1>3, <1>4, <2>3
    <3>2. QED
      BY <2>3, <3>1 DEF Stands
  <2>4. CASE request.op.response # None /\ document = << >>
    <3>1. request.op.of[1] = b.service /\ request.op.of[2] = b.method
      BY <1>3 DEF Name
    <3>2. PICK e : /\ e = ResponseElementOf(b)
                   /\ e \in DescribedIn(wsdl, request.op.response.message)
      BY <1>3, <2>4 DEF Described, DescribedIn
    <3>3. e.name = ResponseElement(b.method) /\ e.class = b.function.response
      BY <3>2 DEF ResponseElementOf
    <3>4. request.op.response.action = ResponseAction(b.service, b.method)
      BY <1>3, <2>4
    <3>5. PICK el : /\ document' = <<[action |-> ResponseAction(b.service, b.method), body |-> <<el>>]>>
                    /\ el.element = ResponseElement(b.method)
                    /\ el.class = Of(request.op).response
      BY <1>5, <2>4, <3>1
    <3>6. /\ Len(document') = 1 /\ document'[1].action = ResponseAction(b.service, b.method)
          /\ Len(document'[1].body) = 1 /\ document'[1].body[1] = el
      BY <3>5
    <3>7. request.op.of \in late \/ el.class = e.class
      BY <1>3, <3>3, <3>5
    <3>8. MessageIn(wsdl, document', request.op.response, request.op.of \in late)
      BY <3>2, <3>3, <3>4, <3>5, <3>6, <3>7 DEF MessageIn
    <3>9. QED
      BY <2>1, <2>2, <2>4, <3>8 DEF Stands
  <2>5. CASE request.op.response # None /\ document # << >>
    <3>1. Len(document) # 0
      BY <1>2, <2>5
    <3>2. Len(document') # 1
      BY <1>5, <3>1
    <3>3. QED
      BY <2>1, <2>2, <2>5, <3>2 DEF Stands
  <2>6. QED
    BY <2>3, <2>4, <2>5
<1>8. AnswersStand(wsdl, request.op, request.op.of \in late, replies')
  BY <1>2, <1>5, <1>7, StandsStill DEF RepliesStand
<1>9. QED
  BY <1>1, <1>8 DEF RepliesStand

(* The first answer to a request is the response the WSDL has for it, any  *)
(* further one is no message, and a one-way operation is never answered,   *)
(* whatever handlers do and whenever methods are bound again.              *)
THEOREM RepliesAreAdvertised == Spec => []RepliesAsAdvertised
<1>1. Init => RepliesStand
  BY DEF Init, RepliesStand, AnswersStand
<1>2. ASSUME ContractInv, RepliesStand, Next PROVE RepliesStand'
  <2>1. replies \in Seq(Reply) /\ Fault \in Reply
    BY <1>2 DEF ContractInv, TypeOK, Reply
  <2>2. CASE /\ UNCHANGED wsdl /\ late \subseteq late' /\ request'.op = request.op
             /\ replies' = replies \/ replies' = Append(replies, Fault)
    <3>1. request.op.of \in late => request.op.of \in late'
      BY <2>2
    <3>2. /\ AnswersStand(wsdl, request.op, request.op.of \in late', replies)
          /\ AnswersStand(wsdl, request.op, request.op.of \in late', Append(replies, Fault))
      <4>1. PICK again : again = (request.op.of \in late)
        OBVIOUS
      <4>2. PICK more : more = (request.op.of \in late')
        OBVIOUS
      <4>3. AnswersStand(wsdl, request.op, again, replies) /\ (again => more)
        BY <1>2, <3>1, <4>1, <4>2 DEF RepliesStand
      <4>4. /\ AnswersStand(wsdl, request.op, more, replies)
            /\ AnswersStand(wsdl, request.op, more, Append(replies, Fault))
        BY <2>1, <4>3, StandsStill
      <4>5. QED
        BY <4>2, <4>4
    <3>3. AnswersStand(wsdl', request'.op, request'.op.of \in late', replies')
      BY <2>2, <3>2
    <3>4. QED
      BY <3>3 DEF RepliesStand
  <2>3. CASE replies' = << >>
    BY <2>3 DEF RepliesStand, AnswersStand
  <2>4. CASE Start \/ \E op \in wsdl.operations, e \in wsdl.elements : Ask(op, e)
    BY <1>2, <2>3, <2>4 DEF Start, Ask, ContractInv, TypeOK
  <2>5. CASE \/ \E s \in Service : AddService(s)
             \/ \E b \in Program : AddMethod(b) \/ CallMethod(b)
    BY <2>2, <2>5 DEF AddService, AddMethod, CallMethod, program
  <2>6. CASE Invoke \/ Reject \/ HandlerThrows \/ HandlerReturns
    <3>1. request \in Request
      BY <1>2, <2>6 DEF Invoke, Reject, HandlerThrows, HandlerReturns, Sent, Invoked,
                        ContractInv, TypeOK
    <3>2. request'.op = request.op
      BY <2>6, <3>1 DEF Invoke, Reject, HandlerThrows, HandlerReturns, Request
    <3>3. QED
      BY <2>2, <2>6, <3>2 DEF Invoke, Reject, HandlerThrows, HandlerReturns, program
  <2>7. QED
    BY <1>2, <2>4, <2>5, <2>6, AnswerStands DEF Next
<1>3. ASSUME RepliesStand, UNCHANGED vars PROVE RepliesStand'
  BY <1>3 DEF RepliesStand, vars
<1>4. ContractInv /\ RepliesStand /\ [Next]_vars => RepliesStand'
  BY <1>2, <1>3
<1>5. QED
  BY <1>1, <1>4, ContractInvariant, StandingIsAdvertised, PTL DEF Spec

(* The requests the server makes are ones the WSDL tells clients to        *)
(* expect, unless the method was bound later or bound twice.               *)
THEOREM CallsAreAdvertised == Spec => []CallsAsAdvertised
<1>1. ContractInv => CallsAsAdvertised
  <2> SUFFICES ASSUME ContractInv, call # None, call.of \notin late,
                      \A b \in (Program \ todo) \ {call.by} : <<b.service, b.method>> # call.of
               PROVE  \E op \in wsdl.operations :
                         /\ op.of = call.of /\ ~op.isInput
                         /\ op.request.action = call.action
                         /\ \E e \in Described(op.request.message) :
                               e.name = call.element /\ e.class = call.class
    BY DEF CallsAsAdvertised
  <2> DEFINE b == call.by
  <2>1. /\ TypeOK /\ wsdl # None /\ b \in Program \ todo /\ ~b.function.isInput
        /\ call.of = Name(b) /\ call.action = RequestAction(call.of[1], call.of[2])
        /\ call.element = RequestElement(call.of[2]) /\ call.class = b.function.request
    BY DEF ContractInv, TypeOK, CallFollowed, Callable
  <2>2. PICK bs \in SUBSET (Program \ todo) :
            /\ wsdl = GenerateWsdl(bs)
            /\ \A d \in Program \ todo : Name(d) \notin late => (d \in bs <=> d \in Bindings)
    BY <2>1 DEF ContractInv, BoundAndGenerated
  <2> HIDE DEF b
  <2>3. b \in bs
    <3>1. PICK d \in Bindings : Name(d) = Name(b)
      BY <2>1 DEF ContractInv, BoundAndGenerated
    <3>2. d \in Program \ todo
      BY <2>1 DEF TypeOK
    <3>3. d = b
      BY <2>1, <3>1, <3>2 DEF Name, b
    <3>4. QED
      BY <2>1, <2>2, <3>1, <3>3
  <2>4. bs \in SUBSET Bindable
    BY <2>2, ProgramAssumption
  <2>5. Operated(b) \in wsdl.operations
    BY <2>2, <2>3, WsdlIs
  <2>6. /\ Operated(b).of = Name(b) /\ Operated(b).isInput = b.function.isInput
        /\ Operated(b).request.action = RequestAction(b.service, b.method)
    BY DEF Operated, GenerateWsdlOperation, Name
  <2>7. RequestElementOf(b) \in Described(Operated(b).request.message)
    BY <2>2, <2>3, <2>4, RequestDescribed
  <2>8. /\ RequestElementOf(b).name = RequestElement(b.method)
        /\ RequestElementOf(b).class = b.function.request
        /\ call.of[1] = b.service /\ call.of[2] = b.method
    BY <2>1 DEF RequestElementOf, Name
  <2>9. QED
    BY <2>1, <2>5, <2>6, <2>7, <2>8
<1>2. QED
  BY <1>1, ContractInvariant, PTL
=============================================================================
