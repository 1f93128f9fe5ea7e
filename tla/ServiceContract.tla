-------------------------- MODULE ServiceContract --------------------------
(***************************************************************************)
(* The contract between the server and its clients: the services and       *)
(* methods the program binds (m_soapMappings, ServiceBinding and           *)
(* FunctionBinding), the WSDL that GenerateWsdl makes of them when the     *)
(* server starts, the dispatch of requests by their action, and what the   *)
(* server sends in requests and responses of its own.                      *)
(*                                                                         *)
(* A client is generated from the WSDL: it sends what an operation of the  *)
(* WSDL says and expects to get what it says.  The program may bind more   *)
(* at any time, also while a request is on its way.  One request is        *)
(* followed at a time: two only meet in the bindings.                      *)
(*                                                                         *)
(* URLs and composed names are tuples of the names they are made of: the   *)
(* action of method m of service s is <<s, m>>.  Of service names it       *)
(* matters whether one is a prefix of another.                             *)
(***************************************************************************)
EXTENDS Sequences, FiniteSets, Naturals

CONSTANTS Service, Method, Class,  \* names of services, methods and messages
          PrefixOf,                \* the pairs <<s, t>> of services where
                                   \* the name s is a proper prefix of t
          Program,                 \* what the program may bind, see Bindable
          MaxReplies,              \* bound: no handler answers a request
                                   \* that has had so many replies
          None

(* A FunctionBinding: the messages it takes and returns, whether clients   *)
(* call it (isInput) or the server calls clients, whether it has no        *)
(* response, and whether the program gave a callback to invoke.            *)
Function == [request : Class, response : Class,
             isInput : BOOLEAN, isOneWay : BOOLEAN, callback : BOOLEAN]

Bindable == [service : Service, method : Method, function : Function]

ASSUME ProgramAssumption == Program \subseteq Bindable
ASSUME MaxRepliesAssumption == MaxReplies \in Nat
ASSUME PrefixAssumption ==
    /\ PrefixOf \subseteq Service \X Service
    /\ \A s \in Service : <<s, s>> \notin PrefixOf
    /\ \A s, t, u \in Service :
          /\ <<s, t>> \in PrefixOf /\ <<t, u>> \in PrefixOf => <<s, u>> \in PrefixOf
          /\ <<s, u>> \in PrefixOf /\ <<t, u>> \in PrefixOf /\ s # t =>
                <<s, t>> \in PrefixOf \/ <<t, s>> \in PrefixOf

(* What the binders make of the program's functions: the methods of a      *)
(* native object, which clients call, functions it calls a client by, and  *)
(* the methods of a protobuf service.  None of them makes one one-way.     *)
SoapNativeInbound(req, resp) ==
    [request |-> req, response |-> resp,
     isInput |-> TRUE, isOneWay |-> FALSE, callback |-> TRUE]

SoapNativeOutbound(req, resp) ==
    [request |-> req, response |-> resp,
     isInput |-> FALSE, isOneWay |-> FALSE, callback |-> FALSE]

BindProtobuf(req, resp, isInput) ==
    [request |-> req, response |-> resp,
     isInput |-> isInput, isOneWay |-> FALSE, callback |-> isInput]

VARIABLES mappings, \* m_soapMappings: service -> (method -> FunctionBinding)
          todo,     \* what the program has not bound yet
          late,     \* the methods bound after the WSDL was generated
          wsdl,     \* the WSDL, None before Start
          request,  \* the last request of a client, or None
          document, \* respDoc, the document its answers are built in
          replies,  \* what the server has sent for it
          call      \* the last request the server sent a client, or None

vars == <<mappings, todo, late, wsdl, request, document, replies, call>>
program == <<mappings, todo, late, wsdl>>

Init ==
    /\ mappings = [s \in {} |-> None]
    /\ todo = Program
    /\ late = {}
    /\ wsdl = None
    /\ request = None /\ document = << >> /\ replies = << >> /\ call = None

-----------------------------------------------------------------------------
(* What the names and records below are made of *)

MethodName == Service \X Method
ElementName == {<<m>> : m \in Method} \cup {<<m, "Response">> : m \in Method}
MessageName == Service \X Method \X Class \X {"Request", "Response"}
Part == [message : MessageName,
         action : MethodName \cup (Service \X Method \X {"Response"})]
Operation == [of : MethodName, isInput : BOOLEAN, request : Part, response : Part \cup {None}]

Wsdl == [elements : SUBSET [of : MethodName, name : ElementName, class : Class],
         messages : SUBSET [name : MessageName, element : ElementName],
         operations : SUBSET Operation]

Request == [op : Operation, element : ElementName, class : Class,
            phase : {"sent", "invoking", "over"}, by : Function \cup {None}]

Call == [of : MethodName, by : Program, action : MethodName,
         element : ElementName, class : Class]

ASSUME NoneAssumption ==
    /\ None \notin Function /\ None \notin Part
    /\ None \notin Wsdl /\ None \notin Request /\ None \notin Call

-----------------------------------------------------------------------------
(* Binding *)

NoMethods == [m \in {} |-> None]

(* A service that is known keeps its methods. *)
AddService(s) ==
    /\ \E b \in todo : b.service = s
    /\ mappings' = [t \in DOMAIN mappings \cup {s} |->
                       IF t \in DOMAIN mappings THEN mappings[t] ELSE NoMethods]
    /\ UNCHANGED <<todo, late, wsdl, request, document, replies, call>>

(* A method that is known is replaced. *)
AddMethod(b) ==
    /\ b \in todo /\ b.service \in DOMAIN mappings
    /\ mappings' = [mappings EXCEPT ![b.service] =
                       [m \in DOMAIN @ \cup {b.method} |->
                           IF m = b.method THEN b.function ELSE @[m]]]
    /\ todo' = todo \ {b}
    /\ late' = IF wsdl = None THEN late ELSE late \cup {<<b.service, b.method>>}
    /\ UNCHANGED <<wsdl, request, document, replies, call>>

-----------------------------------------------------------------------------
(* GenerateWsdl *)

RequestAction(s, m) == <<s, m>>
ResponseAction(s, m) == <<s, m, "Response">>

(* A name without the service: two services can declare the same element. *)
RequestElement(m) == <<m>>
ResponseElement(m) == <<m, "Response">>

GetRequestMessageName(s, m, f) == <<s, m, f.request, "Request">>
GetResponseMessageName(s, m, f) == <<s, m, f.response, "Response">>

GenerateWsdlElementsOfInputs(s, m, f) ==
    {[of |-> <<s, m>>, name |-> RequestElement(m), class |-> f.request]}
    \cup IF ~f.isInput \/ f.isOneWay THEN {}
         ELSE {[of |-> <<s, m>>, name |-> ResponseElement(m), class |-> f.response]}

GenerateWsdlElements(s, m, f) ==
    {[of |-> <<s, m>>, name |-> RequestElement(m), class |-> f.request]}
    \cup IF f.isOneWay THEN {}
         ELSE {[of |-> <<s, m>>, name |-> ResponseElement(m), class |-> f.response]}

GenerateWsdlMessage(s, m, f) ==
    {[name |-> GetRequestMessageName(s, m, f), element |-> RequestElement(m)]}
    \cup IF f.isOneWay THEN {}
         ELSE {[name |-> GetResponseMessageName(s, m, f), element |-> ResponseElement(m)]}

(* isInput says which of the two is the operation's input. *)
GenerateWsdlOperation(s, m, f) ==
    [of |-> <<s, m>>, isInput |-> f.isInput,
     request |-> [message |-> GetRequestMessageName(s, m, f),
                  action |-> RequestAction(s, m)],
     response |-> IF f.isOneWay THEN None
                  ELSE [message |-> GetResponseMessageName(s, m, f),
                        action |-> ResponseAction(s, m)]]

(* The methods bound, which the GenerateWsdl functions go through. *)
Bindings ==
    UNION {{[service |-> s, method |-> m, function |-> mappings[s][m]] :
               m \in DOMAIN mappings[s]} : s \in DOMAIN mappings}

GenerateWsdl(bs) ==
    [elements |-> UNION {GenerateWsdlElements(b.service, b.method, b.function) : b \in bs},
     messages |-> UNION {GenerateWsdlMessage(b.service, b.method, b.function) : b \in bs},
     operations |-> {GenerateWsdlOperation(b.service, b.method, b.function) : b \in bs}]

(* SoapServer::Start, which generates the WSDL before it listens. *)
Start ==
    /\ wsdl = None
    /\ wsdl' = GenerateWsdl(Bindings)
    /\ UNCHANGED <<mappings, todo, late, request, document, replies, call>>

-----------------------------------------------------------------------------
(* Requests of clients.  phase is how far the request is: "sent",          *)
(* "invoking" while the handler runs, "over" after it.  by is the          *)
(* FunctionBinding as it was invoked, or None.                             *)

(* What the WSDL says goes with a message: an element and a class, one of  *)
(* several where several methods declare the element.                      *)
Described(name) ==
    {e \in wsdl.elements : \E x \in wsdl.messages : x.name = name /\ x.element = e.name}

Busy == request # None /\ request.phase \in {"sent", "invoking"}

(* A client sends the request of any operation, also of one that is not    *)
(* for it to call.                                                         *)
Ask(op, e) ==
    /\ wsdl # None /\ ~Busy
    /\ op \in wsdl.operations /\ e \in Described(op.request.message)
    /\ request' = [op |-> op, element |-> e.name, class |-> e.class,
                   phase |-> "sent", by |-> None]
    /\ document' = << >> /\ replies' = << >>
    /\ UNCHANGED <<program, call>>

(* The first service, in the order of the names, whose URL starts the      *)
(* action: a name comes before those it is a prefix of.                    *)
ServiceOf(action) ==
    CHOOSE s \in DOMAIN mappings :
        /\ s = action[1] \/ <<s, action[1]>> \in PrefixOf
        /\ \A t \in DOMAIN mappings :
              t = action[1] \/ <<t, action[1]>> \in PrefixOf =>
                  t = s \/ <<s, t>> \in PrefixOf

(* The method is the rest of the action after that service's URL: no       *)
(* method when the URL is that of another service.                         *)
FindsMethod(action) ==
    /\ ServiceOf(action) = action[1]
    /\ action[2] \in DOMAIN mappings[action[1]]

MethodOf(action) == mappings[action[1]][action[2]]

InvocableAnyway(f) == f.callback

Invocable(f) == f.isInput /\ f.callback

(* A message is a document, as a rule of one envelope with one element.    *)
Envelope == [action : Service \X Method \X {"Response"},
             body : Seq([element : ElementName, class : Class])]

Fault == <<[action |-> << >>, body |-> <<[element |-> <<"Fault">>, class |-> None]>>]>>

Reply == {Fault} \cup Seq(Envelope)

Sent == request # None /\ request.phase = "sent"

Invoke ==
    /\ Sent
    /\ LET action == request.op.request.action
       IN  /\ FindsMethod(action) /\ Invocable(MethodOf(action))
           /\ request' = [request EXCEPT !.phase = "invoking", !.by = MethodOf(action)]
    /\ UNCHANGED <<program, document, replies, call>>

(* "Action not found" and "Invoke not supported".  "Action not understood" *)
(* is no answer to an operation of the WSDL: its service is bound.         *)
Reject ==
    /\ Sent
    /\ LET action == request.op.request.action
       IN  ~(FindsMethod(action) /\ Invocable(MethodOf(action)))
    /\ replies' = Append(replies, Fault)
    /\ request' = [request EXCEPT !.phase = "over"]
    /\ UNCHANGED <<program, document, call>>

Invoked == request # None /\ request.by # None

(* OnResponse and SendResponse of an answer: its element is put behind     *)
(* those of earlier answers in the body that all of them have, and that    *)
(* moves to a new envelope behind theirs in the document of the request.   *)
SendResponse(el, url) ==
    LET body == IF document = << >> THEN << >> ELSE document[Len(document)].body
    IN  Append([i \in DOMAIN document |-> [document[i] EXCEPT !.body = << >>]],
               [action |-> url, body |-> Append(body, el)])

AnswerAsAsked ==
    /\ Invoked /\ ~request.by.isOneWay /\ Len(replies) < MaxReplies
    /\ LET action == request.op.request.action
       IN  document' = SendResponse([element |-> ResponseElement(action[2]),
                                     class |-> MethodOf(action).response], action)
    /\ replies' = Append(replies, document')
    /\ UNCHANGED <<program, request, call>>

(* OnResponseNative, OnResponseProtobuf and the callbacks they end in: the *)
(* handler answers before it returns, or later from another thread, with   *)
(* the response class that the method has by then; it may do so again.     *)
Answer ==
    /\ Invoked /\ ~request.by.isOneWay /\ Len(replies) < MaxReplies
    /\ LET action == request.op.request.action
       IN  document' = SendResponse([element |-> ResponseElement(action[2]),
                                     class |-> MethodOf(action).response],
                                    Append(action, "Response"))
    /\ replies' = Append(replies, document')
    /\ UNCHANGED <<program, request, call>>

(* The handler throws, or answers a one-way request: the callback it has   *)
(* for that is empty, and calling it throws.                               *)
HandlerThrows ==
    /\ Invoked /\ request.phase = "invoking"
    /\ replies' = Append(replies, Fault)
    /\ request' = [request EXCEPT !.phase = "over"]
    /\ UNCHANGED <<program, document, call>>

HandlerReturns ==
    /\ Invoked /\ request.phase = "invoking"
    /\ request' = [request EXCEPT !.phase = "over"]
    /\ UNCHANGED <<program, document, replies, call>>

-----------------------------------------------------------------------------
(* Requests of the server *)

(* What the program has got once b is bound as outbound: a NativeSoapCall  *)
(* that is set, or a stub, with the names and types of b as they were.     *)
Callable(b) == b \in Program \ todo /\ ~b.function.isInput

CallInfo(b) == [service |-> b.service, name |-> b.method, reqType |-> b.function.request]

CallMethodByClass(b) ==
    /\ wsdl # None
    /\ Callable(b)
    /\ LET info == CallInfo(b)
       IN  /\ info.service \in DOMAIN mappings
           /\ call' = [of |-> <<info.service, info.name>>, by |-> b,
                       action |-> RequestAction(info.service, info.name),
                       element |-> <<info.reqType>>, class |-> info.reqType]
    /\ UNCHANGED <<program, request, document, replies>>

(* CallMethod finds the service, not the method, and sends the request to  *)
(* a client, so not before the start.                                      *)
CallMethod(b) ==
    /\ wsdl # None
    /\ Callable(b)
    /\ LET info == CallInfo(b)
       IN  /\ info.service \in DOMAIN mappings
           /\ call' = [of |-> <<info.service, info.name>>, by |-> b,
                       action |-> RequestAction(info.service, info.name),
                       element |-> RequestElement(info.name), class |-> info.reqType]
    /\ UNCHANGED <<program, request, document, replies>>

Next ==
    \/ \E s \in Service : AddService(s)
    \/ \E b \in Program : AddMethod(b) \/ CallMethod(b)
    \/ Start
    \/ wsdl # None /\ \E op \in wsdl.operations, e \in wsdl.elements : Ask(op, e)
    \/ Invoke \/ Reject \/ Answer \/ HandlerThrows \/ HandlerReturns

Spec == Init /\ [][Next]_vars

-----------------------------------------------------------------------------

TypeOK ==
    /\ DOMAIN mappings \subseteq Service
    /\ Bindings \subseteq Program \ todo
    /\ todo \subseteq Program /\ late \subseteq Service \X Method
    /\ wsdl \in Wsdl \cup {None}
    /\ request \in Request \cup {None} /\ call \in Call \cup {None}
    /\ wsdl = None => late = {} /\ request = None /\ replies = << >> /\ call = None
    /\ request # None => request.op \in wsdl.operations
    /\ document \in Seq(Envelope)
    /\ replies \in Seq(Reply) /\ Len(replies) <= MaxReplies + 1

Name(b) == <<b.service, b.method>>

(* What the program has bound is in the mappings, unless it was replaced,  *)
(* and the WSDL is that of the mappings as they were at Start, of which    *)
(* what was not bound again since is still there.                          *)
BoundAndGenerated ==
    /\ \A b \in Program \ todo : \E d \in Bindings : Name(d) = Name(b)
    /\ wsdl # None => \E bs \in SUBSET (Program \ todo) :
          /\ wsdl = GenerateWsdl(bs)
          /\ \A b, d \in bs : Name(b) = Name(d) => b = d
          /\ \A b \in Program \ todo : Name(b) \notin late => (b \in bs <=> b \in Bindings)

(* Methods that other services have too. *)
Ambiguous(of) ==
    \E op \in wsdl.operations : op.of # of /\ op.of[2] = of[2]

(* A client can be generated from the WSDL: the message an operation names *)
(* is declared, its element has a type, and only one unless another        *)
(* service has a method of that name.                                      *)
ClientCanBeGenerated ==
    wsdl # None => \A op \in wsdl.operations :
        \A part \in {op.request, op.response} \ {None} :
            /\ \E e \in Described(part.message) : e.of = op.of
            /\ Ambiguous(op.of) \/ \A e \in Described(part.message) : e.of = op.of

Of(op) == mappings[op.of[1]][op.of[2]]

Shadowed(s) == \E t \in DOMAIN mappings : <<t, s>> \in PrefixOf

(* How a request stands: it is what the WSDL says, a binding that takes    *)
(* requests was invoked for it, the one that is there still unless it was  *)
(* bound again, or there is a reason why none was; at most one fault was   *)
(* sent for it, and none while its handler runs.                           *)
RequestFollowed ==
    request # None =>
        LET op == request.op
        IN  /\ \E e \in Described(op.request.message) :
                  e.name = request.element /\ e.class = request.class
            /\ Sent => ~Invoked /\ replies = << >>
            /\ Invoked => Invocable(request.by)
            /\ ~Sent /\ op.of \notin late =>
                  IF Invoked THEN request.by = Of(op)
                             ELSE Shadowed(op.of[1]) \/ ~Invocable(Of(op))
            /\ request.phase = "invoking" =>
                  /\ Invoked /\ Len(replies) <= MaxReplies
                  /\ \A i \in DOMAIN replies : replies[i] # Fault
            /\ \A i, k \in DOMAIN replies : replies[i] = Fault /\ replies[k] = Fault => i = k
            /\ document = << >> <=> \A i \in DOMAIN replies : replies[i] = Fault

(* The last request of the server is one of a function bound as outbound.  *)
CallFollowed ==
    call # None =>
        /\ Callable(call.by) /\ call.of = Name(call.by)
        /\ call.action = RequestAction(call.of[1], call.of[2])
        /\ call.element = RequestElement(call.of[2])
        /\ call.class = call.by.function.request

(* The invariant of the contract, beside the types: the WSDL is one a      *)
(* client can be generated from, and it, the mappings, the request that is *)
(* followed and the last call of the server belong together.               *)
ContractInv ==
    /\ TypeOK
    /\ BoundAndGenerated
    /\ ClientCanBeGenerated
    /\ RequestFollowed
    /\ CallFollowed

(* What the WSDL advertises the server does: a request of an operation     *)
(* that clients call reaches the method's callback, as the message it      *)
(* takes, and no other request reaches any.  Not so for a service whose    *)
(* name extends another's, for a method bound again since the server       *)
(* started, and, as to the message, for a name two services use.           *)
AdvertisedIsInvoked ==
    request # None /\ ~Sent =>
        LET op == request.op
        IN  \/ Shadowed(op.of[1]) \/ op.of \in late
            \/ /\ Invoked <=> op.isInput /\ Of(op).callback
               /\ Invoked => request.class = request.by.request \/ Ambiguous(op.of)

(* A message with the part's action and element, which is of the class the *)
(* WSDL has for it, or of any if the method was bound again.               *)
IsMessage(doc, part, again) ==
    /\ Len(doc) = 1 /\ doc[1].action = part.action /\ Len(doc[1].body) = 1
    /\ \E e \in Described(part.message) :
          /\ e.name = doc[1].body[1].element
          /\ e.class = doc[1].body[1].class \/ again

(* The first answer of a handler is a message, the one the WSDL has as the *)
(* response of the operation, of that class unless the method was bound    *)
(* again, even while the request was with its handler.  Any further answer *)
(* is none a client can read: it holds the ones before.  A one-way         *)
(* operation gets no answer unless it was bound again.                     *)
RepliesAsAdvertised ==
    \A i \in DOMAIN replies : replies[i] # Fault =>
        LET op == request.op
            first == \A k \in 1..i - 1 : replies[k] = Fault
        IN  IF op.response = None THEN op.of \in late
            ELSE IsMessage(replies[i], op.response, op.of \in late) <=> first

(* The requests the server makes are ones the WSDL tells clients to        *)
(* expect, unless the method was bound later or bound twice.               *)
CallsAsAdvertised ==
    call # None =>
        \/ call.of \in late
        \/ \E b \in (Program \ todo) \ {call.by} : <<b.service, b.method>> = call.of
        \/ \E op \in wsdl.operations :
              /\ op.of = call.of /\ ~op.isInput
              /\ op.request.action = call.action
              /\ \E e \in Described(op.request.message) :
                    e.name = call.element /\ e.class = call.class
=============================================================================
