---------------------------- MODULE ClassHelpers ----------------------------
(***************************************************************************)
(* The class helper of one message class, NativeClassHelper or             *)
(* ProtobufClassHelper, which all threads share: it reads objects from the *)
(* XML of requests and replies and writes them for requests and responses. *)
(* A native helper makes its field helpers, m_fields, on first use and     *)
(* without a lock; a protobuf one makes them in its constructor.           *)
(*                                                                         *)
(* An operation is "read", of what a client of the WSDL sent; "write", for *)
(* such a client; "echo", the write of one server that is the request or   *)
(* the native reply of another; "reply", the same for a protobuf reply.    *)
(* Asserts are compiled in.                                                *)
(***************************************************************************)
EXTENDS NativeXml, ProtobufXml

CONSTANTS Thread,
          Classes,   \* what the class may be: [native, fields, named], where named
                     \* says that it has the name of the elements of its replies
          Items,     \* the values of each type of field
          MaxList    \* the longest list of a field

Fields(types) == [name : STRING, of : types, many : BOOLEAN]

(* Values of a type.  The name Unreadable has is no value. *)
IsItem(of, item) ==
    /\ item \in Seq(STRING) /\ item # <<"unreadable">>
    /\ CASE of \in {"boolean", "bool"} -> item \in {<<"0">>, <<"1">>}
         [] of = "string" -> TRUE
         [] of = "bytes" -> ToSet(item) \subseteq DOMAIN Hex
         [] of = "double" -> Len(item) \in 1..2 /\ Blank \notin ToSet(item)
         [] OTHER -> item # << >> /\ Blank \notin ToSet(item)

ASSUME ClassesAssumption ==
    \A c \in Classes :
        /\ c \in [native : BOOLEAN, named : BOOLEAN,
                  fields : Seq(Fields(IF c.native THEN NativeType ELSE ProtobufType))]
        /\ \A i, k \in DOMAIN c.fields : c.fields[i].name = c.fields[k].name => i = k
ASSUME ItemsAssumption ==
    \A of \in NativeType \cup ProtobufType : \A item \in Items[of] : IsItem(of, item)
ASSUME MaxListAssumption == MaxList \in Nat

VARIABLES class,   \* the class, as the program declares it
          fields,  \* m_fields, as places in the class's fields
          job,     \* what each thread does
          raced,   \* some thread met an m_fields that another was filling
          up       \* FALSE once the program has crashed

vars == <<class, fields, job, raced, up>>

N == Len(class.fields)
Names == {class.fields[i].name : i \in 1..N}
AllFields == [i \in 1..N |-> i]

Binding(f) == IF class.native THEN NativeBinding(f) ELSE ProtobufBinding(f)
DefaultOf(f) == Default(IF class.native THEN f.of ELSE CppType(f))

ClassWsdl == [i \in 1..N |-> GenerateWsdl(Binding(class.fields[i]))]

(* A new object.  A protobuf field can be absent, a native one cannot. *)
CreateObject ==
    [i \in 1..N |-> IF class.native /\ ~class.fields[i].many
                    THEN <<DefaultOf(class.fields[i])>> ELSE << >>]

(* The lists of a field in the program's objects, and in a client's mind.  *)
Lists(f, sizes) == UNION {[1..k -> Items[f.of]] : k \in sizes}

Held(f) ==
    Lists(f, IF f.many THEN 0..MaxList ELSE IF class.native THEN {1} ELSE 0..1)

Sent(f) == {list \in Lists(f, 0..MaxList) : Allowed(GenerateWsdl(Binding(f)), list)}

NoJob ==
    [pc |-> "idle", op |-> "none", walk |-> "none", x |-> << >>, i |-> 0,
     els |-> << >>, obj |-> << >>]

Init ==
    /\ class \in Classes
    /\ fields = IF class.native THEN << >> ELSE AllFields
    /\ job = [t \in Thread |-> NoJob]
    /\ raced = FALSE /\ up = TRUE

Goes(t, rec) == job' = [job EXCEPT ![t] = rec]

Crash(t) == up' = FALSE /\ Goes(t, [job[t] EXCEPT !.pc = "crashed"])

(* An operation of the helper begins with SetupFields if it is native, and *)
(* then walks over the fields.  CreateObject and the FillObject it calls   *)
(* both begin so; the second SetupFields finds the fields that the first   *)
(* left.                                                                   *)
Entered(j, walk) ==
    [j EXCEPT !.pc = IF class.native THEN "setup" ELSE walk, !.walk = walk, !.i = 1]

-----------------------------------------------------------------------------
(* The callers.  Bound: after a race nothing new is begun, since no        *)
(* property speaks of what comes after one.                                *)

Free(t) == up /\ job[t].pc \in {"idle", "done"} /\ ~raced

Asked(x) == [i \in 1..N |-> Encode(ClassWsdl[i], x[i])]

Read(t) ==
    /\ Free(t)
    /\ \E x \in [1..N -> UNION {Sent(class.fields[i]) : i \in 1..N}] :
          /\ \A i \in 1..N : x[i] \in Sent(class.fields[i])
          /\ Goes(t, Entered([NoJob EXCEPT !.op = "read", !.x = x, !.obj = CreateObject,
                                           !.els = Parse(FlattenSeq(Asked(x)))], "read"))
    /\ UNCHANGED <<class, fields, raced, up>>

Write(t) ==
    /\ Free(t)
    /\ \E x \in [1..N -> UNION {Held(class.fields[i]) : i \in 1..N}],
          op \in {"write", "echo", "reply"} :
          /\ \A i \in 1..N : x[i] \in Held(class.fields[i])
          /\ class.native => op # "reply"
          /\ Goes(t, Entered([NoJob EXCEPT !.op = op, !.x = x], "write"))
    /\ UNCHANGED <<class, fields, raced, up>>

(* What was written arrives; OnNativeResponse and the dispatch of a        *)
(* request read it where it was written.                                   *)
Arrives(t, els) ==
    /\ Goes(t, Entered([job[t] EXCEPT !.els = els, !.obj = CreateObject], "read"))
    /\ UNCHANGED up

(* OnProtobufResponse: the reply's element must have the name of its type, *)
(* and FillProtobuf is given the first element inside it, or null, which   *)
(* only a message without fields survives.                                 *)
OnProtobufResponse(t, els) ==
    IF ~class.named \/ (els = << >> /\ N > 0) THEN Crash(t)
    ELSE Arrives(t, IF els = << >> THEN << >> ELSE Head(els).kids)

-----------------------------------------------------------------------------
(* SetupFields.                                                            *)

Filling(u) == job[u].pc \in {"fill", "push"}
Pushing(u) == job[u].pc = "push"

Walk(j) == [j EXCEPT !.pc = j.walk, !.i = 1]

SetupAlways(t) ==
    /\ up /\ job[t].pc = "setup"
    /\ Goes(t, [job[t] EXCEPT !.pc = "fill"])
    /\ raced' = (raced \/ \E u \in Thread \ {t} : Filling(u))
    /\ UNCHANGED <<class, fields, up>>

SetupFields(t) ==
    /\ up /\ job[t].pc = "setup"
    /\ Goes(t, IF fields # << >> THEN Walk(job[t]) ELSE [job[t] EXCEPT !.pc = "fill"])
    /\ raced' = (raced \/ \E u \in Thread \ {t} : Filling(u))
    /\ UNCHANGED <<class, fields, up>>

BeginPush(t) ==
    /\ up /\ job[t].pc = "fill" /\ job[t].i <= N
    /\ Goes(t, [job[t] EXCEPT !.pc = "push"])
    /\ UNCHANGED <<class, fields, raced, up>>

(* push_back: of two that overlap, one may be lost or write to memory that *)
(* the other freed.                                                        *)
EndPush(t) ==
    /\ up /\ Pushing(t)
    /\ \/ /\ fields' = Append(fields, job[t].i)
          /\ Goes(t, [job[t] EXCEPT !.pc = "fill", !.i = @ + 1])
          /\ UNCHANGED up
       \/ /\ \E u \in Thread \ {t} : Pushing(u)
          /\ \/ Goes(t, [job[t] EXCEPT !.pc = "fill", !.i = @ + 1]) /\ UNCHANGED up
             \/ Crash(t)
          /\ UNCHANGED fields
    /\ UNCHANGED <<class, raced>>

EndSetup(t) ==
    /\ up /\ job[t].pc = "fill" /\ job[t].i > N
    /\ Goes(t, Walk(job[t]))
    /\ UNCHANGED <<class, fields, raced, up>>

-----------------------------------------------------------------------------
(* The walk over m_fields, whose size is read in every round.              *)

At(t) == fields[job[t].i]

ToXml(f, list) == IF class.native THEN NativeToXml(f, list) ELSE ProtobufToXml(f, list)
ToObj(f, list, el) == IF class.native THEN NativeToObj(f, list, el) ELSE ProtobufToObj(f, list, el)

(* An m_fields that is being moved by a push_back may be gone. *)
Moved(t) ==
    /\ up /\ job[t].pc \in {"write", "read"} /\ job[t].i <= Len(fields)
    /\ \E u \in Thread \ {t} : Pushing(u)
    /\ Crash(t)
    /\ UNCHANGED <<class, fields, raced>>

(* GenerateResponse and GenerateRequest. *)
WriteField(t) ==
    /\ up /\ job[t].pc = "write" /\ job[t].i <= Len(fields)
    /\ LET r == ToXml(class.fields[At(t)], job[t].x[At(t)])
       IN  IF r.up
           THEN /\ Goes(t, [job[t] EXCEPT !.i = @ + 1, !.els = @ \o r.val])
                /\ UNCHANGED up
           ELSE Crash(t)
    /\ UNCHANGED <<class, fields, raced>>

EndWrite(t) ==
    /\ up /\ job[t].pc = "write" /\ job[t].i > Len(fields)
    /\ CASE job[t].op = "write" -> Goes(t, [job[t] EXCEPT !.pc = "done"]) /\ UNCHANGED up
         [] job[t].op = "echo" -> Arrives(t, Parse(job[t].els))
         [] job[t].op = "reply" -> OnProtobufResponse(t, Parse(job[t].els))
    /\ UNCHANGED <<class, fields, raced>>

(* FillObject and FillProtobuf: a field without an element stays. *)
Taken(f, list, els) == IF els = << >> THEN Up(list) ELSE ToObj(f, list, els[1])

ReadField(t) ==
    /\ up /\ job[t].pc = "read" /\ job[t].i <= Len(fields)
    /\ LET f == class.fields[At(t)]
           r == Taken(f, job[t].obj[At(t)], Named(job[t].els, f.name))
       IN  IF r.up
           THEN /\ Goes(t, [job[t] EXCEPT !.i = @ + 1, !.obj[At(t)] = r.val])
                /\ UNCHANGED up
           ELSE Crash(t)
    /\ UNCHANGED <<class, fields, raced>>

EndRead(t) ==
    /\ up /\ job[t].pc = "read" /\ job[t].i > Len(fields)
    /\ Goes(t, [job[t] EXCEPT !.pc = "done"])
    /\ UNCHANGED <<class, fields, raced, up>>

Next ==
    \E t \in Thread :
        \/ Read(t) \/ Write(t)
        \/ SetupFields(t) \/ BeginPush(t) \/ EndPush(t) \/ EndSetup(t)
        \/ Moved(t) \/ WriteField(t) \/ EndWrite(t) \/ ReadField(t) \/ EndRead(t)

Spec == Init /\ [][Next]_vars

-----------------------------------------------------------------------------
(* The properties.                                                         *)

(* An absent single field means its default; a message is there or not. *)
Meaning(f, list) == IF list = << >> /\ ~f.many /\ f.of # "message" THEN <<DefaultOf(f)>> ELSE list

Same(x, y) ==
    \A i \in 1..N : Meaning(class.fields[i], x[i]) = Meaning(class.fields[i], y[i])

(* The jobs of an operation that came to an end undisturbed. *)
Ended(op) ==
    {j \in {job[t] : t \in Thread} : j.op = op /\ j.pc \in {"done", "crashed"} /\ ~raced}

GotObject(j) == j.pc = "done" /\ Same(j.obj, j.x)

OneWord(item) == item # << >> /\ ToSet(item) \cap {Blank} = {}
AllSixDecimals(list) == \A k \in DOMAIN list : Len(list[k]) = 1

(* The lists of a field that a client's message brings to the object. *)
Understood(f, list) ==
    IF class.native
    THEN /\ f.of \notin {"class", "char"}
         /\ f.many => list = << >>
         /\ f.of = "string" => \A k \in DOMAIN list : OneWord(list[k])
    ELSE /\ f.of \notin {"enum", "message", "sint32"}
         /\ f.many \/ f.of = "bytes" => list = << >>
         /\ f.of = "string" => \A k \in DOMAIN list : Parsed(list[k]) # << >>

(* The lists that a client reads in an answer as they were. *)
Written(f, list) ==
    /\ f.of \notin {"class", "char", "enum", "message", "sint32"}
    /\ class.native => ~f.many
    /\ f.of = "double" => AllSixDecimals(list)
    /\ f.of = "bytes" /\ f.many => \A k \in DOMAIN list : list[k] = << >>

(* The lists that the helper reads back from what it wrote. *)
ReadsItself(f, list) ==
    /\ f.of \notin {"class", "char", "enum"}
    /\ f.of = "double" => AllSixDecimals(list)
    /\ IF class.native
       THEN f.of = "string" =>
                \A k \in DOMAIN list : OneWord(list[k]) \/ (f.many /\ list[k] = << >>)
       ELSE /\ f.many \/ f.of = "message" => list = << >>
            /\ f.of = "bytes" => f.many
            /\ f.of = "string" /\ ~f.many => list # << >> /\ Parsed(list[1]) # << >>

(* What a client of the WSDL sends is what the handler is given, and the   *)
(* program survives it, for these messages and for no other: not for       *)
(* vectors and repeated fields, bytes, enumerations, strings of several    *)
(* words in a native class or of none.                                     *)
ReadAsMeant ==
    \A j \in Ended("read") :
        GotObject(j) <=> \A i \in 1..N : Understood(class.fields[i], j.x[i])

(* What an answer says is what its client reads, if the WSDL has the types *)
(* of its fields, except for vectors, and digits after the sixth decimal.  *)
WrittenAsTyped ==
    \A j \in Ended("write") :
        (/\ j.pc = "done"
         /\ Same([i \in 1..N |-> Decode(ClassWsdl[i], j.els)], j.x))
        <=> \A i \in 1..N : Written(class.fields[i], j.x[i])

(* Two servers with this code understand each other's requests and native  *)
(* replies, for these objects and for no other.                            *)
ReadsBack ==
    \A j \in Ended("echo") :
        GotObject(j) <=> \A i \in 1..N : ReadsItself(class.fields[i], j.x[i])

(* Every walk over m_fields is over all of them, once and in order, unless *)
(* two threads met in the first use of a native helper.                    *)
WholeUnlessRaced ==
    /\ class.native \/ fields = AllFields
    /\ raced \/ \A t \in Thread : job[t].pc \in {"write", "read"} => fields = AllFields

(* The types, as far as a race leaves them. *)
TypeOK ==
    /\ class \in Classes /\ fields \in Seq(1..N) /\ raced \in BOOLEAN /\ up \in BOOLEAN
    /\ DOMAIN job = Thread
    /\ \A t \in Thread :
          /\ DOMAIN job[t] = DOMAIN NoJob /\ job[t].i \in Nat
          /\ job[t].pc \in {"idle", "setup", "fill", "push", "write", "read", "done", "crashed"}
          /\ job[t].op \in {"none", "read", "write", "echo", "reply"}
          /\ job[t].walk \in {"none", "write", "read"}

(* A thread walks to read or to write as its operation says, and begins    *)
(* SetupFields and the walk with the first field.                          *)
Walking ==
    \A t \in Thread :
        /\ job[t].pc = "idle" <=> job[t].op = "none"
        /\ job[t].pc = "setup" => job[t].i = 1
        /\ job[t].pc \in {"write", "read"} => job[t].pc = job[t].walk /\ job[t].i > 0
        /\ job[t].walk \in IF job[t].op \in {"none", "read", "write"} THEN {job[t].op}
                          ELSE IF job[t].pc = "done" THEN {"read"} ELSE {"write", "read"}

(* m_fields is filled by one thread at a time, from its first field on,    *)
(* and while nobody fills it there is all of it or nothing.                *)
FilledByOne ==
    /\ ~class.native => \A t \in Thread : job[t].pc # "setup" /\ ~Filling(t)
    /\ \A t \in Thread : Filling(t) => job[t].i \in 1..IF Pushing(t) THEN N ELSE N + 1
    /\ ~raced => /\ \A t \in Thread : Filling(t) =>
                        /\ fields = SubSeq(AllFields, 1, job[t].i - 1)
                        /\ \A u \in Thread \ {t} : ~Filling(u)
                 /\ (\A t \in Thread : ~Filling(t)) => fields \in {<< >>, AllFields}

(* What an operation makes of a field: its elements in the message, and    *)
(* what is read from them.                                                 *)
Message(j, k) ==
    IF j.op = "read" THEN Up(Encode(ClassWsdl[k], j.x[k])) ELSE ToXml(class.fields[k], j.x[k])
Result(j, k) == Taken(class.fields[k], CreateObject[k], Parse(Message(j, k).val))

WrittenTo(j, n) ==
    /\ j.els \in Seq(Elements)
    /\ \A k \in 1..N :
          IF k < n
          THEN Message(j, k).up /\ Named(j.els, class.fields[k].name) = Message(j, k).val
          ELSE Named(j.els, class.fields[k].name) = << >>

ReadTo(j, n) ==
    /\ DOMAIN j.obj = 1..N
    /\ \A k \in 1..N :
          /\ Message(j, k).up
          /\ Named(j.els, class.fields[k].name) = Parse(Message(j, k).val)
          /\ IF k < n THEN Result(j, k).up /\ j.obj[k] = Result(j, k).val
             ELSE j.obj[k] = CreateObject[k]

Failed(j) ==
    \E k \in 1..N : ~Message(j, k).up \/ (j.op # "write" /\ ~Result(j, k).up)

(* The first field that a job has not passed. *)
Place(j) ==
    CASE j.pc \in {"setup", "fill", "push"} -> 1
      [] j.pc = "done" -> N + 1
      [] OTHER -> j.i

Converts(j) ==
    /\ DOMAIN j.x = 1..N
    /\ \A k \in 1..N : j.x[k] \in IF j.op = "read" THEN Sent(class.fields[k])
                                ELSE Held(class.fields[k])
    /\ IF j.pc = "crashed" THEN j.op = "reply" \/ Failed(j)
       ELSE IF j.walk = "write" THEN WrittenTo(j, Place(j))
       ELSE j.op = "reply" \/ ReadTo(j, Place(j))

(* Whatever other threads do, fields are converted each by itself: what an *)
(* operation has written or read is what the conversions make of the       *)
(* fields it has passed, and nothing of the others, and it crashes only    *)
(* over a field whose conversion does.                                     *)
FieldByField == raced \/ \A t \in Thread : job[t].op # "none" => Converts(job[t])

HelperInv ==
    /\ TypeOK
    /\ Walking
    /\ FilledByOne
    /\ WholeUnlessRaced
    /\ FieldByField

(* A protobuf call that has succeeded has left in its response what the    *)
(* server answered.                                                        *)
ResponseContainsReply ==
    \A j \in Ended("reply") : j.pc = "done" => Same(j.obj, j.x)
=============================================================================
