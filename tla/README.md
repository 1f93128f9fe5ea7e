# A verification project for SoapServer

SoapServer is a C++ library that exposes native and protobuf services as SOAP over
`net.tcp` (the .NET message framing protocol) and calls services that its clients expose
back over the same connection. This directory holds TLA+ models of its behaviour, the TLC
configurations that check them on small instances, and TLAPS proofs of the facts that
matter for every number of connections, threads and calls.

Only the library's own code, `src/NativeSoapBinding`, is the subject. Poco, tinyxml2 and
protobuf are modelled from how the library uses them; of Poco the thread pool, the
dispatcher and the notification queue of its TCP server are modelled from their vendored
source, because `Stop`, the limits on threads and the life of connections are decided there.

Paths below are relative to `src/NativeSoapBinding` unless they start with `src/`.
`Internal` is `Src/SoapServerInternal.cpp`, `Protocol` is `Src/SoapProtocol.cpp`, `Frame` is
`Src/SoapTcpFrame.cpp`.

## The system

| Part | State | Operations | Talks to |
|---|---|---|---|
| `SoapServer`, `SoapServerInternal` (life cycle) | `m_running`, the SOAP and HTTP servers | `Start`, `Stop`, destructor | Poco's TCP servers and its one default thread pool |
| Connection registry (`Internal`) | `m_protocolBindings` (client name to connection) under `m_protocolLock` | `SetProtocolBinding`, `CallMethod`'s choice of a connection | connections enter and leave it, calls hold its lock while they send |
| `SoapTcpServer` (`Internal`), one per connection | name, `m_stop`, receive buffer, `m_writeLock` | `run`, `SetBindingName`, `Write`, `End`, destructor | the socket, `SoapTcpFrame` |
| `SoapTcpFrame` | mode, via, encoding | `OnRead`, `ProcessHeader`, `ProcessRequest`, `ProcessEnd` | `SoapProtocol::HandleRequest`, the socket |
| `SoapProtocol` | `m_callbacks` (message id to callback) | `HandleRequest`, `SendRequest`, `SendResponse`, `SendFault`, `SendXml` | services, calls, the socket |
| `ServiceBinding`, `FunctionBinding` | `m_soapMappings`, methods and their callbacks | `AddService`, `AddMethod`, `Invoke`, `GenerateWsdl*` | the program's handlers |
| `ClassBinding`, `FieldBinding` | `m_classBindings`, `m_fieldBindings` | `GetClassBinding`, `GetFieldBinding`, `RegisterClassBinding` | the helpers, the WSDL |
| Native and protobuf helpers | `m_fields`, made in the constructor or on first use | conversion of messages to XML and back | tinyxml2, reflection, `m_classBindings` |
| RpcChannel adapter (`Internal`) | none | turns a stub's call into `CallMethod` | calls |
| MEX handler | none | serves the WSDL file over HTTP, asserts on a SOAP request | the file system, the shared thread pool |
| `Util.h` | none | packed integers, text of values | framing, helpers |

Threads: the program's own (binding, `Start`, `Stop`, calls), one pool thread per connection
in `SoapTcpServer::run`, two accept threads, and whatever threads services answer from. What
makes the code hard follows from that:

- several threads write envelopes of two socket writes each to one socket;
- calls hold a pointer to a connection whose own thread may be destroying it;
- calls register callbacks while the connection's thread looks others up;
- connections are registered before they are acknowledged, and hang up while others send;
- the read side takes every socket read for whole records;
- pool threads, queue slots and the two servers' shared pool run out;
- servers are stopped and deleted while connections are being served;
- the types of messages may refer to each other, services may share prefixes and method names;
- the schema that the WSDL gives a message, what is written and what is read are three pieces of
  code, and threads share the helpers that write and read.

What makes each part correct:

- *write side*: the peer can always parse what it received, and no thread blocks for good;
- *registry*: no entry outlives its connection, no call uses a connection that is going away;
- *correlation*: a reply finds its call, and a call that was answered completes;
- *read side*: what is handled is exactly what was sent, for every segmentation;
- *life cycle*: no accepted connection is lost, doubled or left in the queue while a thread
  could serve it; stopping gives threads back; nothing is used after it is deleted;
- *class registry*: what is registered is complete, faithful to its declaration and stable;
- *contract*: the WSDL is consistent and the server does what it says;
- *messages*: an object arrives as it was meant, at a client of the WSDL and at a server with
  this code.

## Modules

| Module | Models |
|---|---|
| `FramedStream` | the abstract promise about a connection's output: headers, bodies, single bytes |
| `SoapWire` | the write side: `SendXml`, the control bytes, `m_writeLock`, failures, `End` |
| `ProtocolBindings` | the registry and the life of connections, calls from any thread |
| `SoapProtocol` | one connection at work: `run`, the handlers, calls, late answers, the peer; its write side is `SoapWire` |
| `RemoteCall` | the abstract promise about a call: registered, then asked and completed or failed, once |
| `PackedInt` | `EncodePackedInt` and `DecodePackedInt` digit by digit, with the width of `size_t` |
| `SoapTcpFrame` | the read side of one connection over bytes that arrive in arbitrary pieces; its sizes are `PackedInt`'s |
| `ServerLifecycle` | `Start`, `Stop`, destructor, accept threads, dispatchers, queues, pool threads |
| `ClassRegistry` | the two registries of types, with the recursion that fills them |
| `ServiceContract` | binding of services, WSDL, dispatch of requests, what is answered and sent |
| `MessageXml` | values and their text, XML elements, `FieldBinding` and its schema, a client generated from the WSDL |
| `NativeXml`, `ProtobufXml` | the field bindings of native and protobuf fields, and the field helpers' conversions |
| `ClassHelpers` | a class helper that threads share: reading, writing, replies, and the first use that fills it |
| `MC*` | small values for the constants of the module of that name |
| `SoapWireProofs`, `ProtocolBindingsProofs`, `SoapProtocolProofs`, `SoapTcpFrameProofs`, `ServerLifecycleProofs`, `ClassRegistryProofs`, `ServiceContractProofs`, `ClassHelpersProofs` | theorems and proofs about the module of that name; `SoapProtocolProofs` also shows that it implements `SoapWire` and `RemoteCall` |

Refinements and compositions tie them together: `SoapWire` implements `FramedStream`
(`ImplementsFramedStream`), `SoapProtocol` composes one connection's thread, calls and late
answers over `SoapWire` and implements it (`ImplementsWire`), and so a connection's output is
framed whatever its threads do (`ConnectionIsFramed`). `SoapProtocol` also
implements `RemoteCall` (`ImplementsRemoteCall`): a call's status is read off its callback and
its request, and no reply completes it twice or before it was asked. `ProtocolBindings` and
`ServerLifecycle` look at the same connections from further away: the first drops what is
said on them, the second all but whether they end.

### Correspondence to the code

**`SoapWire`.** `at[t]` is where thread `t` is in `SendXml` or in a one-byte write;
`StartXml` is the printing of the envelope, `Acquire` line 242 of `Protocol`, `WriteHeader` and
`WriteBody` lines 243-244, `Release` the guard's destructor, `WriteThrows` the exception of
`SoapTcpServer::Write` which unwinds through the guard. `Shutdown` is `End`, which does
*not* take the lock. `Lose` is the network.

**`ProtocolBindings`.** `bindings` is the map, where a null pointer (`None`) is an entry a
destructor cleared: entries are never erased. `Accept`, `SetBindingName`, `Finish`, `Unbind`,
`Free` are a connection's constructor, preamble, end of `run`, and the two parts of its
destructor. `CallMethod`, `LockBindings`, `Pick`, `Return` are a call; `PickUndefined` is the
use of `end()` or of a null entry, after which the process counts as lost (`up`).

**`SoapProtocol`.** `connPc` is the place of the connection's thread in `run` and the handlers
it calls; `buffer` what it has received and not handled; `call[k]` the place of call `k`.
`HandleReply` has two outcomes while another call is registering (`BeginRegister` to
`SendRequest`): `m_callbacks.find` races with the insertion, and either finds the entry or
misses it. A service may answer inside `Invoke`, later from a thread of its own
(`RespondLate`), or never, and may throw before or after answering. `UseDestroyed` is a late
answer through a destroyed `SoapProtocol`.

**`SoapTcpFrame`.** The stream is a sequence of cells, and a read may end between any two of them. A
cell is one byte, but for the cells of a URL or of an envelope's text, which stand for one or many: a
read that ends inside such a cell ends like one behind it. So reads end between the bytes of the
version, the mode, the via record's type and length, inside the URL, before or inside the encoding
record, between the bytes of a packed size, and inside a text. `OnRead` handles what the buffer holds,
with the handlers ignoring the size they are given, as the code does. A cut record makes them read
what is left in the buffer from earlier reads, or bytes nobody wrote, which are any value; `Values` is
what a cell can be read as, `Matches` and `Differs` the record checks over it. `Via` is the record
behind line 106: its size is believed, and the name it ends in is bound (`bound`) before the encoding
record is checked. That name is the one asked for, or another, when stale cells are part of the URL
(`NameOf`). A size that is taken from other bytes than a size's can be any (`Unsized`). `cut` remembers where reads
have ended inside a record, so that properties can say what still holds. `asserted` is a failed
assert of a record check; a build without assertions goes on. `Cells` is what a
sequence of records looks like on the wire: `Aligned` says that what is left to handle is exactly that.

**`PackedInt`.** A size is a sequence of digits of base `Base` (128 in the code) with a mark on
all but the last. `DecodePackedInt` wraps at `Word`, as the shift of a 32-bit `size_t` does, and
`HeaderRoom` is the space for a size in `SendXml`'s header buffer. `Place` is the weight of a digit,
a recursive function and not a power, so that it can be proved about. A text of the read side is shorter
than `Word`: a longer one has no `size_t` for its length.

**`ServerLifecycle`.** `main` is the program, `at[w]` a pool thread. Enqueuing a connection and
starting a thread for it are two steps under the dispatcher's lock, as in
`TCPServerDispatcher::enqueue`; `Dequeue`, `TimeOut`, `Serve`, `RunReturns`, `EndServe` and
`Check` are `TCPServerDispatcher::run`. `HandleRequest` is the end of an HTTP connection, by a file or
by the assert on a SOAP request; `Main` is what the sample's `main` does with a server. `m_running` starts with either value: the constructor
does not set it.

**`ClassRegistry`.** `stack` is the recursion of `GetClassBinding`: a frame binds its parent,
then its fields, then inserts the class. Protobuf fields are keyed by full name, native ones by
name alone. What a native field needs registered is what `GetFieldBinding` of `Include/SoapServer.h`
looks up: `FF_Class` is 3, so its test at line 162 holds for a vector as well, and the class that is
looked up is that of the vector type itself (`VisitorNeeds`), with the fields its visitor names, while the binding names
the class of the elements (`GetFieldFlags`), which nothing registers. `lost` is a stack overflow.

**`ServiceContract`.** `mappings` is `m_soapMappings`; `wsdl` the elements, messages and operations
that `GenerateWsdl` writes at `Start`. A client takes an operation and sends what the WSDL says
about it; the server dispatches by the first service whose URL begins the action, in the map's
order. An answer uses the method's binding at the time of the answer, which the program may
have replaced since the request was dispatched. A handler may answer as often as it likes:
`document` is the `respDoc` that all answers to a request share, and `SendResponse` puts an envelope
behind those of earlier answers and moves the body they share into it. Composed names are tuples: two different
compositions that happen to spell the same string are not considered.

**`MessageXml`, `NativeXml`, `ProtobufXml`, `ClassHelpers`.** A value is a sequence of tokens: the
characters of a string, among them the blank; a double's six decimals and the rest; the bytes of a
`bytes`. `Parsed` is tinyxml2's loss of texts of blanks only, after which `GetText` is null. The
flags of a field are sets of bits, so that `FF_Class` contains `FF_Enum` and `FF_Repeated` here
as there; type names are sequences of tokens, so that the blank behind `class` that
`GetFieldFlags` leaves is seen by the lookup. A conversion has a result or is `Down`: a failed
assert (asserts are compiled in) or a null text. `Named` is what `FirstChildElement` and its siblings
find, a recursive function so that it can be proved about. `ClassHelpers` has one helper and threads
that read and write through it; `job[t]` is a thread's place in an operation (`walk` is which of its
loops over the fields it is at or comes to, since an echo writes and then reads), `fields` is `m_fields`.
`SetupFields`, `BeginPush`, `EndPush` are the unlocked first use, with the outcomes of two
overlapping `push_back`; `WriteField` and `ReadField` are the rounds of `GenerateResponse` or
`GenerateRequest` and of `FillObject` or `FillProtobuf`. `Arrives` is the other end of an echo,
a server with the same code. The client generated from the WSDL (`Typed` to `Decode`) is external:
it uses a field only if the WSDL defines its type.

## Runs

All runs end by exhausting the state space, except the three that look for a violation.

| Run | Instance | States | Shows |
|---|---|---|---|
| `wire` | 3 threads, 3 envelopes, ack, end | 58,179 | `HalfEnvelopeOnlyWhenBroken`, `WireInv`, refinement of `FramedStream`, `EveryWriteEnds` |
| `bindings` | 2 connections, names 0..2, 2 calls | 26,030 | `CallUsesLiveConnection`, `AloneStaysRegistered`, `BindingsInv` (with `NoDanglingBinding` and `DefinedUntilAClose` in it), `FinishedIsFreed` |
| `protocol` | 2 calls (symmetric), 1 request | 272,001 | `ReplyFindsItsCall`, `SendingOnLiveConnection`, `OnlyCallsPrecedeAck`, `ShutAfterEndRecord`, `ProtocolInv`, refinement of `RemoteCall` |
| `protocol_fair` | 1 call, 1 request, fairness | 17,788 | `ImplementsWire`, `RepliesAreHandled`, `EndDestroys`, `CallsReturn` |
| `frame` | preamble of 12 cells, a one-cell and a four-cell envelope with a size of two digits, end record, buffer of 12 cells | 267,139 | `FrameInv`, `WholeReadsAreExact`, `CutBodyIsLast`, `OtherNameOnlyWhereCut`, `PackedSizes`, `RecordsAreHandled` |
| `lifecycle` | 2 SOAP and 1 HTTP connection, 2 pool threads, 2 Starts | 139,499 | `LifecycleInv`, `AcceptedOnce`, `QueuedIsServed`, `StopReleasesThreads` |
| `registry` | every shape of 3 protobuf messages, or of 2 native classes and a vector of either or of neither, 2 methods, 7 stack frames | 140,726 | `RegistryInv`, `LostOnlyByCycle`, `OnlyWhatMethodsNeed`, `NothingRebound` |
| `contract` | 3 services (one name begins another), 7 bindings in any order, up to 2 answers to a request | 229,703 | `ContractInv`, `AdvertisedIsInvoked`, `RepliesAsAdvertised`, `CallsAsAdvertised` |
| `messages` | 2 threads (symmetric), 28 classes of one field and 4 special ones, lists up to 2 | 713,700 | `HelperInv` (with `WholeUnlessRaced` in it), `ReadAsMeant`, `WrittenAsTyped`, `ReadsBack` |
| `protocol_lost_reply` | as `protocol` | violation | `AnsweredCallCompletes` fails |
| `lifecycle_closed` | one Start, fairness | violation | `ClosedPeerIsDropped` fails |
| `messages_reply` | as `messages` | violation | `ResponseContainsReply` fails |

The type invariants are parts of `WireInv`, `BindingsInv`, `ProtocolInv`, `FrameInv`, `LifecycleInv`,
`RegistryInv`, `ContractInv` and `HelperInv`; every property is stated, with the code it is about, where it is
defined.

`ReadAsMeant`, `WrittenAsTyped` and `ReadsBack` are equivalences: they say for which objects a
message arrives, and that it does for no other. The exceptions they name are what the code does:

- read from a client of the WSDL: a vector or repeated field arrives only when it is empty (the
  WSDL repeats the field's element, the native helper looks for `item` elements inside the
  first, the protobuf helper asserts), `bytes` and enumerations do not, a native string only if
  it is one word, a protobuf string unless it is blank (a null text ends the program); fields of a
  class or of `sint32` have no type a client could use;
- written for a client of the WSDL: vectors do not arrive, repeated `bytes` only if they are
  empty ones, doubles only up to six decimals, enumerations end the program;
- read by a server from what one wrote: native vectors arrive here, with strings of at most one
  word; repeated fields, messages, `bytes` and enumerations of protobuf do not, nor does an absent
  or blank string, and nested native classes end the program in the lookup of their class.

`src/README.md` lists repeated, enumerated and nested fields as still to be done; the runs say
how far the code is from it and what happens when they are used.

### Why the bounds are enough

- `wire`: a third thread waits while one writes and one fails; every pair of record kinds occurs
  around every interleaving of writes, failure and shutdown.
- `bindings`: two connections are a reconnect under an old name, a stranger, and one without a
  preamble; two calls are one from an application thread and one from a handler of the connection
  that is closing. The proofs remove the bound for the safety of the registry.
- `protocol`: the race on `m_callbacks` needs one call being answered and one being registered;
  the request adds the handler, the late answer and the nested call. Liveness is checked with
  one call, since a second only adds waits for the registry's lock, which `FinishedIsFreed` of
  `bindings` has with two.
- `frame`: two envelopes of different length, the second with a size of more digits than one, a URL of
  two cells, and a buffer that does not hold the whole stream, so that a read ends before every cell
  of every record, also inside the URL, inside a size and because the buffer is full. A cut preamble
  is read over a buffer nobody wrote and, when handled a second time, over its own old bytes. `PackedSizes` looks at every size up
  to the word's limit, in base 4 with five bits and a header's room of two digits: one digit, all of
  the room, one digit beyond it, and sizes that do not fill their last digit.
- `lifecycle`: one connection can be served, one queued and one at the other server, with the
  pool exhausted by either server and by threads left from the first `Start`. The numbers of
  the code (16 threads, 4 of them for HTTP, queue of one) are constants of the module.
- `registry`: cycles of length one to three, nesting of depth three, names shared by two
  native classes in any order, and a vector of a class that something else needs, that nothing else
  needs, or of plain values. The stack's limit is one more than the types.
- `contract`: the prefix, the shared method name, the replaced method, the one-way, outbound
  and callback-less methods all occur, each before or after the start and any subset of them. A handler
  answers up to twice (`MaxReplies`): a third answer differs from the second by one more element. The
  proofs have no such bound but the constant, which can be any number.

- `messages`: a class of one field for every type of field, single and repeated, since a helper
  treats its fields one by one, which `FieldByField` says and `HelperInvariant` proves for any number of
  them; a class of two for the walk over a partly filled `m_fields`, and classes of none; lists
  of none, one and two values with the empty, the plain and the awkward value of each type. A nested
  message has one int field. Two threads meet in the first use in every order; after such a
  meeting no new operation begins, since no property speaks of what follows.

`CHECK_DEADLOCK FALSE` is stated where the system may stop: the peers owe no message, the
program no call, and a lost process takes no step.

### Fairness

Only weak fairness is assumed, of threads that can run:

- the write side: a thread that may take the lock or write does so. A write ends because the peer
  drains the socket or the connection breaks;
- registry and protocol: a connection's thread and calls go on; handlers and callbacks return.
  Nobody has to call, answer late, connect or send. The locks are `std::mutex`, which promises no
  order, so strong fairness would not be justified; weak fairness is enough because each lock is taken
  finitely often in an instance;
- life cycle: the pool's threads, `StartThread` under the dispatcher's lock and a `Stop` that has
  begun go on. Peers need not end their connections and the program need not stop.

### Assumptions about the environment

- A client sends one preamble per connection, replies at most once to a call and only after it
  has the whole request, and sends its end record last.
- In `SoapProtocol` records arrive whole; `SoapTcpFrame` is about the other case.
- `m_callbacks.find` during an insertion finds the entry or does not; it may do worse.
- Using `end()`, a null entry or a destroyed object loses the process; nothing is claimed after.
- The program starts, stops, perhaps restarts, and deletes the server, in that order, as
  `src/NativeServer/Src/main.cpp` does; the HTTP handler answers and returns.
- Which of several idle pool threads gets a connection is left open.
- The stack has room for at least one frame per type.
- The members of one native class have distinct names, as the fields of a message do.
- A double's text is one word, and no text but the empty one is its own hexadecimal form.

## What the runs found

- **A reply can be lost** (`protocol_lost_reply`). `HandleRequest` searches `m_callbacks`
  (`Protocol`:42) while `SendRequest` of another call inserts into it (line 108), without a lock
  in common. When the search misses, the client gets a fault for its correct reply and the
  call's `done` is never run.
- **A closed connection is never dropped** (`lifecycle_closed`). `receiveBytes` returns 0 after a
  graceful close, `OnRead` does nothing with 0 bytes, `poll` reports the socket readable at once:
  the thread spins, and one of 16 is gone.
- **A protobuf reply is not read** (`messages_reply`). `OnProtobufResponse` hands `FillProtobuf` the
  first element inside the reply's element and not that element (`Internal`:581); the fields are
  sought one level too deep and the response stays empty. With a response of repeated fields
  that are empty there is no such element and a null pointer is used.

Seen while modelling, without a run of their own, and part of the models where they concern
them: a preamble that arrives in two TCP segments fails the record checks of `ProcessHeader`
(`asserted` in `SoapTcpFrame`), and where its URL was cut the client is bound to a name made of stale bytes (`bound`); a
vector registers itself as a class and never its elements' class; a handler that answers twice sends a second
message nobody can read; `Stop` does not wait for the threads that serve connections, and
`~SoapServer` deletes what their destructors then use (`lost` in `ServerLifecycle`); `m_running` is not initialised (`StartRefused`, `StopWithoutServers`); a call before the
first client or after a client left uses `end()` or a null entry (`PickUndefined`); a late answer
uses a destroyed protocol object (`UseDestroyed`); the two servers take their threads from one pool,
and when threads of the other one, returning ones included, have exhausted it, a connection is queued
without a thread (`src/third_party/poco-1.4.7p1/Net/src/TCPServerDispatcher.cpp`:164-181) and waits until the next
one is enqueued (`QueuedIsServed` speaks of servers that have a thread, and `LastThreadStays` says that
those keep one); the second native class with a field of some name gets the
first one's binding (the exception in `FieldsAsDeclared`); a recursive message type overflows
the stack (`LostOnlyByCycle` says that only such types do); a service whose name begins another's hides
it (the exception in `AdvertisedIsInvoked`); two services with a method of one name declare
one WSDL element twice (the exception in `ContractInv`).

## What is proved

TLAPS proves the following for any constants that satisfy the assumptions named in the modules:

- `SoapWire`: `NoneAssumption` (no thread or record is `None`; every module with a `None` has one like it);
- `ProtocolBindings`: `NameAssumption` (names are numbers, 0 is the empty one);
- `SoapProtocol`: `NamesAssumption` and `RecordsAssumption` (calls, requests, the connection's thread
  and the records are different things);
- `PackedInt`: `PackedAssumption` (a base of at least 2 that is a size itself, room for at least a byte);
- `SoapTcpFrame`: `CapAssumption` (the buffer holds something), `TextLenAssumption` and `UrlLenAssumption`
  (an envelope has a text and a preamble a URL, of a size that `size_t` holds);
- `ServerLifecycle`: `ParamsAssumption` (limits are at least one), `WorkerAssumption` (the pool is finite),
  `NamesAssumption` (a connection is at one of the servers);
- `ClassRegistry`: `TypesAssumption` (finitely many types), `SchemasAssumption` (the program's types are
  declared as C++ and protobuf allow), `LimitAssumption` (the stack has room for a frame per type);
- `ServiceContract`: `ProgramAssumption` (the program binds what the binders can make),
  `PrefixAssumption` (what the prefix order of strings is: irreflexive, transitive, and two prefixes of one
  string are comparable), `MaxRepliesAssumption` (the bound on answers is a number);
- `MessageXml`: `HexAssumption` (a byte's hexadecimal form is its own, and not a byte that is written
  raw: only the empty text is its own hexadecimal form), `EnumAssumption` (an enumeration has a value),
  `StringAssumption` (some literals are strings, which the provers cannot see);
- `ClassHelpers`: `ClassesAssumption` (fields have types the helpers know and names of their own),
  `ItemsAssumption` (the values are those of their types), `MaxListAssumption`.

- **Write side.** `WireInvariant`: `WireInv` is inductive. `Framed` alone is not: a step of a
  thread that is about to write a body keeps it only because the last record announces *that*
  body, and because no other thread can be writing. Those are `AnnouncedByHolder` and
  `HolderWrites`. From it, `StreamIsFramed`, `NoHalfEnvelope`, and `WireImplementsFramedStream`, the
  step simulation of the abstract stream.
- **Registry.** `BindingsInvariant`: `BindingsInv` is inductive. It adds to `NoDanglingBinding`
  that a call past the lock holds it (`LockHolder`) and that its target is in the registry
  (`TargetBound`), so a destructor, which needs the lock to clear its entry, cannot be
  past that. From it, `RegistryNeverDangles` and `CallsUseLiveConnections`. `CallsAreDefinedUntilAClose`
  takes two more parts: a null entry was left by a destroyed connection of its name
  (`NullsAreOfDestroyed`), and a client that introduced itself has an entry under its name
  (`RegisteredOrDisplaced`), so that the lookups that find nothing or a null need a destructor or an
  empty registry. The second part also gives `UnsharedNamesStay`.
- **One connection.** `ConnectionInvariant`: `ConnectionInv` is inductive. It contains the write side's
  invariant through the composition, relates the connection's place to what it handles
  (`CurMatches`, `ConnWrites`) and says that a callback is registered before its request is
  printed (`RegisteredBeforeSent`) and that the object stays while it is bound or a call sends
  (`LiveWhileBound`). The assumption of
  `SoapWire` is a lemma there (`WireNames`). From it, `RepliesFindTheirCalls`, `CallsSendOnLiveConnections`,
  `ConnectionImplementsWire` (each step of the composition is a step of `SoapWire` or a stutter) and, with
  the write side's theorem, `ConnectionIsFramed`.
- **Order on a connection.** `ProtocolInvariant`: `ProtocolInv`, which adds `OrderInv`, is inductive. Whether
  something other than a call precedes the acknowledgement depends on who may write, so `OrderInv` ties
  each writer to its record (`ConnRecord`, `CallRecord`) and each handler to an acknowledgement that is
  already out (`AckedFirst`), as are late answers; a handler that calls waits (`CallerWaits`), and a request
  that is out is that of a call that has returned (`SentByReturned`). From it, `OnlyCallsBeforeAck` and `HangsUpAfterEndRecord`.
  `CallsAsPromised` is the refinement of `RemoteCall`: one step of the connection moves at most one
  call, and `RepliesFollowRequests` gives that a call is not completed before it was asked.
- **Read side.** `FrameInvariant`: `FrameInv` is inductive, for every stream, every segmentation and
  every size of the buffer. While reads end between records or inside a body, the handlers are in step
  with the records (`Aligned`) or a body was cut and they are at its rest or have ended over it
  (`BodyCut`). A client that was acknowledged is bound to some name, whatever was cut. As long as no read
  ended inside the preamble, it is bound just when it was acknowledged, to the name it asked for, and
  acknowledged only once, even if later records were cut: either the whole preamble is ahead of the handlers
  (`PreambleAhead`), or it is behind them and no byte that is left can be taken for its start
  (`PreamblePassed`), for which `PreambleFirst` and `CutAtRead` are needed. Where the preamble was
  cut, nothing of this is claimed, since it is not so: the client may be bound and not
  acknowledged, or bound to another name. From it, `WholeReadsAreHandledExactly` and `CutBodiesEndIt`.
  `SizesAreReadAsWritten` is `PackedSizes` for every base, width and buffer; the recursive functions of
  `PackedInt` are unfolded, and the induction over sizes done, by two lemmas about sets of numbers
  (`NatSet`, `NatRecursion`), which come from the library's theorems about finite sets.
- **Life cycle.** `LifecycleInvariant`: `LifecycleInv` is inductive, for any connections, pool and limits.
  That a connection is in one place (`OnePlace`) needs that only its own port's server can have it
  (`GivenItsOwn`) and that stopped servers and those to come have nothing (`ServersInTurn`);
  `LastThreadStays` is the counting of threads in `Check` against the one that decides to leave.
  `EachAcceptedOnce` counts a connection's places.
- **Class registry.** `RegistryInvariant`: `RegistryInv` is inductive for any types: `FramesWait` says what each
  frame of the recursion has done, in the order of the stack, from which what is inserted at
  the end is complete (`NamesWhatItHas`) and as declared (`StoredAsDeclared`). What a field needs is registered,
  for a vector the vector itself; that its elements' class is there too is not claimed, and
  `RegistersOnlyWhatMethodsNeed` says that a vector never brings it. A class may be on
  the stack twice, but not when it is inserted (`OnceWhenThrough`): the lower frame would wait for a class that
  the upper one has found. From it, `FieldsAreDeclared` and `NothingIsRebound`.
  `OverflowsOnlyByCycle`: a stack longer than the number of types holds one twice, and each frame's
  type refers to the next one's.
- **Contract.** `ContractInvariant`: `ContractInv` is inductive, for any services, prefixes and program. The WSDL
  is related to the mappings as they were at `Start` (`BoundAndGenerated`), the request that is followed
  to the WSDL and to the binding it met (`RequestFollowed`), the server's own call to an outbound
  method (`CallFollowed`). From it, `AdvertisedIsDone` and `CallsAreAdvertised`. `RepliesAreAdvertised` is an
  invariant of its own: the first answer is the advertised message, and no other one is a message, because
  the document it is built on already has an envelope exactly when something was answered.

- **Messages.** `HelperInvariant`: `HelperInv` is inductive, for any classes of any number of fields, any
  values and any threads. `WholeUnlessRaced` alone is not: a thread finds either nothing or everything
  in `m_fields` only because one thread at a time fills it, and has filled it up to its own place
  (`FilledByOne`), and because a thread that met another one has set `raced`. `FieldByField` is the
  part about the data: what an operation has written or read is, field by field, what the conversions
  make of each alone (`Message`, `Result`), since the elements of a message are found by names that are
  all different, and an operation crashes only over a field whose own conversion does. From it,
  `WalksAreWhole`, and with a lemma per kind of field that says what its conversion makes of *every*
  value (`FieldRead`, `FieldWritten`, `FieldBack`, and under them those of `NativeXml` and `ProtobufXml`),
  `RequestsAreUnderstood`, `AnswersAreTyped` and `ServersUnderstandEachOther`: the three equivalences, in both
  directions. The inductions over the elements of a message are done on sets of numbers (`NatSet`).
  The proofs do not evaluate a `CASE` two of whose guards hold, as TLC does by taking the first:
  the operators of these modules have guards that exclude each other, or are conditions.

Each invariant was model-checked as an invariant of a run before it was proved. Each proof has one
lemma per group of actions and one step per action in it.

Only model-checked:

- all liveness (`EveryWriteEnds`, `CallsReturn`, `FinishedIsFreed`, `RepliesAreHandled`, `EndDestroys`,
  `RecordsAreHandled`, `QueuedIsServed`, `StopReleasesThreads`), which is beyond the prover;
- `OtherNameOnlyWhereCut`, which needs an account of what stale bytes a handler can meet after every
  kind of cut of the preamble.

Every other invariant and every action property that a passing run checks is stated by a theorem.
`FieldsAsDeclared` has a theorem and no run: `RegistryInv`, which the run checks, implies it.

## Where properties stop

Some hazards of the code are not prevented by it. Their steps are in the models, and the properties around
them say that nothing *else* goes wrong; they do not catch the hazard itself:

| Hazard | In the model | Excused by |
|---|---|---|
| lookups of `end()` or of a null entry (`Internal`:615) | `PickUndefined` | `DefinedUntilAClose` says when they cannot happen |
| a reconnect whose old destructor clears the new entry (`Internal`:689) | `Unbind` | `AloneStaysRegistered` asks that nobody else has the name |
| a deleted server under running connections (`Internal`:324), the assert of the MEX handler (`Internal`:211) | `lost` | `StopReleasesThreads`, `QueuedIsServed` |
| two threads in the first use of a native helper | `raced` | `HelperInv`, `ReadAsMeant`, `WrittenAsTyped`, `ReadsBack` |
| native field names shared between classes (`Internal`:557) | `Key` | `FieldsAsDeclared` |
| services whose names begin another's, methods of one name, methods that are bound again | `ServiceOf`, `Ambiguous`, `late` | `AdvertisedIsInvoked`, `ContractInv`, `CallsAsAdvertised`; `RepliesAsAdvertised` only drops the class of a method bound again |
| a preamble that is cut by a read (`Frame`:86-142) | `cut` | `FrameInv`; `OtherNameOnlyWhereCut` says which cuts bind another name |

The conversions' defects are different: `ReadAsMeant`, `WrittenAsTyped` and `ReadsBack` are equivalences, so they
fail as well if one of the defects they name is not there.

## What is not modelled

- **RpcChannel adapter** (`Internal`:618-650): its calls are `SoapProtocol`'s calls; that it tells
  the controller of an exception (`SetFailed`) and does not run `done` then is not a state of the model.
- **MEX handler**: its threads and its assert are in `ServerLifecycle`; sending a file is I/O.
- **Binding from several threads at once**, and first-use insertion into the registries after the
  start: two threads inside one `std::map` have no states to enumerate. `RegistryInv` says that
  what was bound before the start needs no insertion later.
- **Objects' memory**: offsets and sizes of fields, `ObjectWrapper`'s deleters; conversions of
  numbers that overflow.
- **Logging, XML layout and namespaces.**
- **Sample and client** (`src/NativeServer`, `src/CSharpClient`) apart from `main`'s use of a server: the
  sample's handlers have older signatures and do not compile against this library.
- **Unit tests**: they use an older interface of the conversions; the behaviour they test is
  `NativeXml`'s.
- **Generated and vendored code**, apart from Poco's dispatcher, queue and accept loop.

## Plan

Written in this order: the write side and its promise, the registry, the connection that composes
them, the read side with packed sizes, the life cycle, the class registry, the contract, the
abstract call, the messages; then the proofs, component by component. Nothing of it is left. What
could follow is a model of a nested message of several fields and levels, and of replies that come
more than once, for the entries of `m_callbacks` that are never erased.
