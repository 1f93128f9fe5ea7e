---------------------------- MODULE SoapProtocol ----------------------------
(***************************************************************************)
(* One connection at work: the thread in SoapTcpServer::run reads records  *)
(* and handles them (SoapTcpFrame, SoapProtocol::HandleRequest), while     *)
(* application threads send requests over it (SoapServerInternal's         *)
(* CallMethod, SoapProtocol::SendRequest) and services answer late from    *)
(* threads of their own.  All of them write through SoapWire.  The peer is *)
(* a client that speaks the framing protocol: one preamble, then requests, *)
(* at most one reply to each call whose request has arrived, an end record *)
(* last.  Records arrive whole here; SoapTcpFrame cuts them into bytes.    *)
(***************************************************************************)
EXTENDS Sequences, Naturals

CONSTANTS Call,      \* calls to the client; a call stands for its guid
          Request,   \* requests of the client
          Conn,      \* the connection's thread
          Ack, End,  \* the one-byte records 0x0B and 0x07
          None

ASSUME NamesAssumption ==
    /\ Call \cap Request = {}
    /\ Conn \notin Call \cup Request
    /\ None \notin Call \cup Request \cup {Conn}

VARIABLES
    \* the write side, see SoapWire
    out, writeLock, at, rec, socket, printed,
    \* the connection's thread
    connPc,        \* where it is in run and the handlers below it
    cur,           \* the request or call whose message it handles
    buffer,        \* the received records OnRead has not handled yet
    stop,          \* m_stop
    bound,         \* m_protocolBindings has this connection
    held,          \* the requests whose answer a service still owes
    \* the calls
    call,          \* where each call is
    thread,        \* the thread that makes it: its own, or Conn
    protocolLock,  \* m_protocolLock: the call that holds it, or None
    callbacks,     \* m_callbacks: the calls registered for a reply
    ran,           \* the calls whose callback was run
    \* the peer
    peer,          \* "new", "open", "ended"
    inq,           \* the records on their way to the server
    asked, replied,
    up             \* FALSE once a destroyed connection was used

wireVars == <<out, writeLock, at, rec, socket, printed>>
connVars == <<connPc, cur, buffer, stop, bound, held>>
callVars == <<call, thread, protocolLock, callbacks, ran>>
peerVars == <<peer, inq, asked, replied>>
vars == <<wireVars, connVars, callVars, peerVars, up>>

Req(k)   == [kind |-> "request", of |-> k]
Resp(r)  == [kind |-> "response", of |-> r]
Fault(x) == [kind |-> "fault", of |-> x]

Envelope == {Req(k) : k \in Call} \cup {Resp(r) : r \in Request}
              \cup {Fault(x) : x \in Call \cup Request}

ASSUME RecordsAssumption ==
    /\ None \notin Envelope \cup {Ack, End}
    /\ Ack \notin Envelope /\ End \notin Envelope

(* The threads that write: a call or a late answer names its own thread. *)
Thread == Call \cup Request \cup {Conn}

Wire == INSTANCE SoapWire WITH Msg <- Envelope, Control <- {Ack, End}

Sent(m) == \E i \in 1..Len(out) : out[i] = Wire!Frame!Body(m)

(* A call in progress on this connection. *)
Active == {"locking", "locked", "inserting", "sending"}
InSend == {"locked", "inserting", "sending"}

(* The connection's thread is not inside a call one of its handlers makes. *)
ConnFree == \A k \in Call : thread[k] = Conn => call[k] \notin Active

Init ==
    /\ Wire!Init
    /\ connPc = "poll" /\ cur = None /\ buffer = << >> /\ stop = FALSE
    /\ bound = FALSE /\ held = {}
    /\ call = [k \in Call |-> "none"]
    /\ thread = [k \in Call |-> k]
    /\ protocolLock = None /\ callbacks = {} /\ ran = {}
    /\ peer = "new" /\ inq = << >> /\ asked = {} /\ replied = {}
    /\ up = TRUE

-----------------------------------------------------------------------------
(* The connection's thread: the loop of run. *)

At(pc) == connPc = pc /\ ConnFree

(* receiveBytes returns some of what has arrived. *)
Receive ==
    /\ At("poll") /\ buffer = << >> /\ ~stop /\ socket = "open"
    /\ \E n \in 1..Len(inq) :
          /\ buffer' = SubSeq(inq, 1, n)
          /\ inq' = SubSeq(inq, n + 1, Len(inq))
    /\ UNCHANGED <<wireVars, connPc, cur, stop, bound, held, callVars,
                   peer, asked, replied, up>>

LeaveLoopUnlessStopped ==
    /\ At("poll") /\ buffer = << >>
    /\ socket = "lost"
    /\ connPc' = "stopped"
    /\ UNCHANGED <<wireVars, cur, buffer, stop, bound, held, callVars, peerVars, up>>

(* m_stop is set, or receiveBytes throws: run returns. *)
LeaveLoop ==
    /\ At("poll") /\ buffer = << >>
    /\ stop \/ socket = "lost"
    /\ connPc' = "stopped"
    /\ UNCHANGED <<wireVars, cur, buffer, stop, bound, held, callVars, peerVars, up>>

Pending(kind) == buffer # << >> /\ Head(buffer).kind = kind

(* OnRead goes on with the next record when the handler of this one is done. *)
Consume(pc, x) ==
    /\ At("poll")
    /\ buffer' = Tail(buffer)
    /\ connPc' = pc
    /\ cur' = x

ProcessHeaderUnacknowledged ==
    /\ Pending("preamble")
    /\ protocolLock = None
    /\ Consume("poll", None)
    /\ bound' = TRUE
    /\ UNCHANGED <<wireVars, stop, held, callVars, peerVars, up>>

(* ProcessHeader registers the connection before it acknowledges. *)
ProcessHeader ==
    /\ Pending("preamble")
    /\ protocolLock = None
    /\ Consume("acking", None)
    /\ bound' = TRUE
    /\ Wire!StartByte(Conn, Ack)
    /\ UNCHANGED <<stop, held, callVars, peerVars, up>>

ProcessEndUnanswered ==
    /\ Pending("end")
    /\ Consume("closing", None)
    /\ UNCHANGED <<wireVars, stop, bound, held, callVars, peerVars, up>>

(* ProcessEnd answers the end record before it calls End. *)
ProcessEnd ==
    /\ Pending("end")
    /\ Consume("ending", None)
    /\ Wire!StartByte(Conn, End)
    /\ UNCHANGED <<stop, bound, held, callVars, peerVars, up>>

(* End, once the end record is out. *)
EndConnection ==
    /\ At("closing")
    /\ connPc' = "poll"
    /\ stop' = TRUE
    /\ IF socket = "open" THEN Wire!Shutdown ELSE UNCHANGED wireVars
    /\ UNCHANGED <<cur, buffer, bound, held, callVars, peerVars, up>>

-----------------------------------------------------------------------------
(* HandleRequest: a request of the client. *)

(* A service claims the action and is invoked, or none understands it. *)
HandleRequest ==
    /\ Pending("request")
    /\ \E pc \in {"invoke", "thrown"} : Consume(pc, Head(buffer).of)
    /\ UNCHANGED <<wireVars, stop, bound, held, callVars, peerVars, up>>

RespondUnlocked ==
    /\ At("invoke")
    /\ connPc' = "responded"
    /\ out' = out \o <<Wire!Frame!Header(Resp(cur)), Wire!Frame!Body(Resp(cur))>>
    /\ UNCHANGED <<writeLock, at, rec, socket, printed>>
    /\ UNCHANGED <<cur, buffer, stop, bound, held, callVars, peerVars, up>>

(* The service answers before it returns. *)
Respond ==
    /\ At("invoke")
    /\ connPc' = "responding"
    /\ Wire!StartXml(Conn, Resp(cur))
    /\ UNCHANGED <<cur, buffer, stop, bound, held, callVars, peerVars, up>>

(* The service keeps the callback to answer later. *)
Defer ==
    /\ At("invoke")
    /\ connPc' = "responded"
    /\ held' = held \cup {cur}
    /\ UNCHANGED <<wireVars, cur, buffer, stop, bound, callVars, peerVars, up>>

(* Invoke returns; from "invoke" for a one-way operation. *)
InvokeReturns ==
    /\ At("invoke") \/ At("responded")
    /\ connPc' = "poll"
    /\ UNCHANGED <<wireVars, cur, buffer, stop, bound, held, callVars, peerVars, up>>

InvokeThrows ==
    /\ At("invoke") \/ At("responded")
    /\ connPc' = "thrown"
    /\ UNCHANGED <<wireVars, cur, buffer, stop, bound, held, callVars, peerVars, up>>

SendFault ==
    /\ At("thrown")
    /\ connPc' = "faulting"
    /\ Wire!StartXml(Conn, Fault(cur))
    /\ UNCHANGED <<cur, buffer, stop, bound, held, callVars, peerVars, up>>

-----------------------------------------------------------------------------
(* HandleRequest: a reply, a message with a RelatesTo. *)

(* m_callbacks.find reads the map without a lock: while another thread     *)
(* inserts into it, an entry that is there may not be found.               *)
Found(k) == k \in callbacks
Missed(k) == k \notin callbacks \/ \E j \in Call : call[j] = "inserting"

HandleReplyIgnores ==
    /\ Pending("reply")
    /\ Consume("poll", Head(buffer).of)
    /\ UNCHANGED <<wireVars, stop, bound, held, callVars, peerVars, up>>

HandleReplyFirst ==
    /\ Pending("reply")
    /\ \E k \in callbacks : Consume("callback", k) /\ ran' = ran \cup {k}
    /\ UNCHANGED <<wireVars, stop, bound, held, call, thread, protocolLock,
                   callbacks, peerVars, up>>

(* The callback found runs here; a reply to no known call is a fault. *)
HandleReply ==
    /\ Pending("reply")
    /\ LET k == Head(buffer).of
       IN  \/ Found(k) /\ Consume("callback", k) /\ ran' = ran \cup {k}
           \/ Missed(k) /\ Consume("thrown", k) /\ ran' = ran
    /\ UNCHANGED <<wireVars, stop, bound, held, call, thread, protocolLock,
                   callbacks, peerVars, up>>

CallbackReturns ==
    /\ At("callback")
    /\ connPc' = "poll"
    /\ UNCHANGED <<wireVars, cur, buffer, stop, bound, held, callVars, peerVars, up>>

(* Nothing catches an exception of the callback before run is left. *)
CallbackThrows ==
    /\ At("callback")
    /\ connPc' = "stopped"
    /\ UNCHANGED <<wireVars, cur, buffer, stop, bound, held, callVars, peerVars, up>>

-----------------------------------------------------------------------------
(* ~SoapTcpServer, then the members. *)

UnbindUnlocked ==
    /\ connPc = "stopped"
    /\ connPc' = "unbound"
    /\ bound' = FALSE
    /\ UNCHANGED <<wireVars, cur, buffer, stop, held, callVars, peerVars, up>>

UnbindKeepsLock ==
    /\ connPc = "stopped"
    /\ protocolLock = None /\ protocolLock' = Conn
    /\ connPc' = "unbound"
    /\ bound' = FALSE
    /\ UNCHANGED <<wireVars, cur, buffer, stop, held, call, thread, callbacks, ran,
                   peerVars, up>>

Unbind ==
    /\ connPc = "stopped"
    /\ protocolLock = None
    /\ connPc' = "unbound"
    /\ bound' = FALSE
    /\ UNCHANGED <<wireVars, cur, buffer, stop, held, callVars, peerVars, up>>

Free ==
    /\ connPc = "unbound"
    /\ connPc' = "gone"
    /\ UNCHANGED <<wireVars, cur, buffer, stop, bound, held, callVars, peerVars, up>>

-----------------------------------------------------------------------------
(* Calls *)

(* On an application thread, or in a handler on the connection's thread. *)
CallMethod(k) ==
    /\ call[k] = "none"
    /\ call' = [call EXCEPT ![k] = "locking"]
    /\ \/ thread' = thread
       \/ /\ ConnFree /\ connPc \in {"invoke", "responded", "callback"}
          /\ thread' = [thread EXCEPT ![k] = Conn]
    /\ UNCHANGED <<wireVars, connVars, protocolLock, callbacks, ran, peerVars, up>>

LockBindingsUnguarded(k) ==
    /\ call[k] = "locking"
    /\ IF bound
       THEN call' = [call EXCEPT ![k] = "locked"] /\ protocolLock' = k
       ELSE call' = [call EXCEPT ![k] = "elsewhere"] /\ protocolLock' = None
    /\ UNCHANGED <<wireVars, connVars, thread, callbacks, ran, peerVars, up>>

(* The lock is taken and this connection picked, if it is registered; a    *)
(* call that does not find it here leaves the model (ProtocolBindings).    *)
LockBindings(k) ==
    /\ call[k] = "locking"
    /\ protocolLock = None
    /\ IF bound
       THEN call' = [call EXCEPT ![k] = "locked"] /\ protocolLock' = k
       ELSE call' = [call EXCEPT ![k] = "elsewhere"] /\ protocolLock' = None
    /\ UNCHANGED <<wireVars, connVars, thread, callbacks, ran, peerVars, up>>

(* m_callbacks[guid] = callback begins to change the map ... *)
BeginRegister(k) ==
    /\ call[k] = "locked"
    /\ call' = [call EXCEPT ![k] = "inserting"]
    /\ UNCHANGED <<wireVars, connVars, thread, protocolLock, callbacks, ran, peerVars, up>>

SendUnregistered(k) ==
    /\ call[k] = "inserting"
    /\ call' = [call EXCEPT ![k] = "sending"]
    /\ Wire!StartXml(thread[k], Req(k))
    /\ UNCHANGED <<connVars, thread, protocolLock, callbacks, ran, peerVars, up>>

(* ... and is done, before the request is sent. *)
SendRequest(k) ==
    /\ call[k] = "inserting"
    /\ callbacks' = callbacks \cup {k}
    /\ call' = [call EXCEPT ![k] = "sending"]
    /\ Wire!StartXml(thread[k], Req(k))
    /\ UNCHANGED <<connVars, thread, protocolLock, ran, peerVars, up>>

-----------------------------------------------------------------------------
(* Writes in progress, on whatever thread. *)

(* The call whose request thread t is writing, if it writes one. *)
CallOn(t) == {k \in Call : call[k] = "sending" /\ thread[k] = t}

(* The call returns or throws; the guard of m_protocolLock unlocks. *)
CallEnds(t, pc) ==
    /\ CallOn(t) # {}
    /\ call' = [k \in Call |-> IF k \in CallOn(t) THEN pc ELSE call[k]]
    /\ protocolLock' = None
    /\ UNCHANGED <<connPc, thread, callbacks, ran>>

(* Where the connection's thread goes when its own write ends or throws:   *)
(* out of a response into the catch of HandleRequest, out of any other     *)
(* write into the catch of run.                                            *)
AfterWrite == [acking |-> "poll", ending |-> "closing",
               responding |-> "responded", faulting |-> "poll"]
AfterThrow == [acking |-> "stopped", ending |-> "stopped",
               responding |-> "thrown", faulting |-> "stopped"]

ConnGoes(t, next) ==
    /\ t = Conn /\ CallOn(t) = {}
    /\ connPc' = next[connPc]
    /\ UNCHANGED callVars

(* A service's own thread: the exception, if any, is the service's. *)
LateEnds(t) == t \in Request /\ UNCHANGED <<connPc, callVars>>

Alive == connPc # "gone"

WriteGoesOn(t) ==
    /\ Alive
    /\ Wire!Acquire(t) \/ Wire!WriteHeader(t)
    /\ UNCHANGED <<connVars, callVars, peerVars, up>>

WriteEnds(t) ==
    /\ Alive
    /\ Wire!WriteBody(t) \/ Wire!WriteByte(t)
    /\ CallEnds(t, "sent") \/ ConnGoes(t, AfterWrite) \/ LateEnds(t)
    /\ UNCHANGED <<cur, buffer, stop, bound, held, peerVars, up>>

WriteFails(t) ==
    /\ Alive
    /\ Wire!WriteThrows(t)
    /\ CallEnds(t, "threw") \/ ConnGoes(t, AfterThrow) \/ LateEnds(t)
    /\ UNCHANGED <<cur, buffer, stop, bound, held, peerVars, up>>

WriteStep(t) == up /\ (WriteGoesOn(t) \/ WriteEnds(t) \/ WriteFails(t))

(* A service answers later: SendResponse on a thread of its own ... *)
RespondLate(r) ==
    /\ Alive
    /\ r \in held
    /\ held' = held \ {r}
    /\ Wire!StartXml(r, Resp(r))
    /\ UNCHANGED <<connPc, cur, buffer, stop, bound, callVars, peerVars, up>>

(* ... through a pointer that nothing keeps valid. *)
UseDestroyed(r) ==
    /\ ~Alive
    /\ r \in held \/ at[r] # "idle"
    /\ up' = FALSE
    /\ UNCHANGED <<wireVars, connVars, callVars, peerVars>>

-----------------------------------------------------------------------------
(* The peer and the network. *)

PeerSends(record) ==
    /\ inq' = Append(inq, record)
    /\ UNCHANGED <<wireVars, connVars, callVars, up>>

PeerPreamble ==
    /\ peer = "new"
    /\ peer' = "open"
    /\ PeerSends([kind |-> "preamble"])
    /\ UNCHANGED <<asked, replied>>

PeerRequest(r) ==
    /\ peer = "open" /\ r \notin asked
    /\ asked' = asked \cup {r}
    /\ PeerSends([kind |-> "request", of |-> r])
    /\ UNCHANGED <<peer, replied>>

PeerReply(k) ==
    /\ peer = "open" /\ k \notin replied /\ Sent(Req(k))
    /\ replied' = replied \cup {k}
    /\ PeerSends([kind |-> "reply", of |-> k])
    /\ UNCHANGED <<peer, asked>>

PeerEnd ==
    /\ peer = "open"
    /\ peer' = "ended"
    /\ PeerSends([kind |-> "end"])
    /\ UNCHANGED <<asked, replied>>

Break == Wire!Lose /\ UNCHANGED <<connVars, callVars, peerVars, up>>

-----------------------------------------------------------------------------

(* What the connection's thread does by itself: handlers and callbacks     *)
(* return, answering, deferring or throwing.                               *)
ConnStep ==
    /\ up
    /\ \/ Receive \/ LeaveLoop \/ ProcessHeader \/ ProcessEnd \/ EndConnection
       \/ HandleRequest \/ Respond \/ Defer \/ InvokeReturns \/ InvokeThrows
       \/ SendFault \/ HandleReply \/ CallbackReturns \/ CallbackThrows
       \/ Unbind \/ Free

CallStep(k) == up /\ (LockBindings(k) \/ BeginRegister(k) \/ SendRequest(k))

PeerStep ==
    /\ up
    /\ \/ PeerPreamble \/ PeerEnd \/ Break
       \/ \E r \in Request : PeerRequest(r)
       \/ \E k \in Call : PeerReply(k)

Next ==
    \/ ConnStep
    \/ \E k \in Call : up /\ CallMethod(k)
    \/ \E k \in Call : CallStep(k)
    \/ \E t \in Thread : WriteStep(t)
    \/ \E r \in Request : up /\ (RespondLate(r) \/ UseDestroyed(r))
    \/ PeerStep

Spec == Init /\ [][Next]_vars

(* Threads run and handlers return.  Nobody must call, answer late, or     *)
(* send anything; each lock is taken finitely often, so weak fairness does.*)
Fairness ==
    /\ WF_vars(ConnStep)
    /\ \A k \in Call : WF_vars(CallStep(k))
    /\ \A t \in Thread : WF_vars(WriteStep(t))

FairSpec == Spec /\ Fairness

-----------------------------------------------------------------------------

ConnPlace == {"poll", "acking", "ending", "closing", "invoke", "responding",
              "responded", "thrown", "faulting", "callback", "stopped",
              "unbound", "gone"}

Incoming == [kind : {"preamble", "end"}] \cup [kind : {"request"}, of : Request]
              \cup [kind : {"reply"}, of : Call]

TypeOK ==
    /\ Wire!TypeOK
    /\ connPc \in ConnPlace
    /\ cur \in Call \cup Request \cup {None}
    /\ buffer \in Seq(Incoming) /\ inq \in Seq(Incoming)
    /\ stop \in BOOLEAN /\ bound \in BOOLEAN /\ up \in BOOLEAN
    /\ held \subseteq Request /\ asked \subseteq Request
    /\ call \in [Call -> Active \cup {"none", "sent", "threw", "elsewhere"}]
    /\ thread \in [Call -> Call \cup {Conn}]
    /\ protocolLock \in Call \cup {None}
    /\ callbacks \subseteq Call /\ ran \subseteq Call /\ replied \subseteq Call
    /\ peer \in {"new", "open", "ended"}

(* A reply is never faster than its call: the callback is in m_callbacks   *)
(* before the peer can have the request, so every reply on its way or      *)
(* received relates to a registered call.                                  *)
ReplyFindsItsCall ==
    \A q \in {inq, buffer} : \A i \in 1..Len(q) :
        q[i].kind = "reply" => q[i].of \in callbacks

(* While a call sends, the connection stays: its destructor cannot get     *)
(* past m_protocolLock.                                                    *)
SendingOnLiveConnection ==
    \A k \in Call : call[k] \in InSend => connPc \notin {"unbound", "gone"}

Acked == \E i \in 1..Len(out) : out[i] = Wire!Frame!Byte(Ack)

(* Only calls are faster than the preamble's acknowledgement: no response  *)
(* and no fault goes out before it.                                        *)
OnlyCallsPrecedeAck ==
    ~Acked => \A i \in 1..Len(out) : out[i].of \in {Req(k) : k \in Call}

(* The server does not hang up on a peer that asked to end before it has   *)
(* sent its own end record, whoever holds the write lock at that moment.   *)
EndSent == \E i \in 1..Len(out) : out[i] = Wire!Frame!Byte(End)

ShutAfterEndRecord == socket = "shut" => EndSent

(* Every step of the connection is a step of its write side, or none. *)
ImplementsWire == Wire!Spec

(* How far a call is for the program that made it.  One that is not picked *)
(* up by this connection stays pending here (ProtocolBindings has it).     *)
Status(k) ==
    CASE k \in ran -> "completed"
      [] k \notin ran /\ call[k] = "threw" -> "failed"
      [] k \notin ran /\ call[k] # "threw" /\ Sent(Req(k)) -> "asked"
      [] call[k] = "none" -> "idle"
      [] OTHER -> "pending"

Remote == INSTANCE RemoteCall WITH status <- [k \in Call |-> Status(k)]

(* Calls keep the promise of RemoteCall: with calls of other threads and   *)
(* faults, failures and the end of the connection in between, a callback   *)
(* runs only for the call whose request the peer has wholly received, and  *)
(* never for one that threw.                                               *)
ImplementsRemoteCall == Remote!Spec

(* A call that was made returns or throws: two locks and a failing socket  *)
(* never block it for good, on the connection's own thread either.         *)
CallsReturn ==
    \A k \in Call :
        call[k] = "locking" ~> (call[k] \in {"sent", "threw", "elsewhere"} \/ ~up)

(* A reply the server has received runs the callback, is answered with a   *)
(* fault, or dies with the connection; it is not left lying in the buffer. *)
RepliesAreHandled ==
    \A k \in Call :
        (\E i \in 1..Len(buffer) : buffer[i] = [kind |-> "reply", of |-> k]) ~>
            \/ k \in ran
            \/ Fault(k) \in printed
            \/ connPc \in {"stopped", "unbound", "gone"}
            \/ ~up

(* The peer's end record ends the connection object. *)
EndDestroys == (stop /\ up) ~> (connPc = "gone" \/ ~up)

(* protobuf's RpcChannel: "done" will be called when the method is         *)
(* complete, so no reply to a call of ours is taken for an unknown one.    *)
AnsweredCallCompletes == \A k \in Call : Fault(k) \notin printed

-----------------------------------------------------------------------------
(* The inductive invariant behind ReplyFindsItsCall and                    *)
(* SendingOnLiveConnection.                                                *)

(* What the connection's thread handles. *)
CurMatches ==
    /\ connPc \in {"invoke", "responding", "responded"} => cur \in Request
    /\ connPc = "thrown" => cur \in Call \cup Request

(* The connection's thread writes for itself or inside a nested call. *)
ConnWrites ==
    at[Conn] # "idle" => connPc \in DOMAIN AfterWrite \/ CallOn(Conn) # {}

LockHolder == \A k \in Call : call[k] \in InSend => protocolLock = k

(* The registration, and a call that found it, keep the object alive. *)
LiveWhileBound ==
    bound \/ (\E k \in Call : call[k] \in InSend) => connPc \notin {"unbound", "gone"}

(* A call is registered before its request is printed, let alone sent. *)
RegisteredBeforeSent ==
    \A k \in Call :
        /\ \A t \in Thread : rec[t] = Req(k) => k \in callbacks
        /\ \A i \in 1..Len(out) : out[i].of = Req(k) => k \in callbacks

ConnectionInv ==
    /\ Wire!WireInv
    /\ TypeOK
    /\ CurMatches
    /\ ConnWrites
    /\ LockHolder
    /\ LiveWhileBound
    /\ RegisteredBeforeSent
    /\ ReplyFindsItsCall

-----------------------------------------------------------------------------
(* What it takes beside, for the order of what the peer receives:          *)
(* OnlyCallsPrecedeAck, ShutAfterEndRecord and ImplementsRemoteCall.       *)

(* A call is made on a thread of its own or by a handler or callback of    *)
(* the connection, which waits for it.                                     *)
CallerWaits ==
    \A k \in Call :
        /\ call[k] = "none" => thread[k] = k
        /\ thread[k] = Conn /\ call[k] \in Active =>
              connPc \in {"invoke", "responded", "callback"}

(* While it acknowledges or ends, the connection's thread writes just      *)
(* that, and it gets to End only with the end record out.                  *)
ConnRecord ==
    /\ connPc = "acking" => at[Conn] \in {"lockByte", "byte"} /\ rec[Conn] = Ack
    /\ connPc = "ending" => at[Conn] \in {"lockByte", "byte"} /\ rec[Conn] = End
    /\ connPc = "closing" => EndSent

(* A request is written by the call it belongs to, and a call's own thread *)
(* writes nothing but requests.                                            *)
CallRecord ==
    /\ \A k \in Call :
          /\ call[k] = "sending" =>
                at[thread[k]] \in {"lockXml", "header", "body"} /\ rec[thread[k]] = Req(k)
          /\ \A t \in Thread : rec[t] = Req(k) => call[k] = "sending" /\ thread[k] = t
    /\ \A t \in Call : rec[t] \in {None} \cup {Req(k) : k \in Call}

(* The peer's preamble comes before anything else of it is handled, and    *)
(* nothing is handled until it is acknowledged.                            *)
PreambleIsNext ==
    \/ /\ buffer # << >>
       /\ Head(buffer).kind = "preamble"
    \/ /\ buffer = << >> /\ inq # << >>
       /\ Head(inq).kind = "preamble"
    \/ /\ buffer = << >> /\ inq = << >>
       /\ peer = "new"

AckedFirst ==
    Acked \/ /\ connPc \in {"poll", "acking", "stopped", "unbound", "gone"}
             /\ connPc = "poll" => PreambleIsNext
             /\ held = {}
             /\ \A r \in Request : at[r] = "idle"

(* A request that is out is that of a call that has returned; a reply that *)
(* has come, or is on its way, follows its request.                        *)
SentByReturned == \A k \in Call : Sent(Req(k)) => call[k] = "sent"

RepliesFollowRequests ==
    /\ \A k \in ran : Sent(Req(k))
    /\ \A q \in {inq, buffer} : \A i \in 1..Len(q) :
          q[i].kind = "reply" => Sent(Req(q[i].of))

OrderInv ==
    /\ CallerWaits
    /\ ConnRecord
    /\ CallRecord
    /\ AckedFirst
    /\ SentByReturned
    /\ RepliesFollowRequests
    /\ OnlyCallsPrecedeAck
    /\ ShutAfterEndRecord

ProtocolInv == ConnectionInv /\ OrderInv
=============================================================================
