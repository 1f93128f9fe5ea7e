------------------------- MODULE SoapProtocolProofs -------------------------
(***************************************************************************)
(* For any calls and requests: one connection uses its write side as       *)
(* SoapWire specifies, so that what the peer receives is framed; a reply   *)
(* finds its call; and a call sends on a connection that is there.  Then,  *)
(* with that: its records come in the order the protocol wants, and its    *)
(* calls are what RemoteCall promises.                                     *)
(***************************************************************************)
EXTENDS SoapProtocol, SequenceTheorems, TLAPS

(* The theorems about the write side, for this connection's threads. *)
WP == INSTANCE SoapWireProofs WITH Msg <- Envelope, Control <- {Ack, End}

(* What SoapWire assumes of its constants holds here. *)
LEMMA WireNames == None \notin Thread \cup Envelope \cup {Ack, End}
  BY NamesAssumption, RecordsAssumption DEF Thread

(* The instance used by the model and the one used by the proofs agree on  *)
(* the invariant ...                                                       *)
LEMMA SameWireInv == Wire!WireInv <=> WP!WireInv
<1>1. Wire!Frame!Framed <=> WP!Frame!Framed
  BY DEF Wire!Frame!Framed, WP!Frame!Framed, Wire!Frame!Header, WP!Frame!Header,
         Wire!Frame!Body, WP!Frame!Body
<1>2. Wire!Frame!Record = WP!Frame!Record
  BY DEF Wire!Frame!Record, WP!Frame!Record
<1>3. Wire!Frame!Announced = WP!Frame!Announced
  BY DEF Wire!Frame!Announced, WP!Frame!Announced
<1>4. Wire!TypeOK <=> WP!TypeOK
  BY <1>2 DEF Wire!TypeOK, WP!TypeOK, Wire!Place, WP!Place
<1>5. Wire!AnnouncedByHolder <=> WP!AnnouncedByHolder
  BY <1>3 DEF Wire!AnnouncedByHolder, WP!AnnouncedByHolder,
              Wire!Frame!Header, WP!Frame!Header
<1>6. QED
  BY <1>1, <1>4, <1>5
  DEF Wire!WireInv, WP!WireInv, Wire!KindMatches, WP!KindMatches,
      Wire!HolderWrites, WP!HolderWrites, Wire!Writing, WP!Writing,
      Wire!Framed, WP!Framed

(* ... and on the steps. *)
LEMMA SameWireNext == Wire!Next <=> WP!Next
  BY DEF Wire!Next, WP!Next, Wire!StartXml, WP!StartXml, Wire!StartByte,
         WP!StartByte, Wire!Acquire, WP!Acquire, Wire!Write, WP!Write,
         Wire!WriteHeader, WP!WriteHeader, Wire!WriteBody, WP!WriteBody,
         Wire!WriteByte, WP!WriteByte, Wire!WriteThrows, WP!WriteThrows,
         Wire!Shutdown, WP!Shutdown, Wire!Lose, WP!Lose, Wire!Release, WP!Release,
         Wire!Frame!Header, WP!Frame!Header, Wire!Frame!Body, WP!Frame!Body,
         Wire!Frame!Byte, WP!Frame!Byte

(* A step of the write side keeps the write side's invariant. *)
LEMMA WireStep == Wire!WireInv /\ (Wire!Next \/ UNCHANGED wireVars) => Wire!WireInv'
<1>1. WP!WireInv /\ [WP!Next]_(WP!vars) => WP!WireInv'
  BY WireNames, WP!StepPreserves DEF WP!NoneAssumption
<1>2. UNCHANGED wireVars => UNCHANGED WP!vars
  BY DEF wireVars, WP!vars
<1>3. QED
  BY <1>1, <1>2, SameWireInv, SameWireNext, PTL

-----------------------------------------------------------------------------
(* Every step of the connection is a step of its write side, or none. *)

(* The threads and the envelopes are those SoapWire is told about. *)
LEMMA Known ==
    /\ Conn \in Thread
    /\ \A k \in Call : k \in Thread /\ Req(k) \in Envelope
    /\ \A r \in Request : r \in Thread /\ Resp(r) \in Envelope
    /\ \A x \in Call \cup Request : Fault(x) \in Envelope
  BY DEF Thread, Envelope

LEMMA ConnIsWireStep ==
    ASSUME ConnectionInv, ConnStep
    PROVE  Wire!Next \/ UNCHANGED wireVars
<1>1. CASE Receive \/ LeaveLoop \/ HandleRequest \/ Defer \/ InvokeReturns
           \/ InvokeThrows \/ HandleReply \/ CallbackReturns \/ CallbackThrows
           \/ Unbind \/ Free
  BY <1>1 DEF Receive, LeaveLoop, HandleRequest, Defer, InvokeReturns, InvokeThrows,
              HandleReply, CallbackReturns, CallbackThrows, Unbind, Free
<1>2. CASE ProcessHeader \/ ProcessEnd
  <2>1. Wire!StartByte(Conn, Ack) \/ Wire!StartByte(Conn, End)
    BY <1>2 DEF ProcessHeader, ProcessEnd
  <2>2. QED
    BY <2>1, Known DEF Wire!Next
<1>3. CASE EndConnection
  BY <1>3 DEF EndConnection, Wire!Next
<1>4. CASE Respond \/ SendFault
  <2>1. \E m \in Envelope : Wire!StartXml(Conn, m)
    BY <1>4, Known DEF ConnectionInv, CurMatches, Respond, SendFault, At
  <2>2. QED
    BY <2>1, Known DEF Wire!Next
<1>5. QED
  BY <1>1, <1>2, <1>3, <1>4 DEF ConnStep

LEMMA IsWireStep ==
    ASSUME ConnectionInv, [Next]_vars
    PROVE  Wire!Next \/ UNCHANGED wireVars
<1>1. CASE ConnStep
  BY <1>1, ConnIsWireStep
<1>2. ASSUME NEW k \in Call, (up /\ CallMethod(k)) \/ CallStep(k)
      PROVE  Wire!Next \/ UNCHANGED wireVars
  <2>1. CASE CallMethod(k) \/ LockBindings(k) \/ BeginRegister(k)
    BY <2>1 DEF CallMethod, LockBindings, BeginRegister
  <2>2. CASE SendRequest(k)
    <3>1. thread[k] \in Thread /\ Req(k) \in Envelope
      BY Known DEF ConnectionInv, TypeOK
    <3>2. QED
      BY <2>2, <3>1 DEF SendRequest, Wire!Next
  <2>3. QED
    BY <1>2, <2>1, <2>2 DEF CallStep
<1>3. ASSUME NEW t \in Thread, WriteStep(t)
      PROVE  Wire!Next
  BY <1>3 DEF WriteStep, WriteGoesOn, WriteEnds, WriteFails, Wire!Next, Wire!Write
<1>4. ASSUME NEW r \in Request, RespondLate(r) \/ UseDestroyed(r)
      PROVE  Wire!Next \/ UNCHANGED wireVars
  BY <1>4, Known DEF RespondLate, UseDestroyed, Wire!Next
<1>5. CASE PeerStep
  BY <1>5 DEF PeerStep, PeerPreamble, PeerEnd, PeerRequest, PeerReply, PeerSends,
              Break, Wire!Next
<1>6. CASE UNCHANGED vars
  BY <1>6 DEF vars
<1>7. QED
  BY <1>1, <1>2, <1>3, <1>4, <1>5, <1>6 DEF Next

-----------------------------------------------------------------------------
(* The invariant, one group of steps at a time. *)

LEMMA InitEstablishes == Init => ConnectionInv
<1> SUFFICES ASSUME Init PROVE ConnectionInv
  OBVIOUS
<1>1. Wire!WireInv
  <2>1. WP!Init
    BY DEF Init, Wire!Init, WP!Init
  <2>2. QED
    BY <2>1, WireNames, WP!InitEstablishes, SameWireInv DEF WP!NoneAssumption
<1>2. TypeOK
  <2>1. Wire!TypeOK
    BY <1>1 DEF Wire!WireInv
  <2>2. buffer \in Seq(Incoming) /\ inq \in Seq(Incoming)
    BY DEF Init
  <2>3. /\ call \in [Call -> Active \cup {"none", "sent", "threw", "elsewhere"}]
        /\ thread \in [Call -> Call \cup {Conn}]
    BY DEF Init
  <2>4. QED
    BY <2>1, <2>2, <2>3 DEF Init, TypeOK, ConnPlace
<1>3. CurMatches /\ ConnWrites /\ LockHolder /\ LiveWhileBound
  BY Known DEF Init, Wire!Init, CurMatches, ConnWrites, LockHolder, LiveWhileBound, InSend
<1>4. RegisteredBeforeSent /\ ReplyFindsItsCall
  BY RecordsAssumption, Known
  DEF Init, Wire!Init, RegisteredBeforeSent, ReplyFindsItsCall
<1>5. QED
  BY <1>1, <1>2, <1>3, <1>4 DEF ConnectionInv

(* A thread that is not inside a nested call and not writing for itself is *)
(* not writing at all.                                                     *)
LEMMA ConnIdle ==
    ASSUME ConnectionInv, ConnFree, connPc \notin DOMAIN AfterWrite
    PROVE  at[Conn] = "idle"
  BY DEF ConnectionInv, ConnWrites, ConnFree, CallOn, Active

(* Steps of the connection's thread that write nothing. *)
LEMMA QuietStepsPreserve ==
    ASSUME ConnectionInv, Wire!WireInv',
           Receive \/ LeaveLoop \/ HandleRequest \/ Defer \/ InvokeReturns
             \/ InvokeThrows \/ HandleReply \/ CallbackReturns \/ CallbackThrows
             \/ Unbind \/ Free
    PROVE  ConnectionInv'
<1>1. UNCHANGED <<wireVars, call, thread, protocolLock, callbacks>>
  BY DEF Receive, LeaveLoop, HandleRequest, Defer, InvokeReturns, InvokeThrows,
         HandleReply, CallbackReturns, CallbackThrows, Unbind, Free, callVars
<1>2. TypeOK'
  <2> USE DEF ConnectionInv, TypeOK, Wire!WireInv, ConnPlace
  <2>1. CASE Receive
    <3>1. \A n \in 1..Len(inq) : /\ SubSeq(inq, 1, n) \in Seq(Incoming)
                                 /\ SubSeq(inq, n + 1, Len(inq)) \in Seq(Incoming)
      OBVIOUS
    <3>2. QED
      BY <2>1, <3>1, <1>1 DEF Receive, wireVars, callVars
  <2>2. CASE LeaveLoop \/ Defer \/ InvokeReturns \/ InvokeThrows
             \/ CallbackReturns \/ CallbackThrows \/ Unbind \/ Free
    BY <2>2, <1>1
    DEF LeaveLoop, Defer, InvokeReturns, InvokeThrows, CallbackReturns,
        CallbackThrows, Unbind, Free, callVars, peerVars, CurMatches, At
  <2>3. CASE HandleRequest
    <3>1. Tail(buffer) \in Seq(Incoming) /\ Head(buffer) \in Incoming
      BY <2>3 DEF HandleRequest, Pending
    <3>2. Head(buffer).of \in Request
      BY <2>3, <3>1 DEF HandleRequest, Pending, Incoming
    <3>3. QED
      BY <2>3, <3>1, <3>2, <1>1 DEF HandleRequest, Consume, callVars, peerVars
  <2>4. CASE HandleReply
    <3>1. Tail(buffer) \in Seq(Incoming) /\ Head(buffer) \in Incoming
      BY <2>4 DEF HandleReply, Pending
    <3>2. Head(buffer).of \in Call
      BY <2>4, <3>1 DEF HandleReply, Pending, Incoming
    <3>3. QED
      BY <2>4, <3>1, <3>2, <1>1 DEF HandleReply, Consume, peerVars
  <2>5. QED
    BY <2>1, <2>2, <2>3, <2>4
<1>3. CurMatches'
  <2>1. CASE HandleRequest \/ HandleReply
    <3>1. Head(buffer) \in Incoming
      BY <2>1 DEF ConnectionInv, TypeOK, HandleRequest, HandleReply, Pending
    <3>2. HandleRequest => Head(buffer).of \in Request
      BY <3>1 DEF HandleRequest, Pending, Incoming
    <3>3. HandleReply => Head(buffer).of \in Call
      BY <3>1 DEF HandleReply, Pending, Incoming
    <3>4. QED
      BY <2>1, <3>2, <3>3 DEF HandleRequest, HandleReply, Consume, CurMatches
  <2>2. CASE ~(HandleRequest \/ HandleReply)
    BY <2>2
    DEF ConnectionInv, CurMatches, At, Receive, LeaveLoop, Defer, InvokeReturns,
        InvokeThrows, CallbackReturns, CallbackThrows, Unbind, Free
  <2>3. QED
    BY <2>1, <2>2
<1>4. ConnWrites'
  <2>1. CASE Unbind \/ Free
    BY <2>1, <1>1 DEF ConnectionInv, ConnWrites, CallOn, Unbind, Free, wireVars, AfterWrite
  <2>2. CASE ~(Unbind \/ Free)
    <3>1. ConnFree /\ connPc \notin DOMAIN AfterWrite
      BY <2>2
      DEF At, Consume, Receive, LeaveLoop, HandleRequest, Defer, InvokeReturns,
          InvokeThrows, HandleReply, CallbackReturns, CallbackThrows, AfterWrite
    <3>2. QED
      BY <3>1, <1>1, ConnIdle DEF ConnWrites, wireVars
  <2>3. QED
    BY <2>1, <2>2
<1>5. LockHolder' /\ RegisteredBeforeSent'
  BY <1>1 DEF ConnectionInv, LockHolder, RegisteredBeforeSent, wireVars
<1>6. LiveWhileBound'
  <2>1. CASE Unbind
    <3>1. \A k \in Call : call[k] \notin InSend
      BY <2>1, NamesAssumption DEF Unbind, ConnectionInv, LockHolder
    <3>2. QED
      BY <2>1, <3>1, <1>1 DEF Unbind, LiveWhileBound
  <2>2. CASE ~Unbind
    BY <2>2, <1>1
    DEF ConnectionInv, LiveWhileBound, At, Consume, Receive, LeaveLoop, HandleRequest,
        Defer, InvokeReturns, InvokeThrows, HandleReply, CallbackReturns,
        CallbackThrows, Free
  <2>3. QED
    BY <2>1, <2>2
<1>7. ReplyFindsItsCall'
  <2>1. CASE Receive
    <3>1. PICK n \in 1..Len(inq) : /\ buffer' = SubSeq(inq, 1, n)
                                   /\ inq' = SubSeq(inq, n + 1, Len(inq))
      BY <2>1 DEF Receive
    <3>2. inq \in Seq(Incoming)
      BY DEF ConnectionInv, TypeOK
    <3>3. \A i \in 1..Len(buffer') : i \in 1..Len(inq) /\ buffer'[i] = inq[i]
      BY <3>1, <3>2
    <3>4. \A i \in 1..Len(inq') : n + i \in 1..Len(inq) /\ inq'[i] = inq[n + i]
      BY <3>1, <3>2
    <3>5. QED
      BY <3>3, <3>4, <1>1 DEF ConnectionInv, ReplyFindsItsCall
  <2>2. CASE HandleRequest \/ HandleReply
    <3>1. buffer' = Tail(buffer) /\ buffer # << >> /\ inq' = inq
      BY <2>2 DEF HandleRequest, HandleReply, Pending, Consume, peerVars
    <3>2. \A i \in 1..Len(buffer') : i + 1 \in 1..Len(buffer) /\ buffer'[i] = buffer[i + 1]
      BY <3>1 DEF ConnectionInv, TypeOK
    <3>3. QED
      BY <3>1, <3>2, <1>1 DEF ConnectionInv, ReplyFindsItsCall
  <2>3. CASE ~(Receive \/ HandleRequest \/ HandleReply)
    <3>1. buffer' = buffer /\ inq' = inq
      BY <2>3
      DEF LeaveLoop, Defer, InvokeReturns, InvokeThrows, CallbackReturns,
          CallbackThrows, Unbind, Free, peerVars
    <3>2. QED
      BY <3>1, <1>1 DEF ConnectionInv, ReplyFindsItsCall
  <2>4. QED
    BY <2>1, <2>2, <2>3
<1>8. QED
  BY <1>2, <1>3, <1>4, <1>5, <1>6, <1>7 DEF ConnectionInv

(* Steps of the connection's thread that start a write, and End. *)
LEMMA ConnWritesPreserve ==
    ASSUME ConnectionInv, Wire!WireInv',
           ProcessHeader \/ ProcessEnd \/ Respond \/ SendFault \/ EndConnection
    PROVE  ConnectionInv'
<1>1. UNCHANGED <<call, thread, protocolLock, callbacks, ran, peer, inq, asked, replied, up>>
  BY DEF ProcessHeader, ProcessEnd, Respond, SendFault, EndConnection, callVars, peerVars
<1>2. /\ out' = out
      /\ \/ rec' = rec
         \/ \E m \in {Ack, End, Resp(cur), Fault(cur)} : rec' = [rec EXCEPT ![Conn] = m]
  BY DEF ProcessHeader, ProcessEnd, Respond, SendFault, EndConnection, Wire!StartByte,
         Wire!StartXml, Wire!Shutdown, wireVars
<1>3. buffer' = buffer \/ (buffer # << >> /\ buffer' = Tail(buffer))
  BY DEF ProcessHeader, ProcessEnd, Respond, SendFault, EndConnection, Consume, Pending
<1>4. TypeOK'
  <2>1. buffer' \in Seq(Incoming)
    BY <1>3 DEF ConnectionInv, TypeOK
  <2>2. /\ connPc' \in ConnPlace /\ cur' \in Call \cup Request \cup {None}
        /\ stop' \in BOOLEAN /\ bound' \in BOOLEAN /\ held' \subseteq Request
    BY DEF ConnectionInv, TypeOK, ProcessHeader, ProcessEnd, Respond, SendFault,
           EndConnection, Consume, ConnPlace
  <2>3. QED
    BY <1>1, <2>1, <2>2 DEF ConnectionInv, TypeOK, Wire!WireInv
<1>5. CurMatches'
  BY DEF ConnectionInv, CurMatches, At, ProcessHeader, ProcessEnd, Respond, SendFault,
         EndConnection, Consume
<1>6. ConnWrites'
  <2>1. CASE EndConnection
    <3>1. at[Conn] = "idle"
      BY <2>1, ConnIdle DEF EndConnection, At, AfterWrite
    <3>2. at' = at
      BY <2>1 DEF EndConnection, Wire!Shutdown, wireVars
    <3>3. QED
      BY <3>1, <3>2 DEF ConnWrites
  <2>2. CASE ~EndConnection
    <3>1. connPc' \in DOMAIN AfterWrite
      BY <2>2 DEF ProcessHeader, ProcessEnd, Respond, SendFault, Consume, AfterWrite
    <3>2. QED
      BY <3>1 DEF ConnWrites
  <2>3. QED
    BY <2>1, <2>2
<1>7. LockHolder'
  BY <1>1 DEF ConnectionInv, LockHolder
<1>8. LiveWhileBound'
  BY DEF LiveWhileBound, ProcessHeader, ProcessEnd, Respond, SendFault, EndConnection, Consume
<1>9. RegisteredBeforeSent'
  <2>1. \A k \in Call : Req(k) \notin {Ack, End, Resp(cur), Fault(cur)}
    BY RecordsAssumption, Known DEF Req, Resp, Fault
  <2>2. \A k \in Call, t \in Thread : rec'[t] = Req(k) => rec[t] = Req(k)
    BY <1>2, <2>1 DEF ConnectionInv, TypeOK, Wire!TypeOK
  <2>3. QED
    BY <1>1, <1>2, <2>2 DEF ConnectionInv, RegisteredBeforeSent
<1>10. ReplyFindsItsCall'
  <2>1. \A i \in 1..Len(buffer') : \E j \in 1..Len(buffer) : buffer'[i] = buffer[j]
    <3>1. CASE buffer' = buffer
      BY <3>1
    <3>2. CASE buffer # << >> /\ buffer' = Tail(buffer)
      <4>1. \A i \in 1..Len(buffer') : i + 1 \in 1..Len(buffer) /\ buffer'[i] = buffer[i + 1]
        BY <3>2 DEF ConnectionInv, TypeOK
      <4>2. QED
        BY <4>1
    <3>3. QED
      BY <1>3, <3>1, <3>2
  <2>2. QED
    BY <1>1, <2>1 DEF ConnectionInv, ReplyFindsItsCall
<1>11. QED
  BY <1>4, <1>5, <1>6, <1>7, <1>8, <1>9, <1>10 DEF ConnectionInv

(* Steps of a call up to its write: it holds the lock of the registry from *)
(* the moment it found the connection there.                               *)
LEMMA CallStepsPreserve ==
    ASSUME ConnectionInv, Wire!WireInv', NEW k \in Call,
           CallMethod(k) \/ LockBindings(k) \/ BeginRegister(k) \/ SendRequest(k)
    PROVE  ConnectionInv'
<1>1. UNCHANGED <<connVars, ran, peerVars, up>> /\ callbacks \subseteq callbacks'
  BY DEF CallMethod, LockBindings, BeginRegister, SendRequest
<1>2. TypeOK'
  BY <1>1 DEF ConnectionInv, TypeOK, Wire!WireInv, connVars, peerVars, CallMethod,
              LockBindings, BeginRegister, SendRequest, Active
<1>3. CurMatches'
  BY <1>1 DEF ConnectionInv, CurMatches, connVars
<1>4. ConnWrites'
  <2>1. CASE SendRequest(k) /\ thread[k] = Conn
    <3>1. k \in CallOn(Conn)'
      BY <2>1 DEF ConnectionInv, TypeOK, SendRequest, CallOn
    <3>2. QED
      BY <3>1 DEF ConnWrites
  <2>2. CASE ~(SendRequest(k) /\ thread[k] = Conn)
    <3>1. at'[Conn] = at[Conn]
      BY <2>2, Known
      DEF ConnectionInv, TypeOK, Wire!TypeOK, CallMethod, LockBindings, BeginRegister,
          SendRequest, Wire!StartXml, wireVars
    <3>2. CallOn(Conn) \subseteq CallOn(Conn)'
      BY DEF ConnectionInv, TypeOK, CallOn, CallMethod, LockBindings, BeginRegister,
             SendRequest
    <3>3. QED
      BY <3>1, <3>2, <1>1 DEF ConnectionInv, ConnWrites, connVars
  <2>3. QED
    BY <2>1, <2>2
<1>5. LockHolder'
  BY NamesAssumption
  DEF ConnectionInv, TypeOK, LockHolder, InSend, CallMethod, LockBindings, BeginRegister,
      SendRequest
<1>6. LiveWhileBound'
  BY <1>1
  DEF ConnectionInv, TypeOK, LiveWhileBound, InSend, connVars, CallMethod, LockBindings,
      BeginRegister, SendRequest
<1>7. RegisteredBeforeSent'
  <2>1. out' = out
    BY DEF CallMethod, LockBindings, BeginRegister, SendRequest, Wire!StartXml, wireVars
  <2>2. \A j \in Call, t \in Thread : rec'[t] = Req(j) => rec[t] = Req(j) \/ j \in callbacks'
    <3>1. CASE SendRequest(k)
      <4>1. rec' = [rec EXCEPT ![thread[k]] = Req(k)] /\ k \in callbacks'
        BY <3>1 DEF SendRequest, Wire!StartXml
      <4>2. \A j \in Call : Req(j) = Req(k) => j = k
        BY DEF Req
      <4>3. QED
        BY <4>1, <4>2 DEF ConnectionInv, TypeOK, Wire!TypeOK
    <3>2. CASE ~SendRequest(k)
      BY <3>2 DEF CallMethod, LockBindings, BeginRegister, wireVars
    <3>3. QED
      BY <3>1, <3>2
  <2>3. QED
    BY <1>1, <2>1, <2>2 DEF ConnectionInv, RegisteredBeforeSent
<1>8. ReplyFindsItsCall'
  BY <1>1 DEF ConnectionInv, ReplyFindsItsCall, connVars, peerVars
<1>9. QED
  BY <1>2, <1>3, <1>4, <1>5, <1>6, <1>7, <1>8 DEF ConnectionInv

(* A write in progress appends what its thread had printed. *)
LEMMA WritesAppend ==
    ASSUME ConnectionInv, NEW t \in Thread, WriteStep(t)
    PROVE  /\ out' = out \/ \E e : e.of = rec[t] /\ out' = Append(out, e)
           /\ \A u \in Thread : rec'[u] = rec[u] \/ rec'[u] = None
<1>1. \A m : Wire!Frame!Header(m).of = m /\ Wire!Frame!Body(m).of = m
             /\ Wire!Frame!Byte(m).of = m
  BY DEF Wire!Frame!Header, Wire!Frame!Body, Wire!Frame!Byte
<1>2. QED
  BY <1>1
  DEF ConnectionInv, TypeOK, Wire!TypeOK, WriteStep, WriteGoesOn, WriteEnds, WriteFails,
      Wire!Acquire, Wire!WriteHeader, Wire!WriteBody, Wire!WriteByte, Wire!WriteThrows,
      Wire!Release

(* Writes: the thread that ends one gives back the lock of the registry if *)
(* it was a call, and goes where its code goes otherwise.                  *)
LEMMA WriteStepsPreserve ==
    ASSUME ConnectionInv, Wire!WireInv', NEW t \in Thread, WriteStep(t)
    PROVE  ConnectionInv'
<1>1. UNCHANGED <<cur, buffer, stop, bound, held, peerVars, up, thread, callbacks, ran>>
  BY DEF WriteStep, WriteGoesOn, WriteEnds, WriteFails, CallEnds, ConnGoes, LateEnds,
         connVars, callVars
<1>2. \/ UNCHANGED <<connPc, call, protocolLock>>
      \/ (\E pc \in {"sent", "threw"} : CallEnds(t, pc))
      \/ (ConnGoes(t, AfterWrite) \/ ConnGoes(t, AfterThrow)) /\ at[Conn] # "idle"
  BY DEF WriteStep, WriteGoesOn, WriteEnds, WriteFails, LateEnds, connVars, callVars,
         Wire!WriteBody, Wire!WriteByte, Wire!WriteThrows, ConnGoes
<1>3. ASSUME ConnGoes(t, AfterWrite) \/ ConnGoes(t, AfterThrow), at[Conn] # "idle"
      PROVE  /\ connPc' \in {"poll", "closing", "responded", "stopped", "thrown"}
             /\ connPc' \in {"responded", "thrown"} => connPc = "responding"
             /\ UNCHANGED <<call, protocolLock>>
  <2>1. connPc \in DOMAIN AfterWrite
    BY <1>3 DEF ConnectionInv, ConnWrites, ConnGoes
  <2>2. QED
    BY <1>3, <2>1 DEF ConnGoes, AfterWrite, AfterThrow, callVars
<1>4. TypeOK'
  <2>1. connPc' \in ConnPlace
    BY <1>2, <1>3 DEF ConnectionInv, TypeOK, ConnPlace, CallEnds
  <2>2. /\ call' \in [Call -> Active \cup {"none", "sent", "threw", "elsewhere"}]
        /\ protocolLock' \in Call \cup {None}
    BY <1>2, <1>3 DEF ConnectionInv, TypeOK, CallEnds
  <2>3. QED
    BY <1>1, <2>1, <2>2 DEF ConnectionInv, TypeOK, Wire!WireInv, peerVars
<1>5. CurMatches'
  BY <1>1, <1>2, <1>3 DEF ConnectionInv, CurMatches, CallEnds
<1>6. ConnWrites'
  <2>1. CASE t = Conn
    <3>1. CASE WriteGoesOn(t)
      <4>1. at[Conn] # "idle"
        BY <2>1, <3>1 DEF WriteGoesOn, Wire!Acquire, Wire!WriteHeader
      <4>2. UNCHANGED <<connPc, call, thread>>
        BY <3>1 DEF WriteGoesOn, connVars, callVars
      <4>3. QED
        BY <4>1, <4>2 DEF ConnectionInv, ConnWrites, CallOn
    <3>2. CASE ~WriteGoesOn(t)
      <4>1. at'[Conn] = "idle"
        BY <2>1, <3>2, Known
        DEF ConnectionInv, TypeOK, Wire!TypeOK, WriteStep, WriteEnds, WriteFails,
            Wire!WriteBody, Wire!WriteByte, Wire!WriteThrows, Wire!Release
      <4>2. QED
        BY <4>1 DEF ConnWrites
    <3>3. QED
      BY <3>1, <3>2
  <2>2. CASE t # Conn
    <3>1. at'[Conn] = at[Conn]
      BY <2>2, Known
      DEF ConnectionInv, TypeOK, Wire!TypeOK, WriteStep, WriteGoesOn, WriteEnds, WriteFails,
          Wire!Acquire, Wire!WriteHeader, Wire!WriteBody, Wire!WriteByte,
          Wire!WriteThrows, Wire!Release
    <3>2. connPc' = connPc
      BY <1>2, <2>2 DEF CallEnds, ConnGoes
    <3>3. CallOn(Conn) \subseteq CallOn(Conn)'
      BY <1>1, <1>2, <2>2 DEF CallOn, CallEnds, ConnGoes
    <3>4. QED
      BY <3>1, <3>2, <3>3 DEF ConnectionInv, ConnWrites
  <2>3. QED
    BY <2>1, <2>2
<1>7. LockHolder' /\ LiveWhileBound'
  <2>1. ASSUME NEW pc \in {"sent", "threw"}, CallEnds(t, pc)
        PROVE  (\A k \in Call : call'[k] \notin InSend) /\ connPc' = connPc
    BY <2>1 DEF ConnectionInv, LockHolder, CallEnds, CallOn, InSend
  <2>2. QED
    BY <1>1, <1>2, <1>3, <2>1 DEF ConnectionInv, LockHolder, LiveWhileBound
<1>8. RegisteredBeforeSent'
  <2>1. \A k \in Call, u \in Thread : rec'[u] = Req(k) => rec[u] = Req(k)
    BY WritesAppend, RecordsAssumption, Known
  <2>2. ASSUME NEW k \in Call, NEW i \in 1..Len(out'), out'[i].of = Req(k)
        PROVE  k \in callbacks
    <3>1. CASE out' = out
      BY <2>2, <3>1 DEF ConnectionInv, RegisteredBeforeSent
    <3>2. ASSUME NEW e, e.of = rec[t], out' = Append(out, e)
          PROVE  k \in callbacks
      <4>1. \/ i \in 1..Len(out) /\ out'[i] = out[i]
            \/ out'[i] = e
        BY <3>2 DEF ConnectionInv, TypeOK, Wire!TypeOK
      <4>2. QED
        BY <2>2, <3>2, <4>1 DEF ConnectionInv, RegisteredBeforeSent
    <3>3. QED
      BY <3>1, <3>2, WritesAppend
  <2>3. QED
    BY <1>1, <2>1, <2>2 DEF ConnectionInv, RegisteredBeforeSent
<1>9. ReplyFindsItsCall'
  BY <1>1 DEF ConnectionInv, ReplyFindsItsCall, peerVars
<1>10. QED
  BY <1>4, <1>5, <1>6, <1>7, <1>8, <1>9 DEF ConnectionInv

(* Late answers start a write of their own; one that comes too late        *)
(* changes nothing but that the process is lost.                           *)
LEMMA LateStepsPreserve ==
    ASSUME ConnectionInv, Wire!WireInv', NEW r \in Request,
           RespondLate(r) \/ UseDestroyed(r)
    PROVE  ConnectionInv'
<1>1. UNCHANGED <<out, connPc, cur, buffer, stop, bound, callVars, peerVars>>
  BY DEF RespondLate, UseDestroyed, Wire!StartXml, wireVars, connVars
<1>2. TypeOK'
  BY <1>1 DEF ConnectionInv, TypeOK, Wire!WireInv, RespondLate, UseDestroyed, connVars,
              callVars, peerVars
<1>3. CurMatches' /\ LockHolder' /\ LiveWhileBound' /\ ReplyFindsItsCall'
  BY <1>1 DEF ConnectionInv, CurMatches, LockHolder, LiveWhileBound, ReplyFindsItsCall,
              callVars, peerVars
<1>4. ConnWrites'
  <2>1. at'[Conn] = at[Conn]
    BY NamesAssumption, Known
    DEF ConnectionInv, TypeOK, Wire!TypeOK, RespondLate, UseDestroyed, Wire!StartXml, wireVars
  <2>2. QED
    BY <1>1, <2>1 DEF ConnectionInv, ConnWrites, CallOn, callVars
<1>5. RegisteredBeforeSent'
  <2>1. \A k \in Call : Req(k) # Resp(r)
    BY DEF Req, Resp
  <2>2. \A k \in Call, t \in Thread : rec'[t] = Req(k) => rec[t] = Req(k)
    BY <2>1
    DEF ConnectionInv, TypeOK, Wire!TypeOK, RespondLate, UseDestroyed, Wire!StartXml, wireVars
  <2>3. QED
    BY <1>1, <2>2 DEF ConnectionInv, RegisteredBeforeSent, callVars
<1>6. QED
  BY <1>2, <1>3, <1>4, <1>5 DEF ConnectionInv

(* The peer replies only to what it has received. *)
LEMMA PeerStepsPreserve ==
    ASSUME ConnectionInv, Wire!WireInv', PeerStep
    PROVE  ConnectionInv'
<1>1. UNCHANGED <<out, at, rec, connVars, callVars>>
  BY DEF PeerStep, PeerPreamble, PeerEnd, PeerRequest, PeerReply, PeerSends, Break,
         Wire!Lose, wireVars
<1>2. \/ inq' = inq
      \/ \E e \in Incoming : /\ inq' = Append(inq, e)
                             /\ e.kind = "reply" => e.of \in callbacks
  <2>1. ASSUME NEW k \in Call, PeerReply(k) PROVE k \in callbacks
    <3>1. PICK i \in 1..Len(out) : out[i] = Wire!Frame!Body(Req(k))
      BY <2>1 DEF PeerReply, Sent
    <3>2. out[i].of = Req(k)
      BY <3>1 DEF Wire!Frame!Body
    <3>3. QED
      BY <3>2 DEF ConnectionInv, RegisteredBeforeSent
  <2> DEFINE Comes(e) == /\ inq' = Append(inq, e)
                         /\ e.kind = "reply" => e.of \in callbacks
  <2>2. CASE PeerPreamble
    <3>1. [kind |-> "preamble"] \in Incoming
      BY DEF Incoming
    <3>2. Comes([kind |-> "preamble"])
      BY <2>2 DEF PeerPreamble, PeerSends
    <3>3. QED
      BY <3>1, <3>2
  <2>3. CASE PeerEnd
    <3>1. [kind |-> "end"] \in Incoming
      BY DEF Incoming
    <3>2. Comes([kind |-> "end"])
      BY <2>3 DEF PeerEnd, PeerSends
    <3>3. QED
      BY <3>1, <3>2
  <2>4. ASSUME NEW r \in Request, PeerRequest(r)
        PROVE  \E e \in Incoming : Comes(e)
    <3>1. [kind |-> "request", of |-> r] \in Incoming
      BY DEF Incoming
    <3>2. Comes([kind |-> "request", of |-> r])
      BY <2>4 DEF PeerRequest, PeerSends
    <3>3. QED
      BY <3>1, <3>2
  <2>5. ASSUME NEW k \in Call, PeerReply(k)
        PROVE  \E e \in Incoming : Comes(e)
    <3>1. [kind |-> "reply", of |-> k] \in Incoming
      BY DEF Incoming
    <3>2. Comes([kind |-> "reply", of |-> k])
      BY <2>1, <2>5 DEF PeerReply, PeerSends
    <3>3. QED
      BY <3>1, <3>2
  <2>6. CASE Break
    BY <2>6 DEF Break, peerVars
  <2>7. QED
    BY <2>2, <2>3, <2>4, <2>5, <2>6 DEF PeerStep
<1>3. TypeOK'
  <2>1. inq' \in Seq(Incoming)
    BY <1>2 DEF ConnectionInv, TypeOK
  <2>2. /\ asked' \subseteq Request /\ replied' \subseteq Call
        /\ peer' \in {"new", "open", "ended"} /\ up' = up
    BY DEF ConnectionInv, TypeOK, PeerStep, PeerPreamble, PeerEnd, PeerRequest, PeerReply,
           PeerSends, Break, peerVars
  <2>3. QED
    BY <1>1, <2>1, <2>2 DEF ConnectionInv, TypeOK, Wire!WireInv, connVars, callVars
<1>4. CurMatches' /\ ConnWrites' /\ LockHolder' /\ LiveWhileBound' /\ RegisteredBeforeSent'
  BY <1>1 DEF ConnectionInv, CurMatches, ConnWrites, CallOn, LockHolder, LiveWhileBound,
              RegisteredBeforeSent, connVars, callVars
<1>5. ReplyFindsItsCall'
  <2>1. ASSUME NEW i \in 1..Len(inq'), inq'[i].kind = "reply"
        PROVE  inq'[i].of \in callbacks
    <3>1. CASE inq' = inq
      BY <2>1, <3>1 DEF ConnectionInv, ReplyFindsItsCall
    <3>2. ASSUME NEW e \in Incoming, inq' = Append(inq, e),
                 e.kind = "reply" => e.of \in callbacks
          PROVE  inq'[i].of \in callbacks
      <4>1. \/ i \in 1..Len(inq) /\ inq'[i] = inq[i]
            \/ inq'[i] = e
        BY <3>2 DEF ConnectionInv, TypeOK
      <4>2. QED
        BY <2>1, <3>2, <4>1 DEF ConnectionInv, ReplyFindsItsCall
    <3>3. QED
      BY <1>2, <3>1, <3>2
  <2>2. QED
    BY <1>1, <2>1 DEF ConnectionInv, ReplyFindsItsCall, connVars, callVars
<1>6. QED
  BY <1>3, <1>4, <1>5 DEF ConnectionInv

(* No step leaves the invariant. *)
LEMMA StepPreserves == ConnectionInv /\ [Next]_vars => ConnectionInv'
<1> SUFFICES ASSUME ConnectionInv, [Next]_vars PROVE ConnectionInv'
  OBVIOUS
<1>1. Wire!WireInv'
  BY IsWireStep, WireStep DEF ConnectionInv
<1>2. CASE UNCHANGED vars
  BY <1>1, <1>2
  DEF ConnectionInv, TypeOK, CurMatches, ConnWrites, CallOn, LockHolder, LiveWhileBound,
      RegisteredBeforeSent, ReplyFindsItsCall, Wire!WireInv, vars, wireVars, connVars,
      callVars, peerVars
<1>3. CASE Next
  BY <1>1, <1>3, QuietStepsPreserve, ConnWritesPreserve, CallStepsPreserve,
     WriteStepsPreserve, LateStepsPreserve, PeerStepsPreserve
  DEF Next, ConnStep, CallStep
<1>4. QED
  BY <1>2, <1>3

(* The invariant of one connection is inductive. *)
THEOREM ConnectionInvariant == Spec => []ConnectionInv
  BY InitEstablishes, StepPreserves, PTL DEF Spec

(* A reply on its way, or received, relates to a registered call. *)
THEOREM RepliesFindTheirCalls == Spec => []ReplyFindsItsCall
<1>1. ConnectionInv => ReplyFindsItsCall
  BY DEF ConnectionInv
<1>2. QED
  BY ConnectionInvariant, <1>1, PTL

(* A call that sends does so on a connection that is not being destroyed. *)
THEOREM CallsSendOnLiveConnections == Spec => []SendingOnLiveConnection
<1>1. ConnectionInv => SendingOnLiveConnection
  BY DEF ConnectionInv, LiveWhileBound, SendingOnLiveConnection
<1>2. QED
  BY ConnectionInvariant, <1>1, PTL

(* The connection implements the specification of its write side. *)
THEOREM ConnectionImplementsWire == Spec => ImplementsWire
<1>1. Init => Wire!Init
  BY DEF Init
<1>2. ConnectionInv /\ [Next]_vars => [Wire!Next]_(Wire!vars)
  BY IsWireStep DEF wireVars, Wire!vars
<1>3. QED
  BY <1>1, <1>2, ConnectionInvariant, PTL DEF Spec, ImplementsWire, Wire!Spec

(* With everything a connection does, the peer receives framed records. *)
THEOREM ConnectionIsFramed == Spec => []Wire!Framed
<1>1. ConnectionInv => Wire!Framed
  BY DEF ConnectionInv, Wire!WireInv
<1>2. QED
  BY ConnectionInvariant, <1>1, PTL

-----------------------------------------------------------------------------
(* What the peer of a connection receives comes in the order its protocol  *)
(* wants, and the calls of the program keep the promise of RemoteCall.     *)

(* The kinds of records the connection writes differ, and so do calls.     *)
LEMMA Distinct ==
    /\ \A k, j : Req(k) = Req(j) => k = j
    /\ \A k, x : Req(k) # Resp(x) /\ Req(k) # Fault(x)
    /\ \A m, n : Wire!Frame!Body(m) = Wire!Frame!Body(n) => m = n
    /\ \A m, n : /\ Wire!Frame!Body(m) # Wire!Frame!Header(n)
                 /\ Wire!Frame!Body(m) # Wire!Frame!Byte(n)
    /\ \A m : /\ Wire!Frame!Header(m).of = m /\ Wire!Frame!Body(m).of = m
              /\ Wire!Frame!Byte(m).of = m
  BY DEF Req, Resp, Fault, Wire!Frame!Body, Wire!Frame!Header, Wire!Frame!Byte

(* A request is no one-byte record, and there is none where nothing is.    *)
LEMMA RequestsAreEnvelopes ==
    ASSUME NEW k \in Call
    PROVE  Req(k) # None /\ Req(k) # Ack /\ Req(k) # End
  BY Known, RecordsAssumption

(* What was written stays written. *)
LEMMA Written ==
    ASSUME ConnectionInv, out' = out \/ \E e : out' = Append(out, e)
    PROVE  /\ Acked => Acked'
           /\ EndSent => EndSent'
           /\ \A m : Sent(m) => (\E i \in 1..Len(out') : out'[i] = Wire!Frame!Body(m))
<1>1. ASSUME NEW x, NEW i \in 1..Len(out), out[i] = x
      PROVE  \E j \in 1..Len(out') : out'[j] = x
  <2>1. i \in 1..Len(out') /\ out'[i] = out[i]
    BY DEF ConnectionInv, TypeOK, Wire!TypeOK
  <2>2. QED
    BY <1>1, <2>1
<1>2. QED
  BY <1>1 DEF Acked, EndSent, Sent

(* What is new in the output is the record that was appended. *)
LEMMA OnlyAppended ==
    ASSUME ConnectionInv, NEW e, out' = Append(out, e)
    PROVE  /\ \A i \in 1..Len(out') : (i \in 1..Len(out) /\ out'[i] = out[i]) \/ out'[i] = e
           /\ Len(out') \in 1..Len(out') /\ out'[Len(out')] = e
  BY DEF ConnectionInv, TypeOK, Wire!TypeOK

-----------------------------------------------------------------------------
(* OrderInv, one group of steps at a time. *)

LEMMA OrderInitially == Init => OrderInv
<1> SUFFICES ASSUME Init PROVE OrderInv
  OBVIOUS
<1>1. out = << >> /\ Len(out) = 0
  BY DEF Init, Wire!Init
<1>2. /\ \A t \in Thread : at[t] = "idle" /\ rec[t] = None
      /\ \A k \in Call : call[k] = "none" /\ k \in Thread
      /\ \A r \in Request : r \in Thread
      /\ socket = "open"
  BY Known DEF Init, Wire!Init
<1>3. CallerWaits /\ ConnRecord /\ AckedFirst
  BY <1>2 DEF Init, CallerWaits, Active, ConnRecord, AckedFirst, PreambleIsNext
<1>4. CallRecord
  BY <1>2, RequestsAreEnvelopes DEF CallRecord
<1>5. SentByReturned /\ RepliesFollowRequests /\ OnlyCallsPrecedeAck /\ ShutAfterEndRecord
  BY <1>1, <1>2
  DEF Init, SentByReturned, Sent, RepliesFollowRequests, OnlyCallsPrecedeAck,
      ShutAfterEndRecord
<1>6. QED
  BY <1>3, <1>4, <1>5 DEF OrderInv

(* The peer has introduced itself when anything else of it is handled. *)
LEMMA HandledAfterAck ==
    ASSUME OrderInv, connPc = "poll", buffer # << >>, Head(buffer).kind # "preamble"
    PROVE  Acked
  BY DEF OrderInv, AckedFirst, PreambleIsNext

(* Steps of the connection's thread that write nothing. *)
LEMMA QuietStepsKeepOrder ==
    ASSUME ConnectionInv, OrderInv,
           Receive \/ LeaveLoop \/ HandleRequest \/ Defer \/ InvokeReturns
             \/ InvokeThrows \/ HandleReply \/ CallbackReturns \/ CallbackThrows
             \/ Unbind \/ Free
    PROVE  OrderInv'
<1>1. UNCHANGED <<wireVars, call, thread, peer>>
  BY DEF Receive, LeaveLoop, HandleRequest, Defer, InvokeReturns, InvokeThrows,
         HandleReply, CallbackReturns, CallbackThrows, Unbind, Free, callVars, peerVars
<1>2. (Acked <=> Acked') /\ (EndSent <=> EndSent') /\ \A m : Sent(m) <=> Sent(m)'
  BY <1>1 DEF Acked, EndSent, Sent, wireVars
<1>3. CallerWaits'
  <2>1. CASE Unbind \/ Free
    BY <2>1, <1>1 DEF OrderInv, CallerWaits, Unbind, Free
  <2>2. CASE ~(Unbind \/ Free)
    <3>1. ConnFree
      BY <2>2
      DEF At, Consume, Receive, LeaveLoop, HandleRequest, Defer, InvokeReturns,
          InvokeThrows, HandleReply, CallbackReturns, CallbackThrows
    <3>2. QED
      BY <3>1, <1>1 DEF OrderInv, ConnFree, CallerWaits
  <2>3. QED
    BY <2>1, <2>2
<1>4. connPc' \notin {"acking", "ending", "closing"}
  BY DEF At, Consume, Receive, LeaveLoop, HandleRequest, Defer, InvokeReturns,
         InvokeThrows, HandleReply, CallbackReturns, CallbackThrows, Unbind, Free
<1>5. ConnRecord' /\ CallRecord' /\ SentByReturned' /\ OnlyCallsPrecedeAck' /\ ShutAfterEndRecord'
  BY <1>1, <1>2, <1>4
  DEF OrderInv, ConnRecord, CallRecord, SentByReturned, OnlyCallsPrecedeAck,
      ShutAfterEndRecord, wireVars
<1>6. AckedFirst'
  <2> SUFFICES ASSUME ~Acked PROVE AckedFirst'
    BY <1>2 DEF AckedFirst
  <2>1. CASE Receive
    <3>1. PICK n \in 1..Len(inq) : /\ buffer' = SubSeq(inq, 1, n)
                                   /\ inq' = SubSeq(inq, n + 1, Len(inq))
      BY <2>1 DEF Receive
    <3>2. inq \in Seq(Incoming) /\ connPc = "poll" /\ buffer = << >> /\ inq # << >>
      BY <2>1, <3>1 DEF Receive, At, ConnectionInv, TypeOK
    <3>3. Head(inq).kind = "preamble"
      BY <3>2 DEF OrderInv, AckedFirst, PreambleIsNext
    <3>4. buffer' # << >> /\ Head(buffer') = Head(inq)
      <4>1. Len(buffer') = n /\ n > 0 /\ buffer'[1] = inq[1]
        BY <3>1, <3>2
      <4>2. QED
        BY <4>1, <3>1, <3>2
    <3>5. PreambleIsNext'
      BY <3>3, <3>4 DEF PreambleIsNext
    <3>6. QED
      BY <2>1, <3>5, <1>1 DEF OrderInv, AckedFirst, Receive, wireVars
  <2>2. CASE HandleRequest \/ HandleReply
    BY <2>2, HandledAfterAck DEF HandleRequest, HandleReply, Consume, At, Pending
  <2>3. CASE Defer \/ InvokeReturns \/ InvokeThrows \/ CallbackReturns \/ CallbackThrows
    BY <2>3
    DEF OrderInv, AckedFirst, Defer, InvokeReturns, InvokeThrows, CallbackReturns,
        CallbackThrows, At
  <2>4. CASE LeaveLoop \/ Unbind \/ Free
    BY <2>4, <1>1
    DEF OrderInv, AckedFirst, LeaveLoop, Unbind, Free, wireVars
  <2>5. QED
    BY <2>1, <2>2, <2>3, <2>4
<1>7. RepliesFollowRequests'
  <2>1. CASE Receive
    <3>1. PICK n \in 1..Len(inq) : /\ buffer' = SubSeq(inq, 1, n)
                                   /\ inq' = SubSeq(inq, n + 1, Len(inq))
      BY <2>1 DEF Receive
    <3>2. inq \in Seq(Incoming)
      BY DEF ConnectionInv, TypeOK
    <3>3. \A i \in 1..Len(buffer') : i \in 1..Len(inq) /\ buffer'[i] = inq[i]
      BY <3>1, <3>2
    <3>4. \A i \in 1..Len(inq') : n + i \in 1..Len(inq) /\ inq'[i] = inq[n + i]
      BY <3>1, <3>2
    <3>5. ran' = ran
      BY <2>1 DEF Receive, callVars
    <3>6. QED
      BY <3>3, <3>4, <3>5, <1>2 DEF OrderInv, RepliesFollowRequests
  <2>2. CASE HandleRequest \/ HandleReply
    <3>1. buffer' = Tail(buffer) /\ buffer # << >> /\ inq' = inq
      BY <2>2 DEF HandleRequest, HandleReply, Pending, Consume, peerVars
    <3>2. \A i \in 1..Len(buffer') : i + 1 \in 1..Len(buffer) /\ buffer'[i] = buffer[i + 1]
      BY <3>1 DEF ConnectionInv, TypeOK
    <3>3. \A k \in ran' : Sent(Req(k))
      <4>1. CASE HandleRequest
        BY <4>1 DEF OrderInv, RepliesFollowRequests, HandleRequest, callVars
      <4>2. CASE HandleReply
        <5>1. 1 \in 1..Len(buffer) /\ buffer[1] = Head(buffer) /\ Head(buffer).kind = "reply"
          BY <3>1, <4>2 DEF HandleReply, Pending, ConnectionInv, TypeOK
        <5>2. Sent(Req(Head(buffer).of))
          BY <5>1 DEF OrderInv, RepliesFollowRequests
        <5>3. QED
          BY <4>2, <5>2 DEF OrderInv, RepliesFollowRequests, HandleReply
      <4>3. QED
        BY <2>2, <4>1, <4>2
    <3>4. QED
      BY <3>1, <3>2, <3>3, <1>2 DEF OrderInv, RepliesFollowRequests
  <2>3. CASE ~(Receive \/ HandleRequest \/ HandleReply)
    <3>1. UNCHANGED <<buffer, inq, ran>>
      BY <2>3
      DEF LeaveLoop, Defer, InvokeReturns, InvokeThrows, CallbackReturns,
          CallbackThrows, Unbind, Free, peerVars, callVars
    <3>2. QED
      BY <3>1, <1>2 DEF OrderInv, RepliesFollowRequests
  <2>4. QED
    BY <2>1, <2>2, <2>3
<1>8. QED
  BY <1>3, <1>5, <1>6, <1>7 DEF OrderInv

(* Steps of the connection's thread that start a write, and End. *)
LEMMA ConnWritesKeepOrder ==
    ASSUME ConnectionInv, OrderInv,
           ProcessHeader \/ ProcessEnd \/ Respond \/ SendFault \/ EndConnection
    PROVE  OrderInv'
<1>1. UNCHANGED <<out, call, thread, ran, peer, inq, held>> /\ ConnFree
  BY DEF ProcessHeader, ProcessEnd, Respond, SendFault, EndConnection, callVars, peerVars,
         Consume, At, Wire!StartByte, Wire!StartXml, Wire!Shutdown, wireVars
<1>2. (Acked <=> Acked') /\ (EndSent <=> EndSent') /\ \A m : Sent(m) <=> Sent(m)'
  BY <1>1 DEF Acked, EndSent, Sent
<1>3. CallerWaits'
  BY <1>1 DEF OrderInv, ConnFree, CallerWaits
<1>4. /\ \A t \in Thread \ {Conn} : at'[t] = at[t] /\ rec'[t] = rec[t]
      /\ rec'[Conn] \in {rec[Conn], Ack, End, Resp(cur), Fault(cur)}
  BY Known
  DEF ConnectionInv, TypeOK, Wire!TypeOK, ProcessHeader, ProcessEnd, Respond, SendFault,
      EndConnection, Wire!StartByte, Wire!StartXml, Wire!Shutdown, wireVars
<1>5. ConnRecord'
  <2>1. CASE ProcessHeader \/ ProcessEnd
    BY <2>1, Known
    DEF ConnectionInv, TypeOK, Wire!TypeOK, ConnRecord, ProcessHeader, ProcessEnd, Consume,
        Wire!StartByte
  <2>2. CASE Respond \/ SendFault \/ EndConnection
    BY <2>2 DEF ConnRecord, Respond, SendFault, EndConnection
  <2>3. QED
    BY <2>1, <2>2
<1>6. CallRecord'
  <2>1. \A k \in Call : call[k] = "sending" => thread[k] \in Thread \ {Conn}
    BY <1>1, Known, NamesAssumption DEF ConnectionInv, TypeOK, ConnFree, Active
  <2>2. \A k \in Call, t \in Thread : rec'[t] = Req(k) => rec[t] = Req(k)
    BY <1>4, Distinct, RequestsAreEnvelopes
  <2>3. \A t \in Call : t \in Thread \ {Conn}
    BY Known, NamesAssumption
  <2>4. QED
    BY <1>1, <1>4, <2>1, <2>2, <2>3 DEF OrderInv, CallRecord
<1>7. AckedFirst'
  <2> SUFFICES ASSUME ~Acked PROVE AckedFirst'
    BY <1>2 DEF AckedFirst
  <2>1. CASE ProcessHeader
    <3>1. \A r \in Request : r \in Thread \ {Conn}
      BY Known, NamesAssumption
    <3>2. QED
      BY <2>1, <3>1, <1>1, <1>4 DEF OrderInv, AckedFirst, ProcessHeader, Consume
  <2>2. CASE ProcessEnd
    BY <2>2, HandledAfterAck DEF ProcessEnd, Consume, At, Pending
  <2>3. CASE Respond \/ SendFault \/ EndConnection
    BY <2>3 DEF OrderInv, AckedFirst, Respond, SendFault, EndConnection, At
  <2>4. QED
    BY <2>1, <2>2, <2>3
<1>8. RepliesFollowRequests'
  <2>1. \A i \in 1..Len(buffer') : \E j \in 1..Len(buffer) : buffer'[i] = buffer[j]
    <3>1. CASE buffer' = buffer
      BY <3>1
    <3>2. CASE buffer # << >> /\ buffer' = Tail(buffer)
      <4>1. \A i \in 1..Len(buffer') : i + 1 \in 1..Len(buffer) /\ buffer'[i] = buffer[i + 1]
        BY <3>2 DEF ConnectionInv, TypeOK
      <4>2. QED
        BY <4>1
    <3>3. QED
      BY <3>1, <3>2
      DEF ProcessHeader, ProcessEnd, Respond, SendFault, EndConnection, Consume, Pending
  <2>2. QED
    BY <1>1, <1>2, <2>1 DEF OrderInv, RepliesFollowRequests
<1>9. SentByReturned' /\ OnlyCallsPrecedeAck'
  BY <1>1, <1>2 DEF OrderInv, SentByReturned, OnlyCallsPrecedeAck
<1>10. ShutAfterEndRecord'
  <2>1. CASE EndConnection
    BY <2>1, <1>2 DEF OrderInv, ConnRecord, ShutAfterEndRecord, EndConnection, At
  <2>2. CASE ~EndConnection
    BY <2>2, <1>2
    DEF OrderInv, ShutAfterEndRecord, ProcessHeader, ProcessEnd, Respond, SendFault,
        Wire!StartByte, Wire!StartXml
  <2>3. QED
    BY <2>1, <2>2
<1>11. QED
  BY <1>3, <1>5, <1>6, <1>7, <1>8, <1>9, <1>10 DEF OrderInv

(* Steps of a call up to its write. *)
LEMMA CallStepsKeepOrder ==
    ASSUME ConnectionInv, OrderInv, NEW k \in Call,
           CallMethod(k) \/ LockBindings(k) \/ BeginRegister(k) \/ SendRequest(k)
    PROVE  OrderInv'
<1>1. UNCHANGED <<out, socket, connVars, ran, peerVars>>
  BY DEF CallMethod, LockBindings, BeginRegister, SendRequest, wireVars, Wire!StartXml
<1>2. (Acked <=> Acked') /\ (EndSent <=> EndSent') /\ \A m : Sent(m) <=> Sent(m)'
  BY <1>1 DEF Acked, EndSent, Sent
<1>3. /\ \A j \in Call \ {k} : call'[j] = call[j] /\ thread'[j] = thread[j]
      /\ call[k] \notin {"sending", "sent"} /\ call'[k] \notin {"none", "sent"}
      /\ ~CallMethod(k) => thread' = thread /\ call[k] \in Active
      /\ call'[k] = "sending" => SendRequest(k)
  BY DEF ConnectionInv, TypeOK, CallMethod, LockBindings, BeginRegister, SendRequest, Active
<1>4. SendRequest(k) =>
          /\ at[thread[k]] = "idle" /\ thread[k] \in Thread
          /\ at' = [at EXCEPT ![thread[k]] = "lockXml"]
          /\ rec' = [rec EXCEPT ![thread[k]] = Req(k)]
          /\ thread' = thread /\ call' = [call EXCEPT ![k] = "sending"]
  BY Known DEF ConnectionInv, TypeOK, SendRequest, Wire!StartXml
<1>5. ~SendRequest(k) => UNCHANGED <<at, rec>>
  BY DEF CallMethod, LockBindings, BeginRegister, wireVars
<1>6. CallerWaits'
  <2>1. CASE CallMethod(k)
    <3>1. thread'[k] = Conn => connPc \in {"invoke", "responded", "callback"}
      BY <2>1, NamesAssumption DEF ConnectionInv, TypeOK, OrderInv, CallerWaits, CallMethod
    <3>2. call'[k] # "none"
      BY <2>1 DEF ConnectionInv, TypeOK, CallMethod
    <3>3. QED
      BY <3>1, <3>2, <1>1, <1>3 DEF OrderInv, CallerWaits, connVars
  <2>2. CASE ~CallMethod(k)
    BY <2>2, <1>1, <1>3 DEF OrderInv, CallerWaits, connVars
  <2>3. QED
    BY <2>1, <2>2
<1>7. ConnRecord'
  <2>1. connPc \in {"acking", "ending"} => at[Conn] # "idle"
    BY DEF OrderInv, ConnRecord
  <2>2. connPc \in {"acking", "ending"} => at'[Conn] = at[Conn] /\ rec'[Conn] = rec[Conn]
    BY <2>1, <1>4, <1>5, Known DEF ConnectionInv, TypeOK, Wire!TypeOK
  <2>3. QED
    BY <2>2, <1>1, <1>2 DEF OrderInv, ConnRecord, connVars
<1>8. CallRecord'
  <2>1. CASE SendRequest(k)
    <3>1. \A j \in Call : call'[j] = "sending" =>
             at'[thread[j]] \in {"lockXml", "header", "body"} /\ rec'[thread[j]] = Req(j)
      BY <2>1, <1>3, <1>4, Known DEF ConnectionInv, TypeOK, Wire!TypeOK, OrderInv, CallRecord
    <3>2. \A j \in Call, t \in Thread : rec'[t] = Req(j) => call'[j] = "sending" /\ thread[j] = t
      BY <2>1, <1>3, <1>4, Distinct
      DEF ConnectionInv, TypeOK, Wire!TypeOK, OrderInv, CallRecord
    <3>3. \A t \in Call : rec'[t] \in {None} \cup {Req(j) : j \in Call}
      BY <2>1, <1>4, Known DEF ConnectionInv, TypeOK, Wire!TypeOK, OrderInv, CallRecord
    <3>4. QED
      BY <2>1, <3>1, <3>2, <3>3, <1>4 DEF CallRecord
  <2>2. CASE ~SendRequest(k)
    BY <2>2, <1>3, <1>5 DEF OrderInv, CallRecord
  <2>3. QED
    BY <2>1, <2>2
<1>9. AckedFirst'
  <2>1. \A r \in Request : at[r] = "idle" => at'[r] = "idle"
    BY <1>4, <1>5, Known, NamesAssumption DEF ConnectionInv, TypeOK, Wire!TypeOK
  <2>2. QED
    BY <2>1, <1>1, <1>2 DEF OrderInv, AckedFirst, PreambleIsNext, connVars, peerVars
<1>10. SentByReturned'
  BY <1>2, <1>3 DEF OrderInv, SentByReturned
<1>11. RepliesFollowRequests' /\ OnlyCallsPrecedeAck' /\ ShutAfterEndRecord'
  BY <1>1, <1>2
  DEF OrderInv, RepliesFollowRequests, OnlyCallsPrecedeAck, ShutAfterEndRecord, connVars,
      peerVars
<1>12. QED
  BY <1>6, <1>7, <1>8, <1>9, <1>10, <1>11 DEF OrderInv

(* What a thread that is inside a write writes: the request of the one     *)
(* call it makes, or no request.                                           *)
LEMMA WriterOf ==
    ASSUME ConnectionInv, OrderInv, NEW t \in Thread
    PROVE  /\ \A k \in CallOn(t) : rec[t] = Req(k) /\ CallOn(t) = {k}
           /\ \A k \in Call : rec[t] = Req(k) => k \in CallOn(t)
           /\ CallOn(t) # {} => t \in Call \cup {Conn}
<1>1. \A k \in CallOn(t) : rec[t] = Req(k)
  BY DEF OrderInv, CallRecord, CallOn
<1>2. \A k, j \in CallOn(t) : k = j
  BY <1>1, Distinct
<1>3. \A k \in Call : rec[t] = Req(k) => k \in CallOn(t)
  BY DEF OrderInv, CallRecord, CallOn
<1>4. CallOn(t) # {} => t \in Call \cup {Conn}
  BY DEF ConnectionInv, TypeOK, CallOn
<1>5. QED
  BY <1>1, <1>2, <1>3, <1>4

(* Before the acknowledgement only calls write, and the acknowledgement.   *)
LEMMA WritersBeforeAck ==
    ASSUME ConnectionInv, OrderInv, ~Acked, NEW t \in Thread, at[t] # "idle"
    PROVE  \/ \E k \in Call : rec[t] = Req(k)
           \/ t = Conn /\ connPc = "acking" /\ CallOn(t) = {}
<1>1. t \notin Request
  BY DEF OrderInv, AckedFirst
<1>2. CASE t \in Call
  <2>1. rec[t] \in Envelope \cup {Ack, End}
    BY <1>2 DEF ConnectionInv, Wire!WireInv, Wire!TypeOK, Wire!KindMatches, Wire!Place
  <2>2. rec[t] # None
    BY <2>1, RecordsAssumption
  <2>3. QED
    BY <1>2, <2>2 DEF OrderInv, CallRecord
<1>3. CASE t = Conn
  <2>1. CASE CallOn(Conn) = {}
    BY <1>3, <2>1 DEF ConnectionInv, ConnWrites, AfterWrite, OrderInv, AckedFirst
  <2>2. CASE CallOn(Conn) # {}
    BY <1>3, <2>2, WriterOf DEF CallOn
  <2>3. QED
    BY <2>1, <2>2
<1>4. QED
  BY <1>1, <1>2, <1>3 DEF Thread

(* What a step of a write does, as far as the order of the output is       *)
(* concerned: the thread is still inside the write ...                     *)
GoesOn(t) ==
    /\ at'[t] \in (IF at[t] \in {"lockByte", "byte"} THEN {"byte"} ELSE {"header", "body"})
    /\ rec'[t] = rec[t] /\ UNCHANGED <<connPc, call>>
    /\ \/ out' = out
       \/ at[t] = "header" /\ out' = Append(out, Wire!Frame!Header(rec[t]))

(* ... or it leaves it, with the rest of the record written or not, and    *)
(* the call it makes is over, or it goes where its code goes.              *)
Leaves(t, pc, next) ==
    /\ at'[t] = "idle" /\ rec'[t] = None
    /\ call' = [k \in Call |-> IF k \in CallOn(t) THEN pc ELSE call[k]]
    /\ connPc' = IF t = Conn /\ CallOn(t) = {} THEN next[connPc] ELSE connPc

Ends(t) ==
    /\ Leaves(t, "sent", AfterWrite)
    /\ \/ at[t] = "body" /\ out' = Append(out, Wire!Frame!Body(rec[t]))
       \/ at[t] = "byte" /\ out' = Append(out, Wire!Frame!Byte(rec[t]))

Fails(t) == Leaves(t, "threw", AfterThrow) /\ out' = out

LEMMA WriteCases ==
    ASSUME ConnectionInv, OrderInv, NEW t \in Thread, WriteStep(t)
    PROVE  /\ at[t] # "idle"
           /\ \A u \in Thread \ {t} : at'[u] = at[u] /\ rec'[u] = rec[u]
           /\ GoesOn(t) \/ Ends(t) \/ Fails(t)
<1> USE DEF ConnectionInv, TypeOK, Wire!TypeOK
<1>1. CASE WriteGoesOn(t)
  BY <1>1 DEF WriteGoesOn, Wire!Acquire, Wire!WriteHeader, connVars, callVars, GoesOn
<1>2. CallOn(t) # {} => t \in Call \cup {Conn}
  BY WriterOf
<1>3. CASE WriteEnds(t)
  <2>1. /\ at[t] \in {"body", "byte"} /\ at'[t] = "idle" /\ rec'[t] = None
        /\ \A u \in Thread \ {t} : at'[u] = at[u] /\ rec'[u] = rec[u]
        /\ \/ at[t] = "body" /\ out' = Append(out, Wire!Frame!Body(rec[t]))
           \/ at[t] = "byte" /\ out' = Append(out, Wire!Frame!Byte(rec[t]))
    BY <1>3 DEF WriteEnds, Wire!WriteBody, Wire!WriteByte, Wire!Release
  <2>2. CASE CallEnds(t, "sent")
    BY <2>1, <2>2, <1>2, NamesAssumption DEF CallEnds, Ends, Leaves
  <2>3. CASE ConnGoes(t, AfterWrite)
    BY <2>1, <2>3 DEF ConnGoes, callVars, Ends, Leaves
  <2>4. CASE LateEnds(t)
    BY <1>2, <2>1, <2>4, NamesAssumption DEF LateEnds, callVars, Ends, Leaves
  <2>5. QED
    BY <1>3, <2>2, <2>3, <2>4 DEF WriteEnds
<1>4. CASE WriteFails(t)
  <2>1. /\ at[t] # "idle" /\ at'[t] = "idle" /\ rec'[t] = None /\ out' = out
        /\ \A u \in Thread \ {t} : at'[u] = at[u] /\ rec'[u] = rec[u]
    BY <1>4 DEF WriteFails, Wire!WriteThrows, Wire!Release
  <2>2. CASE CallEnds(t, "threw")
    BY <2>1, <2>2, <1>2, NamesAssumption DEF CallEnds, Fails, Leaves
  <2>3. CASE ConnGoes(t, AfterThrow)
    BY <2>1, <2>3 DEF ConnGoes, callVars, Fails, Leaves
  <2>4. CASE LateEnds(t)
    BY <1>2, <2>1, <2>4, NamesAssumption DEF LateEnds, callVars, Fails, Leaves
  <2>5. QED
    BY <1>4, <2>2, <2>3, <2>4 DEF WriteFails
<1>5. QED
  BY <1>1, <1>3, <1>4 DEF WriteStep

(* Writes: what they add to the output, and where they leave their thread. *)
LEMMA WriteStepsKeepOrder ==
    ASSUME ConnectionInv, OrderInv, NEW t \in Thread, WriteStep(t)
    PROVE  OrderInv'
<1>1. UNCHANGED <<cur, buffer, stop, bound, held, peerVars, thread, ran, socket>>
  BY DEF WriteStep, WriteGoesOn, WriteEnds, WriteFails, CallEnds, ConnGoes, LateEnds,
         connVars, callVars, Wire!Acquire, Wire!WriteHeader, Wire!WriteBody, Wire!WriteByte,
         Wire!WriteThrows
<1>2. /\ at[t] # "idle"
      /\ \A u \in Thread \ {t} : at'[u] = at[u] /\ rec'[u] = rec[u]
      /\ GoesOn(t) \/ Ends(t) \/ Fails(t)
  BY WriteCases
<1>3. /\ out' = out \/ \E e : e.of = rec[t] /\ out' = Append(out, e)
      /\ Acked => Acked'
      /\ EndSent => EndSent'
      /\ \A k \in Call : Sent(Req(k)) => Sent(Req(k))'
  <2>1. out' = out \/ \E e : e.of = rec[t] /\ out' = Append(out, e)
    BY WritesAppend
  <2>2. QED
    BY <2>1, Written DEF Sent
<1>4. connPc' # connPc => t = Conn /\ CallOn(t) = {} /\ connPc \in DOMAIN AfterWrite
  BY <1>2 DEF GoesOn, Ends, Fails, Leaves, ConnectionInv, ConnWrites
<1>5. /\ connPc' # connPc => connPc' \in {"poll", "closing", "responded", "stopped", "thrown"}
      /\ connPc' # connPc /\ connPc' = "closing" => connPc = "ending"
      /\ connPc' # connPc /\ connPc' = "poll" => connPc \in {"acking", "faulting"} /\ Ends(t)
      /\ connPc' # connPc /\ connPc' \in {"responded", "thrown"} => connPc = "responding"
  BY <1>2, <1>4 DEF GoesOn, Ends, Fails, Leaves, AfterWrite, AfterThrow
<1>6. \A k \in Call : /\ call'[k] \in Active => call'[k] = call[k]
                      /\ call'[k] # call[k] => call[k] = "sending" /\ call'[k] \in {"sent", "threw"}
                      /\ call'[k] = "none" => call[k] = "none"
  BY <1>2 DEF GoesOn, Ends, Fails, Leaves, CallOn, Active, ConnectionInv, TypeOK
<1>7. CallerWaits'
  <2>1. connPc' # connPc => connPc \notin {"invoke", "responded", "callback"}
    BY <1>4 DEF AfterWrite
  <2>2. QED
    BY <1>1, <1>6, <2>1 DEF OrderInv, CallerWaits
<1>8. CallOn(Conn) # {} => connPc \in {"invoke", "responded", "callback"}
  BY DEF OrderInv, CallerWaits, CallOn, Active
<1>9. ConnRecord'
  <2>1. ASSUME NEW x \in {"acking", "ending"}, connPc' = x
        PROVE  at'[Conn] \in {"lockByte", "byte"} /\ rec'[Conn] = rec[Conn] /\ connPc = x
    <3>1. connPc = x /\ CallOn(Conn) = {} /\ at[Conn] \in {"lockByte", "byte"}
      BY <1>5, <1>8, <2>1 DEF OrderInv, ConnRecord
    <3>2. CASE t = Conn
      BY <1>2, <2>1, <3>1, <3>2
      DEF GoesOn, Ends, Fails, Leaves, AfterWrite, AfterThrow
    <3>3. CASE t # Conn
      BY <1>2, <3>1, <3>3, Known
    <3>4. QED
      BY <3>2, <3>3
  <2>2. ASSUME connPc' = "closing" PROVE EndSent'
    <3>1. CASE connPc = "closing"
      BY <3>1, <1>3 DEF OrderInv, ConnRecord
    <3>2. CASE connPc = "ending"
      <4>1. t = Conn /\ CallOn(t) = {} /\ rec[t] = End /\ at[t] \in {"lockByte", "byte"}
        BY <2>2, <3>2, <1>4 DEF OrderInv, ConnRecord
      <4>2. out' = Append(out, Wire!Frame!Byte(End))
        BY <2>2, <3>2, <4>1, <1>2 DEF GoesOn, Ends, Fails, Leaves, AfterThrow
      <4>3. QED
        BY <4>2, OnlyAppended DEF EndSent
    <3>3. QED
      BY <2>2, <3>1, <3>2, <1>5
  <2>3. QED
    BY <2>1, <2>2 DEF OrderInv, ConnRecord
<1>10. CallRecord'
  <2>1. ASSUME NEW k \in Call, call'[k] = "sending"
        PROVE  /\ at'[thread[k]] \in {"lockXml", "header", "body"}
               /\ rec'[thread[k]] = Req(k)
    <3>1. /\ call[k] = "sending" /\ thread[k] \in Thread
          /\ at[thread[k]] \in {"lockXml", "header", "body"} /\ rec[thread[k]] = Req(k)
      BY <2>1, <1>6, Known DEF OrderInv, CallRecord, Active, ConnectionInv, TypeOK
    <3>2. CASE t = thread[k]
      <4>1. k \in CallOn(t)
        BY <3>1, <3>2 DEF CallOn
      <4>2. QED
        BY <1>2, <2>1, <3>1, <3>2, <4>1 DEF GoesOn, Ends, Fails, Leaves
    <3>3. CASE t # thread[k]
      BY <1>2, <3>1, <3>3
    <3>4. QED
      BY <3>2, <3>3
  <2>2. ASSUME NEW k \in Call, NEW u \in Thread, rec'[u] = Req(k)
        PROVE  call'[k] = "sending" /\ thread[k] = u
    <3>1. rec[u] = Req(k) /\ (u = t => GoesOn(t))
      BY <1>2, <2>2, RequestsAreEnvelopes DEF GoesOn, Ends, Fails, Leaves
    <3>2. call[k] = "sending" /\ thread[k] = u
      BY <3>1 DEF OrderInv, CallRecord
    <3>3. QED
      BY <1>2, <3>1, <3>2 DEF GoesOn, Ends, Fails, Leaves, CallOn
  <2>3. ASSUME NEW u \in Call
        PROVE  rec'[u] \in {None} \cup {Req(k) : k \in Call}
    BY <1>2, Known DEF GoesOn, Ends, Fails, Leaves, OrderInv, CallRecord
  <2>4. QED
    BY <1>1, <2>1, <2>2, <2>3 DEF CallRecord
<1>11. AckedFirst'
  <2> SUFFICES ASSUME ~Acked, ~Acked' PROVE AckedFirst'
    BY <1>3 DEF AckedFirst
  <2>1. connPc \in {"poll", "acking", "stopped", "unbound", "gone"}
    BY DEF OrderInv, AckedFirst
  <2>2. ASSUME connPc' # connPc PROVE connPc' = "stopped"
    <3>1. connPc = "acking" /\ t = Conn
      BY <2>1, <2>2, <1>4 DEF AfterWrite
    <3>2. rec[t] = Ack /\ at[t] \in {"lockByte", "byte"}
      BY <3>1 DEF OrderInv, ConnRecord
    <3>3. ~Ends(t)
      BY <3>1, <3>2, OnlyAppended DEF Ends, Acked
    <3>4. QED
      BY <2>1, <2>2, <3>1, <3>3, <1>5
  <2>3. \A r \in Request : at'[r] = "idle"
    BY <1>2, Known DEF OrderInv, AckedFirst
  <2>4. QED
    BY <1>1, <2>1, <2>2, <2>3 DEF OrderInv, AckedFirst, PreambleIsNext, peerVars
<1>12. SentByReturned'
  <2> SUFFICES ASSUME NEW k \in Call, Sent(Req(k))' PROVE call'[k] = "sent"
    BY DEF SentByReturned
  <2>1. CASE Sent(Req(k))
    BY <2>1, <1>6 DEF OrderInv, SentByReturned
  <2>2. CASE ~Sent(Req(k))
    <3>1. out' # out
      BY <2>2 DEF Sent
    <3>2. ASSUME NEW e, out' = Append(out, e) PROVE e = Wire!Frame!Body(Req(k))
      BY <2>2, <3>2, OnlyAppended DEF Sent
    <3>3. out' # Append(out, Wire!Frame!Header(rec[t])) /\ out' # Append(out, Wire!Frame!Byte(rec[t]))
      BY <3>2, Distinct
    <3>4. Ends(t) /\ out' = Append(out, Wire!Frame!Body(rec[t]))
      BY <1>2, <3>1, <3>3 DEF GoesOn, Ends, Fails
    <3>5. rec[t] = Req(k)
      BY <3>2, <3>4, Distinct
    <3>6. QED
      BY <3>4, <3>5, WriterOf DEF Ends, Leaves
  <2>3. QED
    BY <2>1, <2>2
<1>13. RepliesFollowRequests'
  BY <1>1, <1>3 DEF OrderInv, RepliesFollowRequests, ConnectionInv, TypeOK, Incoming, peerVars
<1>14. OnlyCallsPrecedeAck'
  <2> SUFFICES ASSUME ~Acked, ~Acked', NEW i \in 1..Len(out')
               PROVE  out'[i].of \in {Req(k) : k \in Call}
    BY <1>3 DEF OnlyCallsPrecedeAck
  <2>1. CASE out' = out
    BY <2>1 DEF OrderInv, OnlyCallsPrecedeAck
  <2>2. CASE out' # out
    <3>1. rec[t] \in {Req(k) : k \in Call}
      <4>1. CASE t = Conn /\ connPc = "acking"
        <5>1. rec[t] = Ack /\ at[t] \in {"lockByte", "byte"}
          BY <4>1 DEF OrderInv, ConnRecord
        <5>2. ~Ends(t)
          BY <5>1, OnlyAppended DEF Ends, Acked
        <5>3. at[t] = "byte" \/ at[t] = "lockByte"
          BY <5>1
        <5>4. QED
          BY <1>2, <2>2, <5>2, <5>3 DEF GoesOn, Fails
      <4>2. QED
        BY <4>1, <1>2, WritersBeforeAck
    <3>2. PICK e : e.of = rec[t] /\ out' = Append(out, e)
      BY <2>2, <1>3
    <3>3. QED
      BY <3>1, <3>2, OnlyAppended DEF OrderInv, OnlyCallsPrecedeAck
  <2>3. QED
    BY <2>1, <2>2
<1>15. ShutAfterEndRecord'
  BY <1>1, <1>3 DEF OrderInv, ShutAfterEndRecord
<1>16. QED
  BY <1>7, <1>9, <1>10, <1>11, <1>12, <1>13, <1>14, <1>15 DEF OrderInv

(* Late answers are to requests that were handled after the preamble; one  *)
(* that comes too late changes nothing here.                               *)
LEMMA LateStepsKeepOrder ==
    ASSUME ConnectionInv, OrderInv, NEW r \in Request, RespondLate(r) \/ UseDestroyed(r)
    PROVE  OrderInv'
<1>1. UNCHANGED <<out, socket, connPc, buffer, callVars, peerVars>>
  BY DEF RespondLate, UseDestroyed, Wire!StartXml, wireVars, connVars
<1>2. (Acked <=> Acked') /\ (EndSent <=> EndSent') /\ \A m : Sent(m) <=> Sent(m)'
  BY <1>1 DEF Acked, EndSent, Sent
<1>3. \/ UNCHANGED <<at, rec, held>>
      \/ /\ r \in held /\ at[r] = "idle"
         /\ at' = [at EXCEPT ![r] = "lockXml"] /\ rec' = [rec EXCEPT ![r] = Resp(r)]
  BY DEF RespondLate, UseDestroyed, Wire!StartXml, wireVars, connVars
<1>4. r \in Thread \ (Call \cup {Conn})
  BY Known, NamesAssumption
<1>5. ConnRecord'
  <2>1. at'[Conn] = at[Conn] /\ rec'[Conn] = rec[Conn]
    BY <1>3, <1>4, Known DEF ConnectionInv, TypeOK, Wire!TypeOK
  <2>2. QED
    BY <2>1, <1>1, <1>2 DEF OrderInv, ConnRecord
<1>6. CallRecord'
  <2>1. \A k \in Call : thread[k] \in Thread \ {r} /\ k \in Thread \ {r}
    BY <1>4, Known DEF ConnectionInv, TypeOK
  <2>2. \A t \in Thread \ {r} : at'[t] = at[t] /\ rec'[t] = rec[t]
    BY <1>3 DEF ConnectionInv, TypeOK, Wire!TypeOK
  <2>3. \A k \in Call, t \in Thread : rec'[t] = Req(k) => rec[t] = Req(k)
    BY <1>3, Distinct DEF ConnectionInv, TypeOK, Wire!TypeOK
  <2>4. QED
    BY <1>1, <2>1, <2>2, <2>3 DEF OrderInv, CallRecord, callVars
<1>7. AckedFirst'
  <2>1. CASE Acked
    BY <2>1, <1>2 DEF AckedFirst
  <2>2. CASE ~Acked
    <3>1. held = {} /\ UNCHANGED <<at, held>>
      BY <2>2, <1>3 DEF OrderInv, AckedFirst
    <3>2. QED
      BY <3>1, <2>2, <1>1 DEF OrderInv, AckedFirst, PreambleIsNext, peerVars
  <2>3. QED
    BY <2>1, <2>2
<1>8. CallerWaits' /\ SentByReturned' /\ RepliesFollowRequests' /\ OnlyCallsPrecedeAck'
      /\ ShutAfterEndRecord'
  BY <1>1, <1>2
  DEF OrderInv, CallerWaits, SentByReturned, RepliesFollowRequests, OnlyCallsPrecedeAck,
      ShutAfterEndRecord, callVars, peerVars
<1>9. QED
  BY <1>5, <1>6, <1>7, <1>8 DEF OrderInv

(* What the peer may send as things are. *)
Comes(e) ==
    /\ inq' = Append(inq, e)
    /\ peer = "new" => e.kind = "preamble"
    /\ e.kind = "reply" => Sent(Req(e.of))

(* The peer introduces itself first and replies only to what it has got.   *)
LEMMA PeerStepsKeepOrder ==
    ASSUME ConnectionInv, OrderInv, PeerStep
    PROVE  OrderInv'
<1>1. /\ UNCHANGED <<out, at, rec, connVars, callVars>>
      /\ socket' \in {socket, "lost"}
  BY DEF PeerStep, PeerPreamble, PeerEnd, PeerRequest, PeerReply, PeerSends, Break,
         Wire!Lose, wireVars
<1>2. (Acked <=> Acked') /\ (EndSent <=> EndSent') /\ \A m : Sent(m) <=> Sent(m)'
  BY <1>1 DEF Acked, EndSent, Sent
<1>3. \/ UNCHANGED <<peer, inq>>
      \/ \E e : Comes(e)
  <2>1. CASE PeerPreamble
    <3>1. Comes([kind |-> "preamble"])
      BY <2>1 DEF PeerPreamble, PeerSends, Comes
    <3>2. QED
      BY <3>1
  <2>2. CASE PeerEnd
    <3>1. Comes([kind |-> "end"])
      BY <2>2 DEF PeerEnd, PeerSends, Comes
    <3>2. QED
      BY <3>1
  <2>3. ASSUME NEW r \in Request, PeerRequest(r) PROVE \E e : Comes(e)
    <3>1. Comes([kind |-> "request", of |-> r])
      BY <2>3 DEF PeerRequest, PeerSends, Comes
    <3>2. QED
      BY <3>1
  <2>4. ASSUME NEW k \in Call, PeerReply(k) PROVE \E e : Comes(e)
    <3>1. Comes([kind |-> "reply", of |-> k])
      BY <2>4 DEF PeerReply, PeerSends, Comes
    <3>2. QED
      BY <3>1
  <2>5. CASE Break
    BY <2>5 DEF Break, peerVars
  <2>6. QED
    BY <2>1, <2>2, <2>3, <2>4, <2>5 DEF PeerStep
<1>4. ASSUME NEW e, inq' = Append(inq, e)
      PROVE  /\ \A i \in 1..Len(inq') : (i \in 1..Len(inq) /\ inq'[i] = inq[i]) \/ inq'[i] = e
             /\ inq' # << >>
             /\ inq # << >> => Head(inq') = Head(inq)
             /\ inq = << >> => Head(inq') = e
  BY <1>4 DEF ConnectionInv, TypeOK
<1>5. AckedFirst'
  <2>1. PreambleIsNext => PreambleIsNext'
    <3>1. CASE UNCHANGED <<peer, inq>>
      BY <3>1, <1>1 DEF PreambleIsNext, connVars
    <3>2. CASE ~UNCHANGED <<peer, inq>>
      <4>1. PICK e : Comes(e)
        BY <3>2, <1>3
      <4>2. /\ inq' # << >>
            /\ inq # << >> => Head(inq') = Head(inq)
            /\ inq = << >> => Head(inq') = e
        BY <4>1, <1>4 DEF Comes
      <4>3. QED
        BY <4>1, <4>2, <1>1 DEF Comes, PreambleIsNext, connVars
    <3>3. QED
      BY <3>1, <3>2
  <2>2. QED
    BY <2>1, <1>1, <1>2 DEF OrderInv, AckedFirst, connVars
<1>6. RepliesFollowRequests'
  <2>1. \A i \in 1..Len(inq') : inq'[i].kind = "reply" => Sent(Req(inq'[i].of))
    <3>1. CASE UNCHANGED <<peer, inq>>
      BY <3>1 DEF OrderInv, RepliesFollowRequests
    <3>2. CASE ~UNCHANGED <<peer, inq>>
      <4>1. PICK e : Comes(e)
        BY <3>2, <1>3
      <4>2. \A i \in 1..Len(inq') : (i \in 1..Len(inq) /\ inq'[i] = inq[i]) \/ inq'[i] = e
        BY <4>1, <1>4 DEF Comes
      <4>3. QED
        BY <4>1, <4>2 DEF Comes, OrderInv, RepliesFollowRequests
    <3>3. QED
      BY <3>1, <3>2
  <2>2. QED
    BY <2>1, <1>1, <1>2 DEF OrderInv, RepliesFollowRequests, connVars, callVars
<1>7. CallerWaits' /\ ConnRecord' /\ CallRecord' /\ SentByReturned' /\ OnlyCallsPrecedeAck'
      /\ ShutAfterEndRecord'
  BY <1>1, <1>2
  DEF OrderInv, CallerWaits, ConnRecord, CallRecord, SentByReturned, OnlyCallsPrecedeAck,
      ShutAfterEndRecord, connVars, callVars
<1>8. QED
  BY <1>5, <1>6, <1>7 DEF OrderInv

(* Steps that are not a step of the connection. *)
LEMMA StutterKeepsOrder == OrderInv /\ UNCHANGED vars => OrderInv'
  BY DEF OrderInv, CallerWaits, ConnRecord, EndSent, CallRecord, AckedFirst, Acked,
         PreambleIsNext, SentByReturned, Sent, RepliesFollowRequests, OnlyCallsPrecedeAck,
         ShutAfterEndRecord, vars, wireVars, connVars, callVars, peerVars

LEMMA ProtocolStepPreserves == ProtocolInv /\ [Next]_vars => ProtocolInv'
<1> SUFFICES ASSUME ConnectionInv, OrderInv, [Next]_vars PROVE OrderInv'
  BY StepPreserves DEF ProtocolInv
<1>1. QED
  BY QuietStepsKeepOrder, ConnWritesKeepOrder, CallStepsKeepOrder, WriteStepsKeepOrder,
     LateStepsKeepOrder, PeerStepsKeepOrder, StutterKeepsOrder
  DEF Next, ConnStep, CallStep

(* The invariant of one connection is inductive. *)
THEOREM ProtocolInvariant == Spec => []ProtocolInv
<1>1. Init => ProtocolInv
  BY InitEstablishes, OrderInitially DEF ProtocolInv
<1>2. QED
  BY <1>1, ProtocolStepPreserves, PTL DEF Spec

(* No response and no fault goes out before the preamble's                 *)
(* acknowledgement, whoever writes.                                        *)
THEOREM OnlyCallsBeforeAck == Spec => []OnlyCallsPrecedeAck
<1>1. ProtocolInv => OnlyCallsPrecedeAck
  BY DEF ProtocolInv, OrderInv
<1>2. QED
  BY <1>1, ProtocolInvariant, PTL

(* End hangs up only on a peer that has been sent the end record.          *)
THEOREM HangsUpAfterEndRecord == Spec => []ShutAfterEndRecord
<1>1. ProtocolInv => ShutAfterEndRecord
  BY DEF ProtocolInv, OrderInv
<1>2. QED
  BY <1>1, ProtocolInvariant, PTL

-----------------------------------------------------------------------------
(* RemoteCall: what each step is for the program that made the calls.      *)

(* The promise of RemoteCall moves one call, or none. *)
LEMMA CallMoves ==
    ASSUME NEW k \in Call, \A j \in Call \ {k} : Status(j)' = Status(j),
           \/ Status(k) = "idle" /\ Status(k)' = "pending"
           \/ Status(k) = "pending" /\ Status(k)' \in {"failed", "asked"}
           \/ Status(k) = "asked" /\ Status(k)' = "completed"
    PROVE  Remote!Next
<1> DEFINE status == [j \in Call |-> Status(j)]
<1>1. status' = [status EXCEPT ![k] = Status(k)'] /\ status[k] = Status(k)
  OBVIOUS
<1> HIDE DEF status
<1>2. \/ status[k] = "idle" /\ status' = [status EXCEPT ![k] = "pending"]
      \/ status[k] = "pending" /\ status' = [status EXCEPT ![k] = "failed"]
      \/ status[k] = "pending" /\ status' = [status EXCEPT ![k] = "asked"]
      \/ status[k] = "asked" /\ status' = [status EXCEPT ![k] = "completed"]
  BY <1>1
<1>3. \E j \in Call : Remote!Begin(j) \/ Remote!Fail(j) \/ Remote!Ask(j) \/ Remote!Complete(j)
  BY <1>2 DEF status, Remote!Begin, Remote!Fail, Remote!Ask, Remote!Complete, Remote!Goes
<1>4. QED
  BY <1>3 DEF Remote!Next

(* A call that nothing happens to. *)
LEMMA CallStays ==
    ASSUME NEW k \in Call, call'[k] = call[k], Sent(Req(k))' <=> Sent(Req(k)),
           k \in ran' <=> k \in ran
    PROVE  Status(k)' = Status(k)
  BY DEF Status

LEMMA CallsStay ==
    ASSUME UNCHANGED <<out, call, ran>>
    PROVE  \A k \in Call : Status(k)' = Status(k)
<1>1. \A m : Sent(m)' <=> Sent(m)
  BY DEF Sent
<1>2. QED
  BY <1>1, CallStays

(* A call that has not returned has not been asked, nor has it completed.  *)
LEMMA NotAskedBefore ==
    ASSUME OrderInv, NEW k \in Call, call[k] # "sent"
    PROVE  ~Sent(Req(k)) /\ k \notin ran
  BY DEF OrderInv, SentByReturned, RepliesFollowRequests

(* A callback runs for a reply, and so for a call that was asked. *)
LEMMA HandleReplyCompletes ==
    ASSUME ConnectionInv, OrderInv, HandleReply
    PROVE  Remote!Next \/ \A k \in Call : Status(k)' = Status(k)
<1>1. UNCHANGED <<out, call>> /\ \A m : Sent(m)' <=> Sent(m)
  BY DEF HandleReply, wireVars, Sent
<1>2. 1 \in 1..Len(buffer) /\ buffer[1] = Head(buffer) /\ Head(buffer).kind = "reply"
  BY DEF HandleReply, Pending, ConnectionInv, TypeOK
<1>3. Head(buffer).of \in callbacks /\ Sent(Req(Head(buffer).of))
  BY <1>2 DEF ConnectionInv, ReplyFindsItsCall, OrderInv, RepliesFollowRequests
<1>4. PICK k \in Call : k = Head(buffer).of
  BY <1>3 DEF ConnectionInv, TypeOK
<1>5. /\ Sent(Req(k)) /\ call[k] = "sent"
      /\ ran' = ran \/ ran' = ran \cup {k}
  BY <1>3, <1>4 DEF OrderInv, SentByReturned, HandleReply
<1>6. CASE ran' = ran
  BY <1>1, <1>6, CallsStay
<1>7. CASE ran' # ran
  <2>1. k \notin ran /\ ran' = ran \cup {k}
    BY <1>5, <1>7
  <2>2. \A j \in Call \ {k} : Status(j)' = Status(j)
    BY <1>1, <2>1, CallStays
  <2>3. Status(k) = "asked" /\ Status(k)' = "completed"
    BY <1>1, <1>5, <2>1 DEF Status
  <2>4. QED
    BY <2>2, <2>3, CallMoves
<1>8. QED
  BY <1>6, <1>7

(* A call begins, and is pending up to its write. *)
LEMMA CallStepsPend ==
    ASSUME ConnectionInv, OrderInv, NEW k \in Call,
           CallMethod(k) \/ LockBindings(k) \/ BeginRegister(k) \/ SendRequest(k)
    PROVE  Remote!Next \/ \A j \in Call : Status(j)' = Status(j)
<1>1. UNCHANGED <<out, ran>> /\ \A m : Sent(m)' <=> Sent(m)
  BY DEF CallMethod, LockBindings, BeginRegister, SendRequest, wireVars, Wire!StartXml, Sent
<1>2. /\ \A j \in Call \ {k} : call'[j] = call[j]
      /\ call[k] \in Active \cup {"none"} /\ call'[k] \in Active \cup {"elsewhere"}
      /\ call[k] = "none" => CallMethod(k)
  BY DEF ConnectionInv, TypeOK, CallMethod, LockBindings, BeginRegister, SendRequest, Active
<1>3. \A j \in Call \ {k} : Status(j)' = Status(j)
  BY <1>1, <1>2, CallStays
<1>4. ~Sent(Req(k)) /\ k \notin ran
  BY <1>2, NotAskedBefore DEF Active
<1>5. Status(k) = (IF call[k] = "none" THEN "idle" ELSE "pending") /\ Status(k)' = "pending"
  BY <1>1, <1>2, <1>4 DEF Status, Active
<1>6. CASE call[k] = "none"
  BY <1>3, <1>5, <1>6, CallMoves
<1>7. CASE call[k] # "none"
  BY <1>3, <1>5, <1>7
<1>8. QED
  BY <1>6, <1>7

(* A write asks the client when it ends, if it is a call's; the call fails *)
(* when the write does.                                                    *)
LEMMA WriteStepsAsk ==
    ASSUME ConnectionInv, OrderInv, NEW t \in Thread, WriteStep(t)
    PROVE  Remote!Next \/ \A k \in Call : Status(k)' = Status(k)
<1>1. ran' = ran
  BY DEF WriteStep, WriteGoesOn, WriteEnds, WriteFails, CallEnds, ConnGoes, LateEnds, callVars
<1>2. GoesOn(t) \/ Ends(t) \/ Fails(t)
  BY WriteCases
<1>3. /\ \A k \in Call : Sent(Req(k)) => Sent(Req(k))'
      /\ \A k \in Call : Sent(Req(k))' /\ ~Sent(Req(k)) => k \in CallOn(t) /\ Ends(t)
  <2>1. out' = out \/ \E e : e.of = rec[t] /\ out' = Append(out, e)
    BY WritesAppend
  <2>2. \A k \in Call : Sent(Req(k)) => Sent(Req(k))'
    BY <2>1, Written DEF Sent
  <2>3. ASSUME NEW k \in Call, Sent(Req(k))', ~Sent(Req(k)) PROVE k \in CallOn(t) /\ Ends(t)
    <3>1. out' # out
      BY <2>3 DEF Sent
    <3>2. ASSUME NEW e, out' = Append(out, e) PROVE e = Wire!Frame!Body(Req(k))
      BY <2>3, <3>2, OnlyAppended DEF Sent
    <3>3. out' # Append(out, Wire!Frame!Header(rec[t])) /\ out' # Append(out, Wire!Frame!Byte(rec[t]))
      BY <3>2, Distinct
    <3>4. Ends(t) /\ out' = Append(out, Wire!Frame!Body(rec[t]))
      BY <1>2, <3>1, <3>3 DEF GoesOn, Ends, Fails
    <3>5. rec[t] = Req(k)
      BY <3>2, <3>4, Distinct
    <3>6. QED
      BY <3>4, <3>5, WriterOf
  <2>4. QED
    BY <2>2, <2>3
<1>4. CASE CallOn(t) = {} \/ GoesOn(t)
  <2>1. call' = call
    BY <1>2, <1>4 DEF GoesOn, Ends, Fails, Leaves, ConnectionInv, TypeOK
  <2>2. \A k \in Call : Sent(Req(k))' <=> Sent(Req(k))
    BY <1>3, <1>4 DEF GoesOn, Ends, Leaves
  <2>3. QED
    BY <1>1, <2>1, <2>2, CallStays
<1>5. CASE CallOn(t) # {} /\ (Ends(t) \/ Fails(t))
  <2>1. PICK k \in Call : k \in CallOn(t)
    BY <1>5 DEF CallOn
  <2>2. CallOn(t) = {k} /\ rec[t] = Req(k) /\ call[k] = "sending" /\ thread[k] = t
    BY <2>1, WriterOf DEF CallOn
  <2>3. at[t] \in {"lockXml", "header", "body"}
    BY <2>2 DEF OrderInv, CallRecord
  <2>4. ~Sent(Req(k)) /\ k \notin ran /\ Status(k) = "pending"
    BY <2>2, NotAskedBefore DEF Status
  <2>5. \A j \in Call \ {k} : call'[j] = call[j]
    BY <1>2, <2>2 DEF GoesOn, Ends, Fails, Leaves
  <2>6. \A j \in Call \ {k} : Status(j)' = Status(j)
    BY <1>1, <1>3, <2>2, <2>5, CallStays
  <2>7. CASE Ends(t)
    <3>1. call'[k] = "sent" /\ out' = Append(out, Wire!Frame!Body(Req(k)))
      BY <2>2, <2>3, <2>7 DEF Ends, Leaves
    <3>2. Sent(Req(k))'
      BY <3>1, OnlyAppended DEF Sent
    <3>3. Status(k)' = "asked"
      BY <1>1, <2>4, <3>1, <3>2 DEF Status
    <3>4. QED
      BY <2>4, <2>6, <3>3, CallMoves
  <2>8. CASE Fails(t)
    <3>1. call'[k] = "threw"
      BY <2>2, <2>8 DEF Fails, Leaves
    <3>2. Status(k)' = "failed"
      BY <1>1, <2>4, <3>1 DEF Status
    <3>3. QED
      BY <2>4, <2>6, <3>2, CallMoves
  <2>9. QED
    BY <1>5, <2>7, <2>8
<1>6. QED
  BY <1>2, <1>4, <1>5

(* Every other step leaves the calls as they are. *)
LEMMA OtherStepsStay ==
    ASSUME [Next]_vars, ~HandleReply,
           \A k \in Call : ~(CallMethod(k) \/ LockBindings(k) \/ BeginRegister(k) \/ SendRequest(k)),
           \A t \in Thread : ~WriteStep(t)
    PROVE  UNCHANGED <<out, call, ran>>
<1>1. CASE ConnStep
  BY <1>1
  DEF ConnStep, Receive, LeaveLoop, ProcessHeader, ProcessEnd, EndConnection, HandleRequest,
      Respond, Defer, InvokeReturns, InvokeThrows, SendFault, CallbackReturns,
      CallbackThrows, Unbind, Free, wireVars, callVars, Wire!StartByte, Wire!StartXml,
      Wire!Shutdown
<1>2. CASE PeerStep
  BY <1>2
  DEF PeerStep, PeerPreamble, PeerEnd, PeerRequest, PeerReply, PeerSends, Break, Wire!Lose,
      wireVars, callVars
<1>3. CASE \E r \in Request : up /\ (RespondLate(r) \/ UseDestroyed(r))
  BY <1>3 DEF RespondLate, UseDestroyed, Wire!StartXml, wireVars, callVars
<1>4. CASE UNCHANGED vars
  BY <1>4 DEF vars, wireVars, callVars
<1>5. QED
  BY <1>1, <1>2, <1>3, <1>4 DEF Next, CallStep

(* The connection implements RemoteCall: whatever other threads, services, *)
(* the peer and the network do meanwhile, a call fails before its request  *)
(* is out and then never completes, or its callback runs once the peer has *)
(* its request.                                                            *)
THEOREM CallsAsPromised == Spec => ImplementsRemoteCall
<1>1. Init => Remote!Init
  <2> SUFFICES ASSUME Init PROVE Remote!Init
    OBVIOUS
  <2>1. ASSUME NEW k \in Call PROVE Status(k) = "idle"
    <3>1. ~Sent(Req(k)) /\ k \notin ran /\ call[k] = "none"
      BY DEF Init, Wire!Init, Sent
    <3>2. QED
      BY <3>1 DEF Status
  <2>2. QED
    BY <2>1 DEF Remote!Init
<1>2. ProtocolInv /\ [Next]_vars => [Remote!Next]_[k \in Call |-> Status(k)]
  <2> SUFFICES ASSUME ConnectionInv, OrderInv, [Next]_vars
               PROVE  Remote!Next \/ \A k \in Call : Status(k)' = Status(k)
    BY DEF ProtocolInv
  <2>1. CASE HandleReply
    BY <2>1, HandleReplyCompletes
  <2>2. CASE \E k \in Call : CallMethod(k) \/ LockBindings(k) \/ BeginRegister(k) \/ SendRequest(k)
    BY <2>2, CallStepsPend
  <2>3. CASE \E t \in Thread : WriteStep(t)
    BY <2>3, WriteStepsAsk
  <2>4. CASE ~HandleReply /\ (\A t \in Thread : ~WriteStep(t))
             /\ \A k \in Call : ~(CallMethod(k) \/ LockBindings(k) \/ BeginRegister(k) \/ SendRequest(k))
    BY <2>4, OtherStepsStay, CallsStay
  <2>5. QED
    BY <2>1, <2>2, <2>3, <2>4
<1>3. QED
  BY <1>1, <1>2, ProtocolInvariant, PTL DEF Spec, ImplementsRemoteCall, Remote!Spec
=============================================================================
