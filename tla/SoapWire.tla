------------------------------ MODULE SoapWire ------------------------------
(***************************************************************************)
(* The write side of one connection: SoapProtocol::SendXml, the one-byte   *)
(* writes of SoapTcpFrame::ProcessHeader and ProcessEnd, and               *)
(* SoapTcpServer::Write, GetLock and End.  Any thread may send: the        *)
(* connection's own thread, application threads inside a call, and service *)
(* implementations that answer later.  An envelope is two socket writes    *)
(* under m_writeLock; End shuts the socket down without taking the lock.   *)
(***************************************************************************)
EXTENDS Sequences, Naturals

CONSTANTS Thread,   \* the threads that write to this connection
          Msg,      \* the envelopes: each XML document is sent once
          Control,  \* the one-byte records: preamble ack, end
          None      \* no thread, no record

ASSUME NoneAssumption == None \notin Thread \cup Msg \cup Control

VARIABLES out,        \* the records the socket accepted, in order
          writeLock,  \* m_writeLock: the thread that holds it, or None
          at,         \* where each thread is in its write
          rec,        \* the record each thread is writing
          socket,     \* "open", "shut" (End) or "lost" (the peer or the network)
          printed     \* the records some thread has started to write

vars == <<out, writeLock, at, rec, socket, printed>>

(* Refinement: the socket's records are the promised stream. *)
Frame == INSTANCE FramedStream WITH stream <- out

Place == {"idle", "lockXml", "header", "body", "lockByte", "byte"}

Init ==
    /\ out = << >>
    /\ writeLock = None
    /\ at = [t \in Thread |-> "idle"]
    /\ rec = [t \in Thread |-> None]
    /\ socket = "open"
    /\ printed = {}

-----------------------------------------------------------------------------
(* A thread prints the document and the header, and wants the lock. *)
StartXml(t, m) ==
    /\ at[t] = "idle"
    /\ m \notin printed
    /\ at' = [at EXCEPT ![t] = "lockXml"]
    /\ rec' = [rec EXCEPT ![t] = m]
    /\ printed' = printed \cup {m}
    /\ UNCHANGED <<out, writeLock, socket>>

(* ProcessHeader's ack and ProcessEnd's end take the same lock. *)
StartByte(t, x) ==
    /\ at[t] = "idle"
    /\ x \notin printed
    /\ at' = [at EXCEPT ![t] = "lockByte"]
    /\ rec' = [rec EXCEPT ![t] = x]
    /\ printed' = printed \cup {x}
    /\ UNCHANGED <<out, writeLock, socket>>

AcquireUnguarded(t) ==
    /\ at[t] \in {"lockXml", "lockByte"}
    /\ writeLock' = t
    /\ at' = [at EXCEPT ![t] = IF @ = "lockXml" THEN "header" ELSE "byte"]
    /\ UNCHANGED <<out, rec, socket, printed>>

(* lock_guard<mutex> guard(m_soap.GetLock()). *)
Acquire(t) ==
    /\ at[t] \in {"lockXml", "lockByte"}
    /\ writeLock = None
    /\ writeLock' = t
    /\ at' = [at EXCEPT ![t] = IF @ = "lockXml" THEN "header" ELSE "byte"]
    /\ UNCHANGED <<out, rec, socket, printed>>

WriteHeaderUnlocks(t) ==
    /\ at[t] = "header"
    /\ socket = "open"
    /\ out' = Append(out, Frame!Header(rec[t]))
    /\ at' = [at EXCEPT ![t] = "body"]
    /\ writeLock' = None
    /\ UNCHANGED <<rec, socket, printed>>

(* The first Write of SendXml; the lock stays held. *)
WriteHeader(t) ==
    /\ at[t] = "header"
    /\ socket = "open"
    /\ out' = Append(out, Frame!Header(rec[t]))
    /\ at' = [at EXCEPT ![t] = "body"]
    /\ UNCHANGED <<writeLock, rec, socket, printed>>

Release(t) ==
    /\ writeLock' = None
    /\ at' = [at EXCEPT ![t] = "idle"]
    /\ rec' = [rec EXCEPT ![t] = None]

WriteBodySkipped(t) ==
    /\ at[t] = "body"
    /\ socket = "open"
    /\ Release(t)
    /\ UNCHANGED <<out, socket, printed>>

WriteBodyKeepsLock(t) ==
    /\ at[t] = "body"
    /\ socket = "open"
    /\ out' = Append(out, Frame!Body(rec[t]))
    /\ at' = [at EXCEPT ![t] = "idle"]
    /\ rec' = [rec EXCEPT ![t] = None]
    /\ UNCHANGED <<writeLock, socket, printed>>

(* The second Write of SendXml; the guard goes out of scope. *)
WriteBody(t) ==
    /\ at[t] = "body"
    /\ socket = "open"
    /\ out' = Append(out, Frame!Body(rec[t]))
    /\ Release(t)
    /\ UNCHANGED <<socket, printed>>

WriteByte(t) ==
    /\ at[t] = "byte"
    /\ socket = "open"
    /\ out' = Append(out, Frame!Byte(rec[t]))
    /\ Release(t)
    /\ UNCHANGED <<socket, printed>>

WriteThrowsKeepsLock(t) ==
    /\ at[t] \in {"header", "body", "byte"}
    /\ socket # "open"
    /\ at' = [at EXCEPT ![t] = "idle"]
    /\ rec' = [rec EXCEPT ![t] = None]
    /\ UNCHANGED <<out, writeLock, socket, printed>>

(* sendBytes throws on a socket that is shut down or lost: the guard       *)
(* unlocks while the exception leaves the write.                           *)
WriteThrows(t) ==
    /\ at[t] \in {"header", "body", "byte"}
    /\ socket # "open"
    /\ Release(t)
    /\ UNCHANGED <<out, socket, printed>>

(* SoapTcpServer::End, on the connection's thread, without m_writeLock. *)
Shutdown ==
    /\ socket = "open"
    /\ socket' = "shut"
    /\ UNCHANGED <<out, writeLock, at, rec, printed>>

(* The peer resets the connection, or the network fails. *)
Lose ==
    /\ socket = "open"
    /\ socket' = "lost"
    /\ UNCHANGED <<out, writeLock, at, rec, printed>>

Write(t) == WriteHeader(t) \/ WriteBody(t) \/ WriteByte(t) \/ WriteThrows(t)

Next ==
    \/ \E t \in Thread :
          \/ \E m \in Msg : StartXml(t, m)
          \/ \E x \in Control : StartByte(t, x)
          \/ Acquire(t)
          \/ Write(t)
    \/ Shutdown
    \/ Lose

Spec == Init /\ [][Next]_vars

(* A thread that got the lock goes on writing (the peer drains the socket  *)
(* or the connection breaks), and a thread that can have the lock takes it.*)
Fairness == \A t \in Thread : WF_vars(Acquire(t)) /\ WF_vars(Write(t))

FairSpec == Spec /\ Fairness

-----------------------------------------------------------------------------

TypeOK ==
    /\ out \in Seq(Frame!Record)
    /\ writeLock \in Thread \cup {None}
    /\ at \in [Thread -> Place]
    /\ rec \in [Thread -> Msg \cup Control \cup {None}]
    /\ socket \in {"open", "shut", "lost"}
    /\ printed \subseteq Msg \cup Control

(* The peer can parse what it receives, however the threads interleave and *)
(* wherever a write fails: SendXml's two writes are never separated.       *)
Framed == Frame!Framed

(* An announced body that nobody is about to write means the socket is     *)
(* gone: an open connection is never left in the middle of an envelope.    *)
HalfEnvelopeOnlyWhenBroken ==
    Frame!Announced /\ socket = "open" =>
        \E t \in Thread : at[t] = "body" /\ out[Len(out)] = Frame!Header(rec[t])

(* Every step of the writers is a step of the promised stream, or none. *)
ImplementsFramedStream == Frame!Spec

(* A thread that starts to send gets out of the write again, having sent   *)
(* or having thrown: m_writeLock is never left locked.                     *)
EveryWriteEnds == \A t \in Thread : at[t] # "idle" ~> at[t] = "idle"

-----------------------------------------------------------------------------
(* The inductive invariant behind Framed: the lock is held exactly by the  *)
(* thread inside a write, and on an open socket the last record announces  *)
(* a body exactly when the holder is about to write it.                    *)

Writing == {"header", "body", "byte"}

KindMatches ==
    \A t \in Thread :
        /\ at[t] \in {"lockXml", "header", "body"} => rec[t] \in Msg
        /\ at[t] \in {"lockByte", "byte"} => rec[t] \in Control

HolderWrites ==
    \A t \in Thread : at[t] \in Writing <=> writeLock = t

AnnouncedByHolder ==
    /\ \A t \in Thread :
          at[t] = "body" => Len(out) > 0 /\ out[Len(out)] = Frame!Header(rec[t])
    /\ Frame!Announced /\ socket = "open" => \E t \in Thread : at[t] = "body"

WireInv ==
    /\ TypeOK
    /\ KindMatches
    /\ HolderWrites
    /\ AnnouncedByHolder
    /\ Framed
=============================================================================
