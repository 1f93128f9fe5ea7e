-------------------------- MODULE ProtocolBindings --------------------------
(***************************************************************************)
(* The registry of connected clients: SoapServerInternal's                 *)
(* m_protocolBindings under m_protocolLock, the connections that enter and *)
(* leave it (SoapTcpServer's constructor, SetBindingName, run and          *)
(* destructor) and the calls that pick a connection from it (CallMethod,   *)
(* native and protobuf, which differ only in how they print the request).  *)
(*                                                                         *)
(* A name is a number in the order of the std::map; 0 is the empty string, *)
(* the name of a connection that has sent no preamble.  A client sends one *)
(* preamble per connection, as the framing protocol has it.                *)
(***************************************************************************)
EXTENDS Naturals

CONSTANTS Conn,   \* the connections, one SoapTcpServer object each
          Call,   \* the calls to client services, one CallMethod each
          Name,   \* the last path elements of the clients' via URLs
          None    \* a null SoapProtocol*, no lock holder, no thread

ASSUME NameAssumption == Name \subseteq Nat /\ 0 \in Name
ASSUME NoneAssumption == None \notin Conn \cup Call

VARIABLES bindings,      \* m_protocolBindings: name -> SoapProtocol*
          protocolLock,  \* m_protocolLock: the call that holds it, or None
          conn,          \* the life of each connection object
          name,          \* SoapTcpServer::m_bindingName
          call,          \* where each call is
          on,            \* the connection whose thread makes the call, or None
          target,        \* the connection the call sends on
          up             \* FALSE once a call used a null or end() entry

vars == <<bindings, protocolLock, conn, name, call, on, target, up>>

Alive  == {"accepted", "bound", "finished"}
Active == {"locking", "holding", "sending"}

(* m_protocolBindings[n] = c; inserts the name when it is new. *)
Bind(n, c) ==
    bindings' = [m \in DOMAIN bindings \cup {n} |-> IF m = n THEN c ELSE bindings[m]]

Init ==
    /\ bindings = [n \in {} |-> None]
    /\ protocolLock = None
    /\ conn = [c \in Conn |-> "new"]
    /\ name = [c \in Conn |-> 0]
    /\ call = [k \in Call |-> "none"]
    /\ on = [k \in Call |-> None]
    /\ target = [k \in Call |-> None]
    /\ up = TRUE

(* The connection's thread is not inside a call of one of its handlers. *)
ThreadFree(c) == \A k \in Call : on[k] = c => call[k] \notin Active

-----------------------------------------------------------------------------
(* Connections *)

(* The TCP server hands a socket to a new SoapTcpServer. *)
Accept(c) ==
    /\ up
    /\ conn[c] = "new"
    /\ conn' = [conn EXCEPT ![c] = "accepted"]
    /\ UNCHANGED <<bindings, protocolLock, name, call, on, target, up>>

(* SetBindingName, from the preamble's via record. *)
SetBindingName(c, n) ==
    /\ up
    /\ conn[c] = "accepted"
    /\ ThreadFree(c)
    /\ protocolLock = None
    /\ conn' = [conn EXCEPT ![c] = "bound"]
    /\ name' = [name EXCEPT ![c] = n]
    /\ Bind(n, c)
    /\ UNCHANGED <<protocolLock, call, on, target, up>>

(* run() returns: End was called or the socket failed. *)
Finish(c) ==
    /\ up
    /\ conn[c] \in {"accepted", "bound"}
    /\ ThreadFree(c)
    /\ conn' = [conn EXCEPT ![c] = "finished"]
    /\ UNCHANGED <<bindings, protocolLock, name, call, on, target, up>>

UnbindForgets(c) ==
    /\ up
    /\ conn[c] = "finished"
    /\ conn' = [conn EXCEPT ![c] = "unbound"]
    /\ UNCHANGED <<bindings, protocolLock, name, call, on, target, up>>

UnbindClears(c) ==
    /\ up
    /\ conn[c] = "finished"
    /\ protocolLock = None
    /\ conn' = [conn EXCEPT ![c] = "unbound"]
    /\ bindings' = [n \in {} |-> None]
    /\ UNCHANGED <<protocolLock, name, call, on, target, up>>

(* The body of ~SoapTcpServer: the entry stays, with a null pointer. *)
Unbind(c) ==
    /\ up
    /\ conn[c] = "finished"
    /\ protocolLock = None
    /\ conn' = [conn EXCEPT ![c] = "unbound"]
    /\ Bind(name[c], None)
    /\ UNCHANGED <<protocolLock, name, call, on, target, up>>

(* The members, m_soapProtocol among them, are destroyed after the body. *)
Free(c) ==
    /\ up
    /\ conn[c] = "unbound"
    /\ conn' = [conn EXCEPT ![c] = "gone"]
    /\ UNCHANGED <<bindings, protocolLock, name, call, on, target, up>>

-----------------------------------------------------------------------------
(* Calls *)

(* CallMethod with a known service, on an application thread (t = None) or *)
(* in a handler or reply callback on the thread of connection t.  With an  *)
(* unknown service it throws before it touches anything here.              *)
CallMethod(k, t) ==
    /\ up
    /\ call[k] = "none"
    /\ t # None => conn[t] \in {"accepted", "bound"} /\ ThreadFree(t)
    /\ call' = [call EXCEPT ![k] = "locking"]
    /\ on' = [on EXCEPT ![k] = t]
    /\ UNCHANGED <<bindings, protocolLock, conn, name, target, up>>

(* lock_guard<mutex> guard(m_protocolLock). *)
LockBindings(k) ==
    /\ up
    /\ call[k] = "locking"
    /\ protocolLock = None
    /\ protocolLock' = k
    /\ call' = [call EXCEPT ![k] = "holding"]
    /\ UNCHANGED <<bindings, conn, name, on, target, up>>

(* m_protocolBindings.begin(), whatever service is called. *)
IsFirst(n) == n \in DOMAIN bindings /\ \A m \in DOMAIN bindings : n <= m

PickUnlocks(k) ==
    /\ up
    /\ call[k] = "holding"
    /\ \E n \in DOMAIN bindings :
          /\ IsFirst(n)
          /\ bindings[n] # None
          /\ target' = [target EXCEPT ![k] = bindings[n]]
    /\ call' = [call EXCEPT ![k] = "sending"]
    /\ protocolLock' = None
    /\ UNCHANGED <<bindings, conn, name, on, up>>

(* sp->second is a connection: SendRequest starts on it, lock held. *)
Pick(k) ==
    /\ up
    /\ call[k] = "holding"
    /\ \E n \in DOMAIN bindings :
          /\ IsFirst(n)
          /\ bindings[n] # None
          /\ target' = [target EXCEPT ![k] = bindings[n]]
    /\ call' = [call EXCEPT ![k] = "sending"]
    /\ UNCHANGED <<bindings, protocolLock, conn, name, on, up>>

(* begin() is end(), or the pointer is null: the behaviour is undefined    *)
(* (an access violation in the builds at hand) and the process is lost.    *)
PickUndefined(k) ==
    /\ up
    /\ call[k] = "holding"
    /\ \A n \in DOMAIN bindings : IsFirst(n) => bindings[n] = None
    /\ call' = [call EXCEPT ![k] = "undefined"]
    /\ up' = FALSE
    /\ UNCHANGED <<bindings, protocolLock, conn, name, on, target>>

ReturnKeepsLock(k) ==
    /\ up
    /\ call[k] = "sending"
    /\ call' = [call EXCEPT ![k] = "returned"]
    /\ UNCHANGED <<bindings, protocolLock, conn, name, on, target, up>>

(* SendRequest returns or throws; the guard unlocks either way. *)
Return(k) ==
    /\ up
    /\ call[k] = "sending"
    /\ call' = [call EXCEPT ![k] = "returned"]
    /\ protocolLock' = None
    /\ UNCHANGED <<bindings, conn, name, on, target, up>>

-----------------------------------------------------------------------------

Leave(c) == Unbind(c) \/ Free(c)
Proceed(k) == Pick(k) \/ PickUndefined(k) \/ Return(k)

Next ==
    \/ \E c \in Conn :
          \/ Accept(c)
          \/ \E n \in Name : SetBindingName(c, n)
          \/ Finish(c)
          \/ Leave(c)
    \/ \E k \in Call :
          \/ \E t \in Conn \cup {None} : CallMethod(k, t)
          \/ LockBindings(k)
          \/ Proceed(k)

Spec == Init /\ [][Next]_vars

(* Threads run.  Nothing makes a client disconnect, and the mutex promises *)
(* no order: weak fairness is enough because each call locks once.         *)
Fairness ==
    /\ \A c \in Conn : WF_vars(Leave(c))
    /\ \A k \in Call : WF_vars(LockBindings(k)) /\ WF_vars(Proceed(k))

FairSpec == Spec /\ Fairness

-----------------------------------------------------------------------------

TypeOK ==
    /\ DOMAIN bindings \subseteq Name
    /\ \A n \in DOMAIN bindings : bindings[n] \in Conn \cup {None}
    /\ protocolLock \in Call \cup {None}
    /\ conn \in [Conn -> {"new", "accepted", "bound", "finished", "unbound", "gone"}]
    /\ name \in [Conn -> Name]
    /\ call \in [Call -> {"none", "locking", "holding", "sending", "returned", "undefined"}]
    /\ on \in [Call -> Conn \cup {None}]
    /\ target \in [Call -> Conn \cup {None}]
    /\ up \in BOOLEAN

(* Every pointer in the registry points to a connection object whose       *)
(* destructor has not run, registered under its own name.                  *)
NoDanglingBinding ==
    \A n \in DOMAIN bindings :
        bindings[n] # None =>
            conn[bindings[n]] \in {"bound", "finished"} /\ name[bindings[n]] = n

(* SendRequest never runs on a connection that is being destroyed: the     *)
(* destructor waits for m_protocolLock, which the call holds throughout.   *)
CallUsesLiveConnection ==
    \A k \in Call : call[k] = "sending" => conn[target[k]] \in Alive

(* Null entries come from destructors only: while no connection has been   *)
(* destroyed, a call is undefined only if no client has introduced itself. *)
DefinedUntilAClose ==
    ~up => \/ \E c \in Conn : conn[c] \in {"unbound", "gone"}
           \/ \A c \in Conn : conn[c] # "bound"

(* A client whose name no other connection has had stays registered until  *)
(* it leaves, whoever else comes and goes.                                 *)
AloneStaysRegistered ==
    \A c \in Conn :
        (/\ conn[c] = "bound"
         /\ \A d \in Conn \ {c} : conn[d] = "new" \/ name[d] # name[c])
        => name[c] \in DOMAIN bindings /\ bindings[name[c]] = c

(* A connection whose run() ended is destroyed: its destructor gets the    *)
(* lock, however many calls are in flight.                                 *)
FinishedIsFreed == \A c \in Conn : conn[c] = "finished" ~> (conn[c] = "gone" \/ ~up)

-----------------------------------------------------------------------------
(* The inductive invariant behind CallUsesLiveConnection,                  *)
(* DefinedUntilAClose and AloneStaysRegistered.                            *)

LockHolder ==
    \A k \in Call : call[k] \in {"holding", "sending"} => protocolLock = k

TargetBound ==
    \A k \in Call :
        call[k] = "sending" => \E n \in DOMAIN bindings :
            bindings[n] = target[k] /\ target[k] # None

(* A null entry was left by the destructor of a connection of its name. *)
NullsAreOfDestroyed ==
    \A n \in DOMAIN bindings :
        bindings[n] = None =>
            \E c \in Conn : conn[c] \in {"unbound", "gone"} /\ name[c] = n

(* A client that has introduced itself has an entry.  It is its own, or    *)
(* another that has introduced itself or left had that name too.           *)
RegisteredOrDisplaced ==
    \A c \in Conn :
        conn[c] = "bound" =>
            /\ name[c] \in DOMAIN bindings
            /\ \/ bindings[name[c]] = c
               \/ \E d \in Conn \ {c} :
                     conn[d] \notin {"new", "accepted"} /\ name[d] = name[c]

BindingsInv ==
    /\ TypeOK
    /\ NoDanglingBinding
    /\ LockHolder
    /\ TargetBound
    /\ NullsAreOfDestroyed
    /\ RegisteredOrDisplaced
    /\ DefinedUntilAClose
=============================================================================
