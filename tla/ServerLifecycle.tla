-------------------------- MODULE ServerLifecycle --------------------------
(***************************************************************************)
(* Start, Stop and the destructor of the server, and the threads that      *)
(* serve connections.  Start makes two Poco TCP servers, "soap" (SOAP over *)
(* TCP) and "mex" (the WSDL over HTTP).  Each has an accept thread and a   *)
(* dispatcher with a queue of accepted connections; the threads of both    *)
(* dispatchers come from Poco's one default pool.  A thread serves a SOAP  *)
(* connection in SoapTcpServer::run (ProtocolBindings and SoapProtocol     *)
(* follow one through its life) and an HTTP request in                     *)
(* MexHTTPRequestHandler, which answers and is done.                       *)
(*                                                                         *)
(* The program uses the server as NativeServer's main does: it starts it,  *)
(* stops it, may start it again, and deletes it.                           *)
(***************************************************************************)
EXTENDS Sequences, FiniteSets, Naturals

CONSTANTS SoapConn, MexConn,  \* the connections to each port
          Worker,             \* the threads of the pool (16)
          MaxThreads,         \* setMaxThreads: soap 16, mex 4
          MaxQueued,          \* setMaxQueued: soap 1; mex 64, Poco's default
          MaxStarts,          \* how often the program starts the server
          None

Port == {"soap", "mex"}
Conn == SoapConn \cup MexConn

ASSUME ParamsAssumption ==
    /\ MaxThreads \in [Port -> Nat \ {0}] /\ MaxQueued \in [Port -> Nat \ {0}]
    /\ MaxStarts \in Nat \ {0}
ASSUME WorkerAssumption == IsFiniteSet(Worker)

(* One per Start: a stopped TCP server is not used again. *)
Dispatcher == Port \X (1..MaxStarts)

ASSUME NamesAssumption == SoapConn \cap MexConn = {} /\ None \notin Conn \cup Dispatcher

VARIABLES main,      \* what the program has done with the server
          running,   \* m_running
          starts,    \* the TCP servers that exist are those of this Start
          stopped,   \* the dispatchers that were stopped
          queue,     \* each dispatcher's NotificationQueue
          enqueuing, \* the dispatchers whose lock an enqueue holds
          at,        \* where each pool thread is
          disp,      \* the dispatcher it works for
          conn,      \* the connection it was given
          peer,      \* each connection, seen from its peer
          over,      \* connections refused, discarded or served to the end
          lost       \* why the process is lost, or "no"

mainVars == <<main, running, starts>>
poolVars == <<at, disp, conn>>
vars == <<mainVars, stopped, queue, enqueuing, poolVars, peer, over, lost>>

(* The constructor leaves m_running uninitialised. *)
Init ==
    /\ main = "built" /\ running \in BOOLEAN /\ starts = 0
    /\ stopped = {}
    /\ queue = [d \in Dispatcher |-> << >>]
    /\ enqueuing = {}
    /\ at = [w \in Worker |-> "pool"]
    /\ disp = [w \in Worker |-> None]
    /\ conn = [w \in Worker |-> None]
    /\ peer = [c \in Conn |-> "away"]
    /\ over = {}
    /\ lost = "no"

Current(p) == <<p, starts>>
PortOf(c) == IF c \in SoapConn THEN "soap" ELSE "mex"

(* _currentThreads: it is decremented before the thread is idle again. *)
Threads(d) == {w \in Worker : disp[w] = d /\ at[w] \notin {"pool", "returning"}}
Idle(d) == {w \in Worker : disp[w] = d /\ at[w] = "waiting"}

-----------------------------------------------------------------------------
(* The program's thread *)

(* Both servers are made and started.  When a port cannot be bound Start   *)
(* throws before it has changed anything.                                  *)
Start ==
    /\ main \in {"built", "stopped"} /\ starts < MaxStarts
    /\ ~running
    /\ main' = "started" /\ running' = TRUE /\ starts' = starts + 1
    /\ UNCHANGED <<stopped, queue, enqueuing, poolVars, peer, over, lost>>

(* m_running is set already: a debug build stops at the assert, a release  *)
(* build returns and the program takes the server for started.             *)
StartRefused ==
    /\ main \in {"built", "stopped"} /\ starts < MaxStarts
    /\ running
    /\ \/ lost' = "assert" /\ UNCHANGED main
       \/ main' = "started" /\ UNCHANGED lost
    /\ UNCHANGED <<running, starts, stopped, queue, enqueuing, poolVars, peer, over>>

(* TCPServer::stop joins the accept thread, then stops the dispatcher.     *)
(* What was queued is discarded, what is served goes on.                   *)
StopServer(p) ==
    /\ Current(p) \notin enqueuing
    /\ stopped' = stopped \cup {Current(p)}
    /\ over' = over \cup {queue[Current(p)][i] : i \in 1..Len(queue[Current(p)])}
    /\ queue' = [queue EXCEPT ![Current(p)] = << >>]
    /\ at' = [w \in Worker |-> IF w \in Idle(Current(p)) THEN "checking" ELSE at[w]]
    /\ UNCHANGED <<enqueuing, disp, conn, peer>>

StopSoap ==
    /\ main = "started" /\ running /\ starts > 0
    /\ StopServer("soap")
    /\ main' = "stopping"
    /\ UNCHANGED <<running, starts, lost>>

StopMex ==
    /\ main = "stopping"
    /\ StopServer("mex")
    /\ main' = "stopped" /\ running' = FALSE
    /\ UNCHANGED <<starts, lost>>

(* Stop after a refused Start: there is no server to stop. *)
StopWithoutServers ==
    /\ main = "started" /\ starts = 0
    /\ lost' = "null"
    /\ UNCHANGED <<mainVars, stopped, queue, enqueuing, poolVars, peer, over>>

(* ~SoapServer: nothing waits for the threads that serve. *)
Delete ==
    /\ main = "stopped"
    /\ main' = "deleted"
    /\ UNCHANGED <<running, starts, stopped, queue, enqueuing, poolVars,
                   peer, over, lost>>

Main == Start \/ StartRefused \/ StopSoap \/ StopMex \/ StopWithoutServers \/ Delete

-----------------------------------------------------------------------------
(* The accept threads *)

Accepting(p) == starts > 0 /\ main # "deleted" /\ Current(p) \notin stopped

Arrives(c) ==
    /\ Accepting(PortOf(c)) /\ Current(PortOf(c)) \notin enqueuing
    /\ peer[c] = "away"
    /\ peer' = [peer EXCEPT ![c] = "open"]
    /\ UNCHANGED <<mainVars, stopped, disp, lost>>

(* A waiting thread gets the connection, or it goes to the queue.  The     *)
(* dispatcher's lock is held until StartThread.                            *)
Put(c, d) ==
    /\ enqueuing' = enqueuing \cup {d}
    /\ \/ /\ Idle(d) = {}
          /\ queue' = [queue EXCEPT ![d] = Append(@, c)]
          /\ UNCHANGED <<at, conn>>
       \/ \E w \in Idle(d) :
             /\ at' = [at EXCEPT ![w] = "given"]
             /\ conn' = [conn EXCEPT ![w] = c]
             /\ UNCHANGED queue
    /\ UNCHANGED over

Refuse(c) == over' = over \cup {c} /\ UNCHANGED <<queue, enqueuing, at, conn>>

Enqueue(c) ==
    LET d == Current(PortOf(c))
    IN  /\ Arrives(c)
        /\ \/ Len(queue[d]) >= MaxQueued[d[1]] /\ Refuse(c)
           \/ Len(queue[d]) < MaxQueued[d[1]] /\ Put(c, d)

(* Another thread is taken from the pool, unless one waits or the limit is *)
(* reached.  When the pool has none, that is all there is to it.           *)
StartThread(d) ==
    /\ d \in enqueuing
    /\ enqueuing' = enqueuing \ {d}
    /\ IF Idle(d) = {} /\ Cardinality(Threads(d)) < MaxThreads[d[1]]
          /\ \E w \in Worker : at[w] = "pool"
       THEN \E w \in Worker :
               /\ at[w] = "pool"
               /\ at' = [at EXCEPT ![w] = "dequeuing"]
               /\ disp' = [disp EXCEPT ![w] = d]
       ELSE UNCHANGED <<at, disp>>
    /\ UNCHANGED <<mainVars, stopped, queue, conn, peer, over, lost>>

-----------------------------------------------------------------------------
(* The pool's threads: TCPServerDispatcher::run *)

DequeueKeeps(w) ==
    /\ at[w] = "dequeuing"
    /\ IF queue[disp[w]] = << >>
       THEN at' = [at EXCEPT ![w] = "waiting"] /\ UNCHANGED conn
       ELSE /\ at' = [at EXCEPT ![w] = "given"]
            /\ conn' = [conn EXCEPT ![w] = Head(queue[disp[w]])]
    /\ UNCHANGED <<mainVars, stopped, queue, enqueuing, disp, peer, over, lost>>

(* waitDequeueNotification *)
Dequeue(w) ==
    /\ at[w] = "dequeuing"
    /\ IF queue[disp[w]] = << >>
       THEN at' = [at EXCEPT ![w] = "waiting"] /\ UNCHANGED <<queue, conn>>
       ELSE /\ at' = [at EXCEPT ![w] = "given"]
            /\ conn' = [conn EXCEPT ![w] = Head(queue[disp[w]])]
            /\ queue' = [queue EXCEPT ![disp[w]] = Tail(@)]
    /\ UNCHANGED <<mainVars, stopped, enqueuing, disp, peer, over, lost>>

(* The idle time is over and nothing has come. *)
TimeOut(w) ==
    /\ at[w] = "waiting"
    /\ at' = [at EXCEPT ![w] = "checking"]
    /\ UNCHANGED <<mainVars, stopped, queue, enqueuing, disp, conn, peer, over, lost>>

(* createConnection and start. *)
Serve(w) ==
    /\ at[w] = "given"
    /\ at' = [at EXCEPT ![w] = "serving"]
    /\ UNCHANGED <<mainVars, stopped, queue, enqueuing, disp, conn, peer, over, lost>>

(* run returns when it has handled an end record or receiveBytes throws.   *)
(* A peer that just closes makes receiveBytes return 0, OnRead do nothing  *)
(* and poll report the socket readable at once, again and again.           *)
RunReturns(c) == peer[c] \in {"ended", "reset"}

(* The connection object is deleted. *)
Served(w) ==
    /\ at' = [at EXCEPT ![w] = "checking"]
    /\ conn' = [conn EXCEPT ![w] = None]
    /\ over' = over \cup {conn[w]}
    /\ UNCHANGED <<mainVars, stopped, queue, enqueuing, disp, peer>>

(* The destructor of a SOAP connection unbinds itself from the server. *)
EndServe(w) ==
    /\ at[w] = "serving" /\ conn[w] \in SoapConn /\ RunReturns(conn[w])
    /\ Served(w)
    /\ lost' = IF main = "deleted" THEN "deleted" ELSE lost

(* The WSDL file is sent.  A request made with SOAP is asserted not to     *)
(* come; a release build leaves it without an answer.                      *)
HandleRequest(w) ==
    /\ at[w] = "serving" /\ conn[w] \in MexConn
    /\ Served(w)
    /\ lost' \in {lost, "assert"}

CheckLeavesAlways(w) ==
    /\ at[w] = "checking" /\ disp[w] \notin enqueuing
    /\ at' = [at EXCEPT ![w] =
                  IF disp[w] \in stopped \/ queue[disp[w]] = << >>
                  THEN "returning" ELSE "dequeuing"]
    /\ UNCHANGED <<mainVars, stopped, queue, enqueuing, disp, conn, peer, over, lost>>

CheckForgetsStop(w) ==
    /\ at[w] = "checking" /\ disp[w] \notin enqueuing
    /\ at' = [at EXCEPT ![w] =
                  IF Cardinality(Threads(disp[w])) > 1 /\ queue[disp[w]] = << >>
                  THEN "returning" ELSE "dequeuing"]
    /\ UNCHANGED <<mainVars, stopped, queue, enqueuing, disp, conn, peer, over, lost>>

CheckReturns(w) ==
    /\ at[w] = "checking" /\ disp[w] \notin enqueuing
    /\ at' = [at EXCEPT ![w] = "returning"]
    /\ UNCHANGED <<mainVars, stopped, queue, enqueuing, disp, conn, peer, over, lost>>

(* Under the dispatcher's lock: the thread leaves when the dispatcher was  *)
(* stopped, or when others are left and nothing is queued.                 *)
Check(w) ==
    /\ at[w] = "checking" /\ disp[w] \notin enqueuing
    /\ at' = [at EXCEPT ![w] =
                  IF \/ disp[w] \in stopped
                     \/ Cardinality(Threads(disp[w])) > 1 /\ queue[disp[w]] = << >>
                  THEN "returning" ELSE "dequeuing"]
    /\ UNCHANGED <<mainVars, stopped, queue, enqueuing, disp, conn, peer, over, lost>>

(* The thread is idle in the pool again. *)
Return(w) ==
    /\ at[w] = "returning"
    /\ at' = [at EXCEPT ![w] = "pool"]
    /\ disp' = [disp EXCEPT ![w] = None]
    /\ UNCHANGED <<mainVars, stopped, queue, enqueuing, conn, peer, over, lost>>

Work(w) == Dequeue(w) \/ TimeOut(w) \/ Serve(w) \/ EndServe(w) \/ HandleRequest(w) \/ Check(w) \/ Return(w)

-----------------------------------------------------------------------------
(* The peers of SOAP connections *)

(* An open connection ends with an end record, is closed without one, or   *)
(* fails; a write to a closed one makes it fail too.                       *)
PeerLeaves(c) ==
    /\ c \in SoapConn
    /\ \/ peer[c] = "open" /\ \E how \in {"ended", "closed", "reset"} :
              peer' = [peer EXCEPT ![c] = how]
       \/ peer[c] = "closed" /\ peer' = [peer EXCEPT ![c] = "reset"]
    /\ UNCHANGED <<mainVars, stopped, queue, enqueuing, poolVars, over, lost>>

-----------------------------------------------------------------------------

Next ==
    /\ lost = "no"
    /\ \/ Main
       \/ \E c \in Conn : Enqueue(c) \/ PeerLeaves(c)
       \/ \E d \in Dispatcher : StartThread(d)
       \/ \E w \in Worker : Work(w)

Spec == Init /\ [][Next]_vars

(* Threads run, the one in Stop too.  The program need not stop the server *)
(* and no peer need leave.                                                 *)
Fairness ==
    /\ WF_vars(lost = "no" /\ StopMex)
    /\ \A d \in Dispatcher : WF_vars(lost = "no" /\ StartThread(d))
    /\ \A w \in Worker : WF_vars(lost = "no" /\ Work(w))

FairSpec == Spec /\ Fairness

-----------------------------------------------------------------------------

TypeOK ==
    /\ main \in {"built", "started", "stopping", "stopped", "deleted"}
    /\ running \in BOOLEAN /\ starts \in 0..MaxStarts
    /\ stopped \subseteq Dispatcher /\ enqueuing \subseteq Dispatcher
    /\ queue \in [Dispatcher -> Seq(Conn)]
    /\ \A d \in Dispatcher : /\ Len(queue[d]) <= MaxQueued[d[1]]
                             /\ Cardinality(Threads(d)) <= MaxThreads[d[1]]
    /\ at \in [Worker -> {"pool", "dequeuing", "waiting", "given", "serving",
                          "checking", "returning"}]
    /\ disp \in [Worker -> Dispatcher \cup {None}]
    /\ conn \in [Worker -> Conn \cup {None}]
    /\ peer \in [Conn -> {"away", "open", "ended", "closed", "reset"}]
    /\ over \subseteq Conn
    /\ lost \in {"no", "assert", "null", "deleted"}

(* Servers are stopped one after the other, and the next Start comes after *)
(* that.  A server that is stopped, or not yet made, has nothing queued    *)
(* and nobody enqueues there.                                              *)
ServersInTurn ==
    /\ main = "built" => starts = 0
    /\ main = "stopping" => starts > 0 /\ Current("soap") \in stopped
    /\ main \in {"stopped", "deleted"} => \A p \in Port : starts > 0 => Current(p) \in stopped
    /\ \A d \in Dispatcher :
          /\ d[2] < starts => d \in stopped
          /\ d[2] > starts => d \notin stopped /\ \A w \in Worker : disp[w] # d
          /\ d[2] > starts \/ d \in stopped => queue[d] = << >> /\ d \notin enqueuing

(* A connection is queued at, and given to a thread of, its own port's     *)
(* server.                                                                 *)
GivenItsOwn ==
    /\ \A w \in Worker :
          /\ disp[w] = None <=> at[w] = "pool"
          /\ conn[w] # None <=> at[w] \in {"given", "serving"}
          /\ conn[w] # None => PortOf(conn[w]) = disp[w][1]
    /\ \A d \in Dispatcher : \A i \in 1..Len(queue[d]) : PortOf(queue[d][i]) = d[1]

(* A server that has got a thread keeps one until it is stopped: the last  *)
(* one does not leave, whatever the others do between their counting and   *)
(* their return to the pool.                                               *)
LastThreadStays ==
    \A w \in Worker :
        at[w] = "returning" /\ disp[w] \notin stopped => Threads(disp[w]) # {}

QueuedAt(c, d) == \E i \in 1..Len(queue[d]) : queue[d][i] = c
Queued(c) == \E d \in Dispatcher : QueuedAt(c, d)
Given(c) == \E w \in Worker : conn[w] = c

(* AcceptedOnce, without counting. *)
QueuedOnce ==
    \A d, e \in Dispatcher : \A i \in 1..Len(queue[d]), j \in 1..Len(queue[e]) :
        queue[d][i] = queue[e][j] => d = e /\ i = j

GivenOnce == \A w, v \in Worker : conn[w] = conn[v] => conn[w] = None \/ w = v

OnePlace ==
    /\ QueuedOnce
    /\ GivenOnce
    /\ \A c \in Conn : /\ ~(Queued(c) /\ Given(c))
                       /\ Queued(c) \/ Given(c) <=> peer[c] # "away" /\ c \notin over
                       /\ c \in over => peer[c] # "away"

(* The invariant of the servers and their threads, beside the types and    *)
(* the limits.                                                             *)
LifecycleInv ==
    /\ TypeOK
    /\ ServersInTurn
    /\ GivenItsOwn
    /\ LastThreadStays
    /\ OnePlace

(* Where a connection is: in a queue, or with a thread. *)
QueuePlaces(c) ==
    UNION {{<<d, i>> : i \in {j \in 1..Len(queue[d]) : queue[d][j] = c}} : d \in Dispatcher}
ThreadPlaces(c) == {w \in Worker : conn[w] = c}
Places(c) == QueuePlaces(c) \cup ThreadPlaces(c)

(* An accepted connection is in one place: one queue or one thread, until  *)
(* it is over.  None is lost when it is handed to a thread whose idle time *)
(* is just over, or when the server stops, and none is served twice.       *)
AcceptedOnce ==
    \A c \in Conn :
        Cardinality(Places(c)) = IF peer[c] = "away" \/ c \in over THEN 0 ELSE 1

(* A queued SOAP connection whose server has a thread is served, or        *)
(* discarded by a Stop, unless every thread of the server serves a peer    *)
(* that does not end its connection.  A server that got no thread when the *)
(* connection was queued, because the pool had none, is out of this:       *)
(* nothing looks for one again before the next connection is enqueued, and *)
(* with a full queue none ever is.                                         *)
Stuck(w) == at[w] = "serving" /\ conn[w] \in SoapConn /\ ~RunReturns(conn[w])

QueuedIsServed ==
    \A c \in SoapConn, d \in {"soap"} \X (1..MaxStarts) :
        (QueuedAt(c, d) /\ Threads(d) # {}) ~>
            \/ ~QueuedAt(c, d)
            \/ Threads(d) # {} /\ \A w \in Threads(d) : Stuck(w)
            \/ lost # "no"

(* A stopped server gives its threads back to the pool, except those whose *)
(* peers do not end their connections.                                     *)
StopReleasesThreads ==
    \A d \in Dispatcher :
        d \in stopped ~> \/ \A w \in Worker : disp[w] = d => Stuck(w)
                         \/ lost # "no"

(* StreamSocket.h: "A return value of 0 means a graceful shutdown of the   *)
(* connection from the peer": its thread serves someone else then.         *)
ClosedPeerIsDropped ==
    \A c \in SoapConn : peer[c] = "closed" ~> (c \in over \/ lost # "no")
=============================================================================
