----------------------- MODULE ServerLifecycleProofs -----------------------
(***************************************************************************)
(* For any connections, threads, limits and number of Starts: an accepted  *)
(* connection is in one place until it is over, the limits of the queues   *)
(* and of the pool are kept, and a server that has got a thread keeps one. *)
(***************************************************************************)
EXTENDS ServerLifecycle, FiniteSetTheorems, TLAPS

LEMMA DispatcherFacts ==
    /\ \A d \in Dispatcher : /\ d = <<d[1], d[2]>>
                             /\ d[1] \in Port /\ d[2] \in 1..MaxStarts
    /\ \A d, e \in Dispatcher : d[1] = e[1] /\ d[2] = e[2] => d = e
    /\ \A p \in Port : /\ starts \in 1..MaxStarts => Current(p) \in Dispatcher
                       /\ Current(p)[1] = p /\ Current(p)[2] = starts
    /\ \A c : PortOf(c) \in Port
  BY DEF Dispatcher, Current, PortOf, Port

(* _currentThreads counts threads of the pool, which is finite. *)
LEMMA ThreadsFinite ==
    ASSUME NEW d
    PROVE  /\ IsFiniteSet(Threads(d)) /\ Threads(d) \subseteq Worker
           /\ Cardinality(Threads(d)) \in Nat
<1>1. Threads(d) \subseteq Worker
  BY DEF Threads
<1>2. IsFiniteSet(Threads(d))
  BY <1>1, WorkerAssumption, FS_Subset
<1>3. QED
  BY <1>1, <1>2, FS_CardinalityType

(* One more or one less. *)
LEMMA OneMoreOrLess ==
    ASSUME NEW S, IsFiniteSet(S), NEW x
    PROVE  /\ Cardinality(S) \in Nat
           /\ Cardinality(S \cup {x}) \in Nat /\ Cardinality(S \cup {x}) <= Cardinality(S) + 1
           /\ Cardinality(S \ {x}) \in Nat /\ Cardinality(S \ {x}) <= Cardinality(S)
           /\ Cardinality(S) > 1 => S \ {x} # {}
<1>1. Cardinality(S) \in Nat /\ IsFiniteSet(S \cup {x}) /\ IsFiniteSet(S \ {x})
  BY FS_CardinalityType, FS_AddElement, FS_RemoveElement
<1>2. Cardinality(S \cup {x}) \in Nat /\ Cardinality(S \ {x}) \in Nat
  BY <1>1, FS_CardinalityType
<1>3. Cardinality(S \cup {x}) = IF x \in S THEN Cardinality(S) ELSE Cardinality(S) + 1
  BY FS_AddElement
<1>4. Cardinality(S \ {x}) = IF x \in S THEN Cardinality(S) - 1 ELSE Cardinality(S)
  BY FS_RemoveElement
<1>5. Cardinality(S) > 1 => S \ {x} # {}
  BY <1>1, <1>4, FS_EmptySet
<1>6. QED
  BY <1>1, <1>2, <1>3, <1>4, <1>5

(* A thread that is moved on without being counted out or given another    *)
(* dispatcher leaves the count as it is.                                   *)
LEMMA SameThreads ==
    ASSUME disp' = disp,
           \A w \in Worker : at[w] \in {"pool", "returning"} <=> at'[w] \in {"pool", "returning"}
    PROVE  \A d : Threads(d)' = Threads(d)
  BY DEF Threads

LEMMA LifecycleInitially == Init => LifecycleInv
<1> SUFFICES ASSUME Init PROVE LifecycleInv
  OBVIOUS
<1>1. \A d : Threads(d) = {}
  BY DEF Init, Threads
<1>2. \A d \in Dispatcher : queue[d] = << >> /\ Len(queue[d]) = 0
  BY DEF Init
<1>3. TypeOK
  <2>1. \A d \in Dispatcher : Cardinality(Threads(d)) = 0
    BY <1>1, FS_EmptySet
  <2>2. \A d \in Dispatcher : Len(queue[d]) <= MaxQueued[d[1]] /\ 0 <= MaxThreads[d[1]]
    BY <1>2, DispatcherFacts, ParamsAssumption
  <2>3. QED
    BY <2>1, <2>2, ParamsAssumption DEF Init, TypeOK
<1>4. ServersInTurn
  BY <1>2, DispatcherFacts, ParamsAssumption, NamesAssumption DEF Init, ServersInTurn
<1>5. GivenItsOwn
  BY <1>2 DEF Init, GivenItsOwn
<1>6. LastThreadStays
  BY DEF Init, LastThreadStays
<1>7. OnePlace
  <2>1. QueuedOnce
    BY <1>2 DEF QueuedOnce
  <2>2. GivenOnce
    BY DEF Init, GivenOnce
  <2>3. \A c \in Conn : ~Queued(c) /\ ~Given(c)
    BY <1>2, NamesAssumption DEF Init, Queued, QueuedAt, Given
  <2>4. QED
    BY <2>1, <2>2, <2>3 DEF Init, OnePlace
<1>8. QED
  BY <1>3, <1>4, <1>5, <1>6, <1>7 DEF LifecycleInv

-----------------------------------------------------------------------------
(* The steps, one conjunct at a time. *)

(* The steps that leave the queues and the threads alone. *)
Quiet == Start \/ StartRefused \/ StopWithoutServers \/ Delete \/ \E c \in Conn : PeerLeaves(c)

(* Stop of one of the servers. *)
Stops(p) == StopServer(p) /\ starts > 0 /\ UNCHANGED starts

(* A connection is served to its end. *)
ServesOut(w) == at[w] = "serving" /\ Served(w)

LEMMA StepCases ==
    ASSUME LifecycleInv, Next
    PROVE  \/ Quiet
           \/ \E p \in Port : Stops(p)
           \/ \E c \in Conn : Enqueue(c)
           \/ \E d \in Dispatcher : StartThread(d)
           \/ \E w \in Worker : \/ Dequeue(w) \/ TimeOut(w) \/ Serve(w) \/ ServesOut(w)
                                \/ Check(w) \/ Return(w)
<1>1. CASE Main
  BY <1>1 DEF Main, Quiet, StopSoap, StopMex, Stops, Port, LifecycleInv, ServersInTurn
<1>2. CASE \E w \in Worker : Work(w)
  BY <1>2 DEF Work, EndServe, HandleRequest, ServesOut
<1>3. QED
  BY <1>1, <1>2 DEF Next, Quiet

(* What a step does to the count of a dispatcher's threads. *)
LEMMA ThreadSteps ==
    ASSUME LifecycleInv, Next, NEW d \in Dispatcher
    PROVE  \/ Threads(d)' = Threads(d)
           \/ \E w \in Worker : /\ Cardinality(Threads(d)) < MaxThreads[d[1]]
                                /\ Threads(d)' = Threads(d) \cup {w}
           \/ \E w \in Threads(d) : /\ Threads(d)' = Threads(d) \ {w}
                                    /\ d \in stopped \/ Cardinality(Threads(d)) > 1
<1> USE DEF LifecycleInv, TypeOK
<1>1. CASE Quiet
  BY <1>1 DEF Quiet, Start, StartRefused, StopWithoutServers, Delete, PeerLeaves, poolVars, Threads
<1>2. ASSUME NEW p \in Port, Stops(p) PROVE Threads(d)' = Threads(d)
  BY <1>2, SameThreads DEF Stops, StopServer, Idle
<1>3. ASSUME NEW c \in Conn, Enqueue(c) PROVE Threads(d)' = Threads(d)
  <2>1. disp' = disp
    BY <1>3 DEF Enqueue, Arrives
  <2>2. at' = at \/ \E w \in Worker : at[w] = "waiting" /\ at' = [at EXCEPT ![w] = "given"]
    BY <1>3 DEF Enqueue, Put, Refuse, Idle
  <2>3. QED
    BY <2>1, <2>2, SameThreads
<1>4. ASSUME NEW e \in Dispatcher, StartThread(e)
      PROVE  \/ Threads(d)' = Threads(d)
             \/ \E w \in Worker : /\ Cardinality(Threads(d)) < MaxThreads[d[1]]
                                  /\ Threads(d)' = Threads(d) \cup {w}
  <2>1. CASE UNCHANGED <<at, disp>>
    BY <2>1 DEF Threads
  <2>2. CASE ~UNCHANGED <<at, disp>>
    <3>1. PICK w \in Worker : /\ at[w] = "pool"
                              /\ at' = [at EXCEPT ![w] = "dequeuing"]
                              /\ disp' = [disp EXCEPT ![w] = e]
      BY <1>4, <2>2 DEF StartThread
    <3>2. Cardinality(Threads(e)) < MaxThreads[e[1]]
      BY <1>4, <2>2 DEF StartThread
    <3>3. CASE e = d
      <4>1. Threads(d)' = Threads(d) \cup {w}
        BY <3>1, <3>3 DEF Threads
      <4>2. QED
        BY <3>2, <3>3, <4>1
    <3>4. CASE e # d
      BY <3>1, <3>4 DEF Threads
    <3>5. QED
      BY <3>3, <3>4
  <2>3. QED
    BY <2>1, <2>2
<1>5. ASSUME NEW w \in Worker, Dequeue(w) \/ TimeOut(w) \/ Serve(w) PROVE Threads(d)' = Threads(d)
  BY <1>5, SameThreads DEF Dequeue, TimeOut, Serve
<1>6. ASSUME NEW w \in Worker, ServesOut(w) \/ Return(w) PROVE Threads(d)' = Threads(d)
  <2>1. CASE ServesOut(w)
    BY <2>1, SameThreads DEF ServesOut, Served
  <2>2. CASE Return(w)
    BY <2>2, NamesAssumption DEF Return, Threads
  <2>3. QED
    BY <1>6, <2>1, <2>2
<1>7. ASSUME NEW w \in Worker, Check(w)
      PROVE  \/ Threads(d)' = Threads(d)
             \/ \E v \in Threads(d) : /\ Threads(d)' = Threads(d) \ {v}
                                      /\ d \in stopped \/ Cardinality(Threads(d)) > 1
  <2>1. w \in Worker /\ disp' = disp /\ at[w] = "checking"
    BY <1>7 DEF Check
  <2>2. CASE at' = [at EXCEPT ![w] = "dequeuing"]
    BY <2>1, <2>2, SameThreads
  <2>3. CASE at' # [at EXCEPT ![w] = "dequeuing"]
    <3>1. /\ at' = [at EXCEPT ![w] = "returning"]
          /\ disp[w] \in stopped \/ Cardinality(Threads(disp[w])) > 1
      BY <1>7, <2>3 DEF Check
    <3>2. CASE disp[w] = d
      <4>1. w \in Threads(d) /\ Threads(d)' = Threads(d) \ {w}
        BY <2>1, <3>1, <3>2 DEF Threads
      <4>2. QED
        BY <3>1, <3>2, <4>1
    <3>3. CASE disp[w] # d
      BY <2>1, <3>1, <3>3 DEF Threads
    <3>4. QED
      BY <3>2, <3>3
  <2>4. QED
    BY <2>2, <2>3
<1>8. QED
  BY <1>1, <1>2, <1>3, <1>4, <1>5, <1>6, <1>7, StepCases

(* The limits: a queue is no longer than setMaxQueued, a dispatcher has no *)
(* more threads than setMaxThreads.                                        *)
LEMMA KeepsTypes == LifecycleInv /\ Next => TypeOK'
<1> SUFFICES ASSUME LifecycleInv, Next PROVE TypeOK'
  OBVIOUS
<1>1. \A d \in Dispatcher : Cardinality(Threads(d)') <= MaxThreads[d[1]]
  <2> TAKE d \in Dispatcher
  <2>1. /\ MaxThreads[d[1]] \in Nat /\ Cardinality(Threads(d)) <= MaxThreads[d[1]]
        /\ IsFiniteSet(Threads(d)) /\ Cardinality(Threads(d)) \in Nat
    BY DispatcherFacts, ParamsAssumption, ThreadsFinite DEF LifecycleInv, TypeOK
  <2>2. CASE Threads(d)' = Threads(d)
    BY <2>1, <2>2, Zenon
  <2>3. ASSUME NEW w \in Worker, Cardinality(Threads(d)) < MaxThreads[d[1]],
               Threads(d)' = Threads(d) \cup {w}
        PROVE  Cardinality(Threads(d)') <= MaxThreads[d[1]]
    <3>1. Cardinality(Threads(d)') = Cardinality(Threads(d) \cup {w})
      BY <2>3, Zenon
    <3>2. /\ Cardinality(Threads(d) \cup {w}) \in Nat
          /\ Cardinality(Threads(d) \cup {w}) <= Cardinality(Threads(d)) + 1
      BY <2>1, OneMoreOrLess, Zenon
    <3>3. QED
      BY <2>1, <2>3, <3>1, <3>2
  <2>4. ASSUME NEW w \in Threads(d), Threads(d)' = Threads(d) \ {w}
        PROVE  Cardinality(Threads(d)') <= MaxThreads[d[1]]
    <3>1. Cardinality(Threads(d)') = Cardinality(Threads(d) \ {w})
      BY <2>4, Zenon
    <3>2. /\ Cardinality(Threads(d) \ {w}) \in Nat
          /\ Cardinality(Threads(d) \ {w}) <= Cardinality(Threads(d))
      BY <2>1, OneMoreOrLess, Zenon
    <3>3. QED
      BY <2>1, <3>1, <3>2
  <2>5. \/ Threads(d)' = Threads(d)
        \/ \E w \in Worker : /\ Cardinality(Threads(d)) < MaxThreads[d[1]]
                             /\ Threads(d)' = Threads(d) \cup {w}
        \/ \E w \in Threads(d) : /\ Threads(d)' = Threads(d) \ {w}
                                 /\ d \in stopped \/ Cardinality(Threads(d)) > 1
    BY ThreadSteps
  <2>6. CASE \E w \in Worker : /\ Cardinality(Threads(d)) < MaxThreads[d[1]]
                               /\ Threads(d)' = Threads(d) \cup {w}
    BY <2>3, <2>6, Zenon
  <2>7. CASE \E w \in Threads(d) : Threads(d)' = Threads(d) \ {w}
    BY <2>4, <2>7, Zenon
  <2>8. QED
    BY <2>2, <2>5, <2>6, <2>7, Zenon
<1>2. /\ queue' \in [Dispatcher -> Seq(Conn)]
      /\ \A d \in Dispatcher : Len(queue'[d]) <= MaxQueued[d[1]]
      /\ over' \subseteq Conn /\ conn' \in [Worker -> Conn \cup {None}]
  <2> USE DEF LifecycleInv, TypeOK
  <2>1. CASE Quiet
    BY <2>1 DEF Quiet, Start, StartRefused, StopWithoutServers, Delete, PeerLeaves, poolVars
  <2>2. ASSUME NEW p \in Port, Stops(p) PROVE <1>2!:
    <3>1. Current(p) \in Dispatcher
      BY <2>2, DispatcherFacts DEF Stops
    <3>2. 0 <= MaxQueued[p] /\ Current(p)[1] = p
      BY ParamsAssumption, DispatcherFacts
    <3>3. over' \subseteq Conn
      BY <2>2, <3>1 DEF Stops, StopServer
    <3>4. QED
      BY <2>2, <3>1, <3>2, <3>3 DEF Stops, StopServer
  <2>3. ASSUME NEW c \in Conn, Enqueue(c) PROVE <1>2!:
    <3>1. Current(PortOf(c)) \in Dispatcher
      BY <2>3, DispatcherFacts DEF Enqueue, Arrives, Accepting
    <3>2. CASE Refuse(c)
      BY <3>2 DEF Refuse
    <3>3. CASE ~Refuse(c)
      <4> DEFINE d == Current(PortOf(c))
      <4>1. Len(queue[d]) < MaxQueued[d[1]] /\ Put(c, d)
        BY <2>3, <3>3 DEF Enqueue
      <4>2. MaxQueued[d[1]] \in Nat /\ Len(Append(queue[d], c)) = Len(queue[d]) + 1
        BY <3>1, ParamsAssumption, DispatcherFacts
      <4>3. queue' = queue \/ queue' = [queue EXCEPT ![d] = Append(queue[d], c)]
        BY <4>1 DEF Put
      <4>4. conn' \in [Worker -> Conn \cup {None}] /\ over' = over
        BY <4>1 DEF Put
      <4> HIDE DEF d
      <4>5. Append(queue[d], c) \in Seq(Conn) /\ Len(Append(queue[d], c)) <= MaxQueued[d[1]]
        BY <3>1, <4>1, <4>2 DEF d
      <4>6. d \in Dispatcher
        BY <3>1 DEF d
      <4>7. QED
        BY <4>3, <4>4, <4>5, <4>6
    <3>4. QED
      BY <3>2, <3>3
  <2>4. ASSUME NEW d \in Dispatcher, StartThread(d) PROVE <1>2!:
    BY <2>4 DEF StartThread
  <2>5. ASSUME NEW w \in Worker, Dequeue(w) PROVE <1>2!:
    <3>1. disp[w] \in Dispatcher
      BY <2>5 DEF Dequeue, GivenItsOwn
    <3>2. CASE queue[disp[w]] = << >>
      BY <2>5, <3>2 DEF Dequeue
    <3>3. CASE queue[disp[w]] # << >>
      <4>1. Head(queue[disp[w]]) \in Conn /\ Tail(queue[disp[w]]) \in Seq(Conn)
            /\ Len(Tail(queue[disp[w]])) = Len(queue[disp[w]]) - 1
        BY <3>1, <3>3
      <4>2. MaxQueued[disp[w][1]] \in Nat
        BY <3>1, ParamsAssumption, DispatcherFacts
      <4>3. /\ conn' = [conn EXCEPT ![w] = Head(queue[disp[w]])]
            /\ queue' = [queue EXCEPT ![disp[w]] = Tail(queue[disp[w]])]
            /\ over' = over
        BY <2>5, <3>3 DEF Dequeue
      <4>4. Len(Tail(queue[disp[w]])) <= MaxQueued[disp[w][1]]
        BY <3>1, <4>1, <4>2
      <4>5. QED
        BY <3>1, <4>1, <4>3, <4>4
    <3>4. QED
      BY <3>2, <3>3
  <2>6. ASSUME NEW w \in Worker, ServesOut(w) PROVE <1>2!:
    BY <2>6 DEF ServesOut, Served, GivenItsOwn
  <2>7. ASSUME NEW w \in Worker, TimeOut(w) \/ Serve(w) \/ Check(w) \/ Return(w) PROVE <1>2!:
    BY <2>7 DEF TimeOut, Serve, Check, Return
  <2>8. QED
    BY <2>1, <2>2, <2>3, <2>4, <2>5, <2>6, <2>7, StepCases
<1>3. at' \in [Worker -> {"pool", "dequeuing", "waiting", "given", "serving", "checking", "returning"}]
  <2> USE DEF LifecycleInv, TypeOK
  <2>1. CASE Quiet
    BY <2>1 DEF Quiet, Start, StartRefused, StopWithoutServers, Delete, PeerLeaves, poolVars
  <2>2. ASSUME NEW p \in Port, Stops(p) PROVE <1>3!:
    BY <2>2 DEF Stops, StopServer
  <2>3. ASSUME NEW c \in Conn, Enqueue(c) PROVE <1>3!:
    BY <2>3 DEF Enqueue, Refuse, Put
  <2>4. ASSUME NEW d \in Dispatcher, StartThread(d) PROVE <1>3!:
    BY <2>4 DEF StartThread
  <2>5. ASSUME NEW w \in Worker,
               Dequeue(w) \/ TimeOut(w) \/ Serve(w) \/ ServesOut(w) \/ Check(w) \/ Return(w)
        PROVE  <1>3!:
    BY <2>5 DEF Dequeue, TimeOut, Serve, ServesOut, Served, Check, Return
  <2>6. QED
    BY <2>1, <2>2, <2>3, <2>4, <2>5, StepCases
<1>4. disp' \in [Worker -> Dispatcher \cup {None}]
  <2> USE DEF LifecycleInv, TypeOK
  <2>1. CASE Quiet
    BY <2>1 DEF Quiet, Start, StartRefused, StopWithoutServers, Delete, PeerLeaves, poolVars
  <2>2. ASSUME NEW p \in Port, Stops(p) PROVE <1>4!:
    BY <2>2 DEF Stops, StopServer
  <2>3. ASSUME NEW c \in Conn, Enqueue(c) PROVE <1>4!:
    BY <2>3 DEF Enqueue, Arrives
  <2>4. ASSUME NEW d \in Dispatcher, StartThread(d) PROVE <1>4!:
    BY <2>4 DEF StartThread
  <2>5. ASSUME NEW w \in Worker,
               Dequeue(w) \/ TimeOut(w) \/ Serve(w) \/ ServesOut(w) \/ Check(w) \/ Return(w)
        PROVE  <1>4!:
    BY <2>5 DEF Dequeue, TimeOut, Serve, ServesOut, Served, Check, Return
  <2>6. QED
    BY <2>1, <2>2, <2>3, <2>4, <2>5, StepCases
<1>5. /\ main' \in {"built", "started", "stopping", "stopped", "deleted"}
      /\ running' \in BOOLEAN /\ starts' \in 0..MaxStarts
      /\ lost' \in {"no", "assert", "null", "deleted"}
  <2> USE DEF LifecycleInv, TypeOK
  <2>1. CASE Start
    BY <2>1, ParamsAssumption DEF Start
  <2>2. CASE Main /\ ~Start
    BY <2>2 DEF Main, StartRefused, StopSoap, StopMex, StopWithoutServers, Delete, mainVars
  <2>3. ASSUME NEW c \in Conn, Enqueue(c) \/ PeerLeaves(c) PROVE <1>5!:
    BY <2>3 DEF Enqueue, Arrives, PeerLeaves, mainVars
  <2>4. ASSUME NEW d \in Dispatcher, StartThread(d) PROVE <1>5!:
    BY <2>4 DEF StartThread, mainVars
  <2>5. ASSUME NEW w \in Worker, Work(w) PROVE <1>5!:
    BY <2>5
    DEF Work, Dequeue, TimeOut, Serve, EndServe, HandleRequest, Served, Check, Return, mainVars
  <2>6. QED
    BY <2>1, <2>2, <2>3, <2>4, <2>5 DEF Next
<1>6. /\ stopped' \subseteq Dispatcher /\ enqueuing' \subseteq Dispatcher
      /\ peer' \in [Conn -> {"away", "open", "ended", "closed", "reset"}]
  <2> USE DEF LifecycleInv, TypeOK
  <2>1. CASE Quiet
    BY <2>1 DEF Quiet, Start, StartRefused, StopWithoutServers, Delete, PeerLeaves
  <2>2. ASSUME NEW p \in Port, Stops(p) PROVE <1>6!:
    BY <2>2, DispatcherFacts DEF Stops, StopServer
  <2>3. ASSUME NEW c \in Conn, Enqueue(c) PROVE <1>6!:
    BY <2>3, DispatcherFacts DEF Enqueue, Refuse, Put, Arrives, Accepting
  <2>4. ASSUME NEW d \in Dispatcher, StartThread(d) PROVE <1>6!:
    BY <2>4 DEF StartThread
  <2>5. ASSUME NEW w \in Worker,
               Dequeue(w) \/ TimeOut(w) \/ Serve(w) \/ ServesOut(w) \/ Check(w) \/ Return(w)
        PROVE  <1>6!:
    BY <2>5 DEF Dequeue, TimeOut, Serve, ServesOut, Served, Check, Return
  <2>6. QED
    BY <2>1, <2>2, <2>3, <2>4, <2>5, StepCases
<1>7. QED
  BY <1>1, <1>2, <1>3, <1>4, <1>5, <1>6 DEF TypeOK

(* Servers are stopped in turn, and before the next Start. *)
LEMMA KeepsServersInTurn == LifecycleInv /\ Next => ServersInTurn'
<1> SUFFICES ASSUME LifecycleInv, Next PROVE ServersInTurn'
  OBVIOUS
<1> USE DEF LifecycleInv, TypeOK, ServersInTurn
<1>1. CASE Start
  <2>1. \A d \in Dispatcher : d[2] < starts + 1 => d[2] < starts \/ (d[2] = starts /\ starts > 0)
    BY DispatcherFacts, ParamsAssumption
  <2>2. \A d \in Dispatcher : d[2] = starts => d = Current(d[1]) /\ d[1] \in Port
    BY DispatcherFacts DEF Current
  <2>3. main = "built" => starts = 0
    OBVIOUS
  <2>4. \A d \in Dispatcher : d[2] < starts + 1 => d \in stopped
    BY <1>1, <2>1, <2>2, <2>3 DEF Start
  <2>5. \A d \in Dispatcher : d[2] \in Nat /\ (d[2] > starts + 1 => d[2] > starts)
    BY DispatcherFacts, ParamsAssumption
  <2>6. QED
    BY <1>1, <2>4, <2>5 DEF Start, poolVars
<1>2. CASE StartRefused \/ StopWithoutServers \/ Delete
  BY <1>2 DEF StartRefused, StopWithoutServers, Delete, mainVars, poolVars, Current
<1>3. ASSUME NEW p \in Port, Stops(p)
      PROVE  \A d \in Dispatcher :
                /\ d[2] < starts => d \in stopped'
                /\ d[2] > starts => d \notin stopped' /\ \A w \in Worker : disp'[w] # d
                /\ d[2] > starts \/ d \in stopped' => queue'[d] = << >> /\ d \notin enqueuing'
  <2>1. Current(p) \in Dispatcher /\ Current(p)[2] = starts
    BY <1>3, DispatcherFacts DEF Stops
  <2>2. QED
    BY <1>3, <2>1, ParamsAssumption DEF Stops, StopServer
<1>4. CASE StopSoap
  <2>1. Stops("soap") /\ main' = "stopping" /\ starts' = starts /\ starts > 0
    BY <1>4 DEF StopSoap, Stops
  <2>2. Current("soap")' \in stopped'
    BY <2>1 DEF Stops, StopServer, Current
  <2>3. QED
    BY <2>1, <2>2, <1>3 DEF Port
<1>5. CASE StopMex
  <2>1. Stops("mex") /\ main' = "stopped" /\ starts' = starts
    BY <1>5 DEF StopMex, Stops
  <2>2. \A p \in Port : Current(p)' \in stopped'
    BY <1>5 DEF StopMex, StopServer, Current, Port
  <2>3. QED
    BY <2>1, <2>2, <1>3 DEF Port
<1>6. ASSUME NEW c \in Conn, Enqueue(c) PROVE ServersInTurn'
  <2> DEFINE d == Current(PortOf(c))
  <2>1. d \in Dispatcher /\ d[2] = starts /\ d \notin stopped /\ starts \in Nat
    BY <1>6, DispatcherFacts DEF Enqueue, Arrives, Accepting
  <2>2. UNCHANGED <<main, starts, stopped, disp>>
    BY <1>6 DEF Enqueue, Arrives, mainVars
  <2>3. /\ \A e \in Dispatcher : e # d => queue'[e] = queue[e]
        /\ enqueuing' \subseteq enqueuing \cup {d}
    BY <1>6, <2>1 DEF Enqueue, Put, Refuse
  <2>4. \A p \in Port : Current(p)' = Current(p)
    BY <2>2 DEF Current
  <2> HIDE DEF d
  <2>5. \A e \in Dispatcher : e[2] > starts \/ e \in stopped => e # d
    BY <2>1
  <2>6. QED
    BY <2>2, <2>3, <2>4, <2>5 DEF Port
<1>7. ASSUME NEW c \in Conn, PeerLeaves(c) PROVE ServersInTurn'
  BY <1>7 DEF PeerLeaves, mainVars, poolVars, Current
<1>8. ASSUME NEW d \in Dispatcher, StartThread(d) PROVE ServersInTurn'
  <2>1. UNCHANGED <<main, starts, stopped, queue>> /\ enqueuing' \subseteq enqueuing
    BY <1>8 DEF StartThread, mainVars
  <2>2. \A w \in Worker : disp'[w] = disp[w] \/ disp'[w] = d
    BY <1>8 DEF StartThread
  <2>3. ~(d[2] > starts)
    BY <1>8 DEF StartThread
  <2>4. \A p \in Port : Current(p)' = Current(p)
    BY <2>1 DEF Current
  <2>5. QED
    BY <2>1, <2>2, <2>3, <2>4 DEF Port
<1>9. ASSUME NEW w \in Worker, Work(w) PROVE ServersInTurn'
  <2>1. /\ UNCHANGED <<main, starts, stopped, enqueuing>>
        /\ \A v \in Worker : disp'[v] \in {disp[v], None}
    BY <1>9
    DEF Work, Dequeue, TimeOut, Serve, EndServe, HandleRequest, Served, Check, Return, mainVars
  <2>2. \A d \in Dispatcher : queue[d] = << >> => queue'[d] = << >>
    BY <1>9
    DEF Work, Dequeue, TimeOut, Serve, EndServe, HandleRequest, Served, Check, Return
  <2>3. \A p \in Port : Current(p)' = Current(p)
    BY <2>1 DEF Current
  <2>4. QED
    BY <2>1, <2>2, <2>3, NamesAssumption DEF Port
<1>10. QED
  BY <1>1, <1>2, <1>4, <1>5, <1>6, <1>7, <1>8, <1>9 DEF Next, Main

(* A connection is given to a thread of its own port's server. *)
LEMMA KeepsGivenItsOwn == LifecycleInv /\ Next => GivenItsOwn'
<1> SUFFICES ASSUME LifecycleInv, Next PROVE GivenItsOwn'
  OBVIOUS
<1> USE DEF LifecycleInv, TypeOK, GivenItsOwn
<1>1. CASE Quiet
  BY <1>1 DEF Quiet, Start, StartRefused, StopWithoutServers, Delete, PeerLeaves, poolVars
<1>2. ASSUME NEW p \in Port, Stops(p) PROVE GivenItsOwn'
  <2>1. UNCHANGED <<disp, conn>>
    BY <1>2 DEF Stops, StopServer
  <2>2. \A w \in Worker : at'[w] = at[w] \/ (at[w] = "waiting" /\ at'[w] = "checking")
    BY <1>2 DEF Stops, StopServer, Idle
  <2>3. \A d \in Dispatcher : queue'[d] = queue[d] \/ Len(queue'[d]) = 0
    BY <1>2 DEF Stops, StopServer
  <2>4. QED
    BY <2>1, <2>2, <2>3
<1>3. ASSUME NEW c \in Conn, Enqueue(c) PROVE GivenItsOwn'
  <2> DEFINE d == Current(PortOf(c))
  <2>1. d \in Dispatcher /\ d[1] = PortOf(c) /\ disp' = disp
    BY <1>3, DispatcherFacts DEF Enqueue, Arrives, Accepting
  <2>2. Put(c, d) \/ Refuse(c)
    BY <1>3 DEF Enqueue
  <2> HIDE DEF d
  <2>3. CASE Refuse(c)
    BY <2>1, <2>3 DEF Refuse
  <2>4. CASE Put(c, d) /\ UNCHANGED <<at, conn>>
    <3>1. queue' = queue \/ queue' = [queue EXCEPT ![d] = Append(queue[d], c)]
      BY <2>4 DEF Put
    <3>2. \A i \in 1..Len(Append(queue[d], c)) :
             \/ i \in 1..Len(queue[d]) /\ Append(queue[d], c)[i] = queue[d][i]
             \/ Append(queue[d], c)[i] = c
      BY <2>1
    <3>3. \A i \in 1..Len(queue'[d]) : PortOf(queue'[d][i]) = d[1]
      <4>1. CASE queue' = queue
        BY <2>1, <4>1
      <4>2. CASE queue'[d] = Append(queue[d], c)
        BY <2>1, <3>2, <4>2
      <4>3. QED
        BY <2>1, <3>1, <4>1, <4>2
    <3>4. \A e \in Dispatcher : e # d => queue'[e] = queue[e]
      BY <3>1
    <3>5. QED
      BY <2>1, <2>4, <3>3, <3>4
  <2>5. CASE Put(c, d) /\ ~UNCHANGED <<at, conn>>
    <3>1. PICK w \in Idle(d) : /\ at' = [at EXCEPT ![w] = "given"]
                              /\ conn' = [conn EXCEPT ![w] = c]
                              /\ queue' = queue
      BY <2>5 DEF Put
    <3>2. w \in Worker /\ disp[w] = d /\ at[w] = "waiting"
      BY DEF Idle
    <3>3. QED
      BY <2>1, <3>1, <3>2, NamesAssumption
  <2>6. QED
    BY <2>2, <2>3, <2>4, <2>5
<1>4. ASSUME NEW d \in Dispatcher, StartThread(d) PROVE GivenItsOwn'
  BY <1>4, NamesAssumption DEF StartThread
<1>5. ASSUME NEW w \in Worker, Dequeue(w) PROVE GivenItsOwn'
  <2>1. disp[w] \in Dispatcher /\ disp' = disp /\ at[w] = "dequeuing"
    BY <1>5 DEF Dequeue
  <2>2. CASE queue[disp[w]] = << >>
    BY <1>5, <2>1, <2>2 DEF Dequeue
  <2>3. CASE queue[disp[w]] # << >>
    <3>1. /\ at' = [at EXCEPT ![w] = "given"]
          /\ conn' = [conn EXCEPT ![w] = Head(queue[disp[w]])]
          /\ queue' = [queue EXCEPT ![disp[w]] = Tail(queue[disp[w]])]
      BY <1>5, <2>3 DEF Dequeue
    <3>2. /\ 1 \in 1..Len(queue[disp[w]]) /\ Head(queue[disp[w]]) = queue[disp[w]][1]
          /\ Head(queue[disp[w]]) \in Conn
          /\ \A i \in 1..Len(Tail(queue[disp[w]])) :
                /\ i + 1 \in 1..Len(queue[disp[w]])
                /\ Tail(queue[disp[w]])[i] = queue[disp[w]][i + 1]
      BY <2>1, <2>3
    <3>3. QED
      BY <2>1, <3>1, <3>2, NamesAssumption
  <2>4. QED
    BY <2>2, <2>3
<1>6. ASSUME NEW w \in Worker, TimeOut(w) \/ Serve(w) \/ ServesOut(w) \/ Check(w) \/ Return(w)
      PROVE  GivenItsOwn'
  BY <1>6, NamesAssumption DEF TimeOut, Serve, ServesOut, Served, Check, Return
<1>7. QED
  BY <1>1, <1>2, <1>3, <1>4, <1>5, <1>6, StepCases

(* The last thread of a server counts itself and stays. *)
LEMMA KeepsLastThread == LifecycleInv /\ Next => LastThreadStays'
<1> SUFFICES ASSUME LifecycleInv, Next, NEW w \in Worker, at'[w] = "returning", disp'[w] \notin stopped'
             PROVE  Threads(disp[w])' # {} /\ disp'[w] = disp[w]
  BY DEF LastThreadStays
<1>1. stopped \subseteq stopped'
  BY DEF Next, Main, Start, StartRefused, StopSoap, StopMex, StopWithoutServers, Delete,
         StopServer, Enqueue, Arrives, PeerLeaves, StartThread, Work, Dequeue, TimeOut, Serve,
         EndServe, HandleRequest, Served, Check, Return
<1>2. /\ disp'[w] = disp[w] /\ disp[w] \in Dispatcher
      /\ at[w] = "returning" \/ w \in Threads(disp[w])
  <2> USE DEF LifecycleInv, TypeOK
  <2>1. at[w] # "pool" => disp[w] \in Dispatcher
    BY DEF GivenItsOwn
  <2>2. CASE Quiet
    BY <2>1, <2>2 DEF Quiet, Start, StartRefused, StopWithoutServers, Delete, PeerLeaves, poolVars
  <2>3. ASSUME NEW p \in Port, Stops(p) PROVE <1>2!:
    BY <2>1, <2>3 DEF Stops, StopServer
  <2>4. ASSUME NEW c \in Conn, Enqueue(c) PROVE <1>2!:
    BY <2>1, <2>4 DEF Enqueue, Arrives, Put, Refuse
  <2>5. ASSUME NEW d \in Dispatcher, StartThread(d) PROVE <1>2!:
    BY <2>1, <2>5 DEF StartThread
  <2>6. ASSUME NEW v \in Worker,
               Dequeue(v) \/ TimeOut(v) \/ Serve(v) \/ ServesOut(v) \/ Check(v) \/ Return(v)
        PROVE  <1>2!:
    BY <2>1, <2>6 DEF Dequeue, TimeOut, Serve, ServesOut, Served, Check, Return, Threads
  <2>7. QED
    BY <2>2, <2>3, <2>4, <2>5, <2>6, StepCases
<1>3. Threads(disp[w]) # {} /\ disp[w] \notin stopped
  BY <1>1, <1>2 DEF LifecycleInv, LastThreadStays
<1>4. PICK d \in Dispatcher : d = disp[w]
  BY <1>2
<1>5. Threads(d)' # {}
  <2>1. CASE Threads(d)' = Threads(d)
    BY <1>3, <1>4, <2>1
  <2>2. ASSUME NEW v, Threads(d)' = Threads(d) \cup {v} PROVE Threads(d)' # {}
    BY <2>2
  <2>3. ASSUME NEW v \in Threads(d), Threads(d)' = Threads(d) \ {v}, Cardinality(Threads(d)) > 1
        PROVE  Threads(d)' # {}
    <3>1. Threads(d) \ {v} # {}
      BY <2>3, ThreadsFinite, OneMoreOrLess
    <3>2. QED
      BY <2>3, <3>1
  <2>4. \/ Threads(d)' = Threads(d)
        \/ \E v \in Worker : Threads(d)' = Threads(d) \cup {v}
        \/ \E v \in Threads(d) : Threads(d)' = Threads(d) \ {v} /\ Cardinality(Threads(d)) > 1
    <3>1. d \notin stopped
      BY <1>3, <1>4
    <3>2. QED
      BY <3>1, ThreadSteps
  <2>5. QED
    BY <2>1, <2>2, <2>3, <2>4
<1>6. QED
  BY <1>2, <1>4, <1>5

(* What becomes of the places when nothing moves. *)
LEMMA PlacesStay ==
    ASSUME OnePlace, UNCHANGED <<queue, conn, over>>,
           \A c \in Conn : peer[c] = "away" <=> peer'[c] = "away"
    PROVE  OnePlace'
<1>1. QueuedOnce' /\ GivenOnce' /\ \A c : (Queued(c)' <=> Queued(c)) /\ (Given(c)' <=> Given(c))
  BY DEF OnePlace, QueuedOnce, GivenOnce, Queued, QueuedAt, Given
<1>2. QED
  BY <1>1 DEF OnePlace

(* A connection is appended to a queue it was not in ... *)
LEMMA Appended ==
    ASSUME TypeOK, QueuedOnce, NEW d \in Dispatcher, NEW c \in Conn, ~Queued(c),
           queue' = [queue EXCEPT ![d] = Append(queue[d], c)]
    PROVE  QueuedOnce' /\ \A b \in Conn : Queued(b)' <=> Queued(b) \/ b = c
<1>1. queue[d] \in Seq(Conn) /\ queue'[d] = Append(queue[d], c)
  BY DEF TypeOK
<1>2. \A e \in Dispatcher : e # d => queue'[e] = queue[e]
  BY DEF TypeOK
<1>3. /\ Len(queue[d]) \in Nat /\ Len(queue'[d]) = Len(queue[d]) + 1
      /\ queue'[d][Len(queue[d]) + 1] = c
      /\ \A i \in 1..Len(queue[d]) : queue'[d][i] = queue[d][i]
  BY <1>1
<1>4. \A e \in Dispatcher : Len(queue[e]) \in Nat /\ \A i \in 1..Len(queue[e]) : queue[e][i] # c
  BY DEF TypeOK, Queued, QueuedAt
<1>5. ASSUME NEW e \in Dispatcher, NEW i \in 1..Len(queue'[e])
      PROVE  \/ i \in 1..Len(queue[e]) /\ queue'[e][i] = queue[e][i] /\ queue[e][i] # c
             \/ e = d /\ i = Len(queue[d]) + 1 /\ queue'[e][i] = c
  <2>1. CASE e # d
    BY <1>2, <1>4, <2>1
  <2>2. CASE e = d /\ i # Len(queue[d]) + 1
    <3>1. i \in 1..Len(queue[d])
      BY <1>3, <2>2
    <3>2. QED
      BY <1>3, <1>4, <2>2, <3>1
  <2>3. CASE e = d /\ i = Len(queue[d]) + 1
    BY <1>3, <2>3
  <2>4. QED
    BY <2>1, <2>2, <2>3
<1>6. QueuedOnce'
  <2> SUFFICES ASSUME NEW e \in Dispatcher, NEW f \in Dispatcher, NEW i \in 1..Len(queue'[e]),
                      NEW j \in 1..Len(queue'[f]), queue'[e][i] = queue'[f][j]
               PROVE  e = f /\ i = j
    BY DEF QueuedOnce
  <2>1. CASE queue'[e][i] = c
    BY <1>5, <2>1
  <2>2. CASE queue'[e][i] # c
    <3>1. i \in 1..Len(queue[e]) /\ j \in 1..Len(queue[f]) /\ queue[e][i] = queue[f][j]
      BY <1>5, <2>2
    <3>2. QED
      BY <3>1 DEF QueuedOnce
  <2>3. QED
    BY <2>1, <2>2
<1>7. ASSUME NEW b \in Conn PROVE Queued(b)' <=> Queued(b) \/ b = c
  <2>1. ASSUME NEW e \in Dispatcher, NEW i \in 1..Len(queue'[e]), queue'[e][i] = b
        PROVE  Queued(b) \/ b = c
    BY <1>5, <2>1 DEF Queued, QueuedAt
  <2>2. ASSUME NEW e \in Dispatcher, NEW i \in 1..Len(queue[e]), queue[e][i] = b
        PROVE  i \in 1..Len(queue'[e]) /\ queue'[e][i] = b
    <3>1. CASE e = d
      BY <1>3, <2>2, <3>1
    <3>2. CASE e # d
      BY <1>2, <2>2, <3>2
    <3>3. QED
      BY <3>1, <3>2
  <2>3. b = c => Len(queue[d]) + 1 \in 1..Len(queue'[d]) /\ queue'[d][Len(queue[d]) + 1] = b
    BY <1>3
  <2>4. Queued(b)' => Queued(b) \/ b = c
    BY <2>1 DEF Queued, QueuedAt
  <2>5. Queued(b) => Queued(b)'
    BY <2>2 DEF Queued, QueuedAt
  <2>6. b = c => Queued(b)'
    BY <2>3 DEF Queued, QueuedAt
  <2>7. QED
    BY <2>4, <2>5, <2>6
<1>8. QED
  BY <1>6, <1>7

(* ... and the first of a queue is taken from it. *)
LEMMA Taken ==
    ASSUME TypeOK, QueuedOnce, NEW d \in Dispatcher, queue[d] # << >>,
           queue' = [queue EXCEPT ![d] = Tail(queue[d])]
    PROVE  QueuedOnce' /\ Queued(Head(queue[d]))
           /\ \A b \in Conn : Queued(b)' <=> Queued(b) /\ b # Head(queue[d])
<1>1. queue[d] \in Seq(Conn) /\ queue'[d] = Tail(queue[d])
  BY DEF TypeOK
<1>2. \A e \in Dispatcher : e # d => queue'[e] = queue[e]
  BY DEF TypeOK
<1>3. PICK c : c = Head(queue[d])
  OBVIOUS
<1>4. /\ 1 \in 1..Len(queue[d]) /\ queue[d][1] = c
      /\ Len(queue[d]) \in Nat /\ Len(queue'[d]) = Len(queue[d]) - 1
      /\ \A i \in 1..Len(queue'[d]) : i + 1 \in 1..Len(queue[d]) /\ queue'[d][i] = queue[d][i + 1]
  <2> DEFINE s == queue[d]
  <2>1. s \in Seq(Conn) /\ s # << >>
    BY <1>1
  <2>2. Len(s) \in Nat /\ Len(s) > 0 /\ Head(s) = s[1] /\ Len(Tail(s)) = Len(s) - 1
    BY <2>1
  <2>3. \A i \in 1..Len(Tail(s)) : Tail(s)[i] = s[i + 1]
    BY <2>1
  <2>4. \A i \in 1..Len(s) - 1 : i + 1 \in 1..Len(s)
    BY <2>2
  <2> HIDE DEF s
  <2>5. /\ 1 \in 1..Len(s) /\ Len(Tail(s)) = Len(s) - 1
        /\ \A i \in 1..Len(Tail(s)) : i + 1 \in 1..Len(s) /\ Tail(s)[i] = s[i + 1]
    BY <2>2, <2>3, <2>4
  <2>6. QED
    BY <1>1, <1>3, <2>2, <2>5 DEF s
<1>5. \A e \in Dispatcher : Len(queue[e]) \in Nat
  BY DEF TypeOK
<1>6. \A e \in Dispatcher : \A i \in 1..Len(queue[e]) : queue[e][i] = c => e = d /\ i = 1
  BY <1>4 DEF QueuedOnce
<1>7. ASSUME NEW e \in Dispatcher, NEW i \in 1..Len(queue'[e])
      PROVE  /\ queue'[e][i] # c
             /\ IF e = d THEN i + 1 \in 1..Len(queue[e]) /\ queue'[e][i] = queue[e][i + 1]
                         ELSE i \in 1..Len(queue[e]) /\ queue'[e][i] = queue[e][i]
  <2>1. CASE e = d
    <3>1. i \in Nat /\ i > 0 /\ i + 1 \in 1..Len(queue[d]) /\ queue'[d][i] = queue[d][i + 1]
      BY <1>4, <2>1
    <3>2. QED
      BY <1>6, <2>1, <3>1
  <2>2. CASE e # d
    BY <1>2, <1>6, <2>2
  <2>3. QED
    BY <2>1, <2>2
<1>8. QueuedOnce'
  <2> SUFFICES ASSUME NEW e \in Dispatcher, NEW f \in Dispatcher, NEW i \in 1..Len(queue'[e]),
                      NEW j \in 1..Len(queue'[f]), queue'[e][i] = queue'[f][j]
               PROVE  e = f /\ i = j
    BY DEF QueuedOnce
  <2>1. i \in Int /\ j \in Int
    OBVIOUS
  <2>2. QED
    BY <1>7, <2>1 DEF QueuedOnce
<1>9. Queued(c)
  BY <1>4 DEF Queued, QueuedAt
<1>10. ASSUME NEW b \in Conn PROVE Queued(b)' <=> Queued(b) /\ b # c
  <2>1. ASSUME NEW e \in Dispatcher, NEW i \in 1..Len(queue'[e]), queue'[e][i] = b
        PROVE  Queued(b) /\ b # c
    BY <1>7, <2>1 DEF Queued, QueuedAt
  <2>2. ASSUME NEW e \in Dispatcher, NEW i \in 1..Len(queue[e]), queue[e][i] = b, b # c
        PROVE  \E j \in 1..Len(queue'[e]) : queue'[e][j] = b
    <3>1. CASE e = d
      <4>1. i # 1 /\ i - 1 \in 1..Len(queue'[d])
        BY <1>4, <2>2, <3>1
      <4>2. queue'[d][i - 1] = queue[d][i]
        BY <1>4, <4>1
      <4>3. QED
        BY <2>2, <3>1, <4>1, <4>2
    <3>2. CASE e # d
      BY <1>2, <2>2, <3>2
    <3>3. QED
      BY <3>1, <3>2
  <2>3. Queued(b)' => Queued(b) /\ b # c
    BY <2>1 DEF Queued, QueuedAt
  <2>4. Queued(b) /\ b # c => Queued(b)'
    BY <2>2 DEF Queued, QueuedAt
  <2>5. QED
    BY <2>3, <2>4
<1>11. QED
  BY <1>3, <1>8, <1>9, <1>10

(* A connection is given to a thread that has none. *)
LEMMA Gives ==
    ASSUME TypeOK, GivenOnce, NEW w \in Worker, NEW c \in Conn, conn[w] = None, ~Given(c),
           conn' = [conn EXCEPT ![w] = c]
    PROVE  GivenOnce' /\ \A b \in Conn : Given(b)' <=> Given(b) \/ b = c
<1>1. conn'[w] = c /\ c # None /\ \A v \in Worker : v # w => conn'[v] = conn[v] /\ conn[v] # c
  BY NamesAssumption DEF TypeOK, Given
<1>2. GivenOnce'
  BY <1>1 DEF GivenOnce
<1>3. \A b \in Conn : Given(b)' <=> Given(b) \/ b = c
  BY <1>1, NamesAssumption DEF Given
<1>4. QED
  BY <1>2, <1>3

(* Conjunct by conjunct of OnePlace, from what became of the places. *)
LEMMA KeepsOnePlace ==
    ASSUME LifecycleInv, Next
    PROVE  OnePlace'
<1>1. /\ TypeOK /\ GivenItsOwn /\ OnePlace /\ QueuedOnce /\ GivenOnce
      /\ \A c \in Conn : /\ ~(Queued(c) /\ Given(c))
                         /\ Queued(c) \/ Given(c) <=> peer[c] # "away" /\ c \notin over
                         /\ c \in over => peer[c] # "away"
  BY DEF LifecycleInv, OnePlace
<1>2. queue' = queue => QueuedOnce' /\ \A b : Queued(b)' <=> Queued(b)
  BY <1>1 DEF QueuedOnce, Queued, QueuedAt
<1>3. conn' = conn => GivenOnce' /\ \A b : Given(b)' <=> Given(b)
  BY <1>1 DEF GivenOnce, Given
<1>4. ASSUME Quiet \/ \E d \in Dispatcher : StartThread(d)
      PROVE  OnePlace'
  <2>1. UNCHANGED <<queue, conn, over>>
    BY <1>4 DEF Quiet, Start, StartRefused, StopWithoutServers, Delete, PeerLeaves, StartThread,
                poolVars
  <2>2. \A c \in Conn : peer[c] = "away" <=> peer'[c] = "away"
    BY <1>1, <1>4 DEF Quiet, Start, StartRefused, StopWithoutServers, Delete, PeerLeaves,
                      StartThread, TypeOK
  <2>3. QED
    BY <1>1, <2>1, <2>2, PlacesStay
<1>5. ASSUME NEW w \in Worker, TimeOut(w) \/ Serve(w) \/ Check(w) \/ Return(w)
      PROVE  OnePlace'
  <2>1. UNCHANGED <<queue, conn, over, peer>>
    BY <1>5 DEF TimeOut, Serve, Check, Return
  <2>2. QED
    BY <1>1, <2>1, PlacesStay
<1>6. ASSUME NEW c \in Conn, Enqueue(c)
      PROVE  OnePlace'
  <2>1. PICK d \in Dispatcher : d = Current(PortOf(c))
    BY <1>1, <1>6, DispatcherFacts DEF Enqueue, Arrives, Accepting, TypeOK
  <2>2. /\ peer[c] = "away" /\ peer'[c] = "open"
        /\ \A b \in Conn : b # c => peer'[b] = peer[b]
    BY <1>1, <1>6 DEF Enqueue, Arrives, TypeOK
  <2>3. ~Queued(c) /\ ~Given(c) /\ c \notin over
    BY <1>1, <2>2
  <2>4. CASE Refuse(c)
    <3>1. queue' = queue /\ conn' = conn /\ over' = over \cup {c}
      BY <2>4 DEF Refuse
    <3>2. QED
      BY <1>1, <1>2, <1>3, <2>2, <2>3, <3>1 DEF OnePlace
  <2>5. CASE queue' = [queue EXCEPT ![d] = Append(queue[d], c)] /\ conn' = conn /\ over' = over
    <3>1. QueuedOnce' /\ \A b \in Conn : Queued(b)' <=> Queued(b) \/ b = c
      BY <1>1, <2>3, <2>5, Appended
    <3>2. QED
      BY <1>1, <1>3, <2>2, <2>3, <2>5, <3>1 DEF OnePlace
  <2>6. ASSUME NEW w \in Idle(d), conn' = [conn EXCEPT ![w] = c], queue' = queue, over' = over
        PROVE  OnePlace'
    <3>1. w \in Worker /\ conn[w] = None
      BY <1>1 DEF Idle, GivenItsOwn
    <3>2. GivenOnce' /\ \A b \in Conn : Given(b)' <=> Given(b) \/ b = c
      BY <1>1, <2>3, <2>6, <3>1, Gives
    <3>3. QED
      BY <1>1, <1>2, <2>2, <2>3, <2>6, <3>2 DEF OnePlace
  <2>7. Refuse(c) \/ Put(c, d)
    BY <1>6, <2>1 DEF Enqueue
  <2>8. CASE Put(c, d)
    BY <2>5, <2>6, <2>8 DEF Put
  <2>9. QED
    BY <2>4, <2>7, <2>8
<1>7. ASSUME NEW w \in Worker, Dequeue(w)
      PROVE  OnePlace'
  <2>1. PICK d \in Dispatcher : d = disp[w]
    BY <1>1, <1>7 DEF Dequeue, GivenItsOwn, TypeOK
  <2>2. CASE queue[d] = << >>
    <3>1. UNCHANGED <<queue, conn, over, peer>>
      BY <1>7, <2>1, <2>2 DEF Dequeue
    <3>2. QED
      BY <1>1, <3>1, PlacesStay
  <2>3. CASE queue[d] # << >>
    <3>1. PICK c : c = Head(queue[d])
      OBVIOUS
    <3>2. /\ queue' = [queue EXCEPT ![d] = Tail(queue[d])]
          /\ conn' = [conn EXCEPT ![w] = c] /\ conn[w] = None
          /\ over' = over /\ peer' = peer
      BY <1>1, <1>7, <2>1, <2>3, <3>1 DEF Dequeue, GivenItsOwn
    <3>3. c \in Conn
      <4>1. queue[d] \in Seq(Conn)
        BY <1>1 DEF TypeOK
      <4>2. QED
        BY <2>3, <3>1, <4>1
    <3>4. QueuedOnce' /\ Queued(c) /\ \A b \in Conn : Queued(b)' <=> Queued(b) /\ b # c
      BY <1>1, <2>3, <3>1, <3>2, Taken
    <3>5. ~Given(c)
      BY <1>1, <3>3, <3>4
    <3>6. GivenOnce' /\ \A b \in Conn : Given(b)' <=> Given(b) \/ b = c
      BY <1>1, <3>2, <3>3, <3>5, Gives
    <3>7. QED
      BY <1>1, <3>2, <3>3, <3>4, <3>5, <3>6 DEF OnePlace
  <2>4. QED
    BY <2>2, <2>3
<1>8. ASSUME NEW w \in Worker, ServesOut(w)
      PROVE  OnePlace'
  <2>1. PICK c \in Conn : c = conn[w]
    BY <1>1, <1>8 DEF ServesOut, GivenItsOwn, TypeOK
  <2>2. /\ queue' = queue /\ over' = over \cup {c} /\ peer' = peer
        /\ conn'[w] = None /\ \A v \in Worker : v # w => conn'[v] = conn[v]
    BY <1>1, <1>8, <2>1 DEF ServesOut, Served, TypeOK
  <2>3. Given(c) /\ \A v \in Worker : v # w => conn[v] # c
    BY <1>1, <2>1, NamesAssumption DEF Given, GivenOnce
  <2>4. GivenOnce' /\ \A b \in Conn : Given(b)' <=> Given(b) /\ b # c
    <3>1. GivenOnce'
      BY <1>1, <2>2 DEF GivenOnce
    <3>2. \A b \in Conn : b # None
      BY NamesAssumption
    <3>3. QED
      BY <2>1, <2>2, <2>3, <3>1, <3>2 DEF Given
  <2>5. QED
    BY <1>1, <1>2, <2>2, <2>3, <2>4 DEF OnePlace
<1>9. ASSUME NEW p \in Port, Stops(p)
      PROVE  OnePlace'
  <2>1. PICK d \in Dispatcher : d = Current(p)
    BY <1>1, <1>9, DispatcherFacts DEF Stops, TypeOK
  <2>2. /\ queue'[d] = << >> /\ \A e \in Dispatcher : e # d => queue'[e] = queue[e]
        /\ over' = over \cup {queue[d][i] : i \in 1..Len(queue[d])}
        /\ conn' = conn /\ peer' = peer
    BY <1>1, <1>9, <2>1 DEF Stops, StopServer, TypeOK
  <2>3. QueuedOnce' /\ \A b \in Conn : Queued(b)' <=> Queued(b) /\ ~QueuedAt(b, d)
    <3>1. Len(queue'[d]) = 0
      BY <2>2
    <3>2. \A e \in Dispatcher : \A i \in 1..Len(queue'[e]) : e # d
      BY <3>1
    <3>3. QueuedOnce'
      BY <1>1, <2>2, <3>2 DEF QueuedOnce
    <3>4. ASSUME NEW b \in Conn, QueuedAt(b, d), NEW e \in Dispatcher, QueuedAt(b, e)
          PROVE  e = d
      BY <1>1, <3>4 DEF QueuedOnce, QueuedAt
    <3>5. \A b \in Conn, e \in Dispatcher : QueuedAt(b, e)' <=> e # d /\ QueuedAt(b, e)
      BY <2>2, <3>2 DEF QueuedAt
    <3>6. QED
      BY <3>3, <3>4, <3>5 DEF Queued
  <2>4. \A b \in Conn : b \in over' <=> b \in over \/ QueuedAt(b, d)
    BY <2>2 DEF QueuedAt
  <2>5. \A b \in Conn : QueuedAt(b, d) => Queued(b)
    BY DEF Queued
  <2>6. QED
    BY <1>1, <1>3, <2>2, <2>3, <2>4, <2>5 DEF OnePlace
<1>10. QED
  BY <1>4, <1>5, <1>6, <1>7, <1>8, <1>9, StepCases

-----------------------------------------------------------------------------

LEMMA LifecycleStep == LifecycleInv /\ [Next]_vars => LifecycleInv'
<1>1. LifecycleInv /\ Next => LifecycleInv'
  BY KeepsTypes, KeepsServersInTurn, KeepsGivenItsOwn, KeepsLastThread, KeepsOnePlace
  DEF LifecycleInv
<1>2. LifecycleInv /\ UNCHANGED vars => LifecycleInv'
  BY DEF LifecycleInv, TypeOK, ServersInTurn, GivenItsOwn, LastThreadStays, OnePlace, QueuedOnce,
         GivenOnce, Queued, QueuedAt, Given, Threads, Current, vars, mainVars, poolVars
<1>3. QED
  BY <1>1, <1>2

(* The invariant of the servers and their threads is inductive: with it    *)
(* the limits of queues and threads are kept, and the last thread of a     *)
(* server that is not stopped stays.                                       *)
THEOREM LifecycleInvariant == Spec => []LifecycleInv
  BY LifecycleInitially, LifecycleStep, PTL DEF Spec

(* What a connection's places are. *)
LEMMA PlacesAre ==
    ASSUME NEW c, NEW x
    PROVE  x \in Places(c) <=>
               \/ x \in Worker /\ conn[x] = c
               \/ \E d \in Dispatcher : \E i \in 1..Len(queue[d]) : x = <<d, i>> /\ queue[d][i] = c
<1> DEFINE At(d) == {<<d, i>> : i \in {j \in 1..Len(queue[d]) : queue[d][j] = c}}
<1>1. \A d : x \in At(d) <=> \E i \in 1..Len(queue[d]) : x = <<d, i>> /\ queue[d][i] = c
  OBVIOUS
<1>2. x \in QueuePlaces(c) <=> \E d \in Dispatcher : x \in At(d)
  BY Zenon DEF QueuePlaces
<1>3. x \in ThreadPlaces(c) <=> x \in Worker /\ conn[x] = c
  BY DEF ThreadPlaces
<1>4. x \in Places(c) <=> x \in QueuePlaces(c) \/ x \in ThreadPlaces(c)
  BY DEF Places
<1>5. QED
  BY <1>1, <1>2, <1>3, <1>4

(* An accepted connection is in one queue or with one thread, until it is  *)
(* over: none is lost and none is served twice.                            *)
THEOREM EachAcceptedOnce == Spec => []AcceptedOnce
<1>1. LifecycleInv => AcceptedOnce
  <2> SUFFICES ASSUME LifecycleInv, NEW c \in Conn
               PROVE  Cardinality(Places(c)) = IF peer[c] = "away" \/ c \in over THEN 0 ELSE 1
    BY DEF AcceptedOnce
  <2>1. /\ QueuedOnce /\ GivenOnce /\ ~(Queued(c) /\ Given(c))
        /\ Queued(c) \/ Given(c) <=> peer[c] # "away" /\ c \notin over
    BY DEF LifecycleInv, OnePlace
  <2>2. (\E x : x \in Places(c)) <=> Queued(c) \/ Given(c)
    BY PlacesAre DEF Queued, QueuedAt, Given
  <2>3. ASSUME NEW x \in Places(c), NEW y \in Places(c)
        PROVE  x = y
    <3>1. CASE Queued(c)
      <4>1. ~Given(c)
        BY <2>1, <3>1
      <4>2. PICK d \in Dispatcher : \E i \in 1..Len(queue[d]) : x = <<d, i>> /\ queue[d][i] = c
        BY <2>3, <4>1, PlacesAre DEF Given
      <4>3. PICK e \in Dispatcher : \E j \in 1..Len(queue[e]) : y = <<e, j>> /\ queue[e][j] = c
        BY <2>3, <4>1, PlacesAre DEF Given
      <4>4. QED
        BY <2>1, <4>2, <4>3 DEF QueuedOnce
    <3>2. CASE ~Queued(c)
      <4>1. /\ x \in Worker /\ conn[x] = c
            /\ y \in Worker /\ conn[y] = c
        BY <2>3, <3>2, PlacesAre DEF Queued, QueuedAt
      <4>2. c # None
        BY NamesAssumption
      <4>3. QED
        BY <2>1, <4>1, <4>2 DEF GivenOnce
    <3>3. QED
      BY <3>1, <3>2
  <2>4. CASE Places(c) = {}
    <3>1. Cardinality(Places(c)) = 0
      BY <2>4, FS_EmptySet, Zenon
    <3>2. QED
      BY <2>1, <2>2, <2>4, <3>1
  <2>5. CASE Places(c) # {}
    <3>1. PICK x : Places(c) = {x}
      BY <2>3, <2>5
    <3>2. Cardinality(Places(c)) = 1
      BY <3>1, FS_Singleton, Zenon
    <3>3. QED
      BY <2>1, <2>2, <2>5, <3>2
  <2>6. QED
    BY <2>4, <2>5
<1>2. QED
  BY <1>1, LifecycleInvariant, PTL
=============================================================================
