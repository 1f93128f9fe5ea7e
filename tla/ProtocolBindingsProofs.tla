----------------------- MODULE ProtocolBindingsProofs -----------------------
(***************************************************************************)
(* For any connections, calls and names: the registry never points at a    *)
(* destroyed connection and a call never sends on one; a client nobody     *)
(* shares its name with stays registered, and until a client has left a    *)
(* call that finds one introduced is defined.                              *)
(***************************************************************************)
EXTENDS ProtocolBindings, WellFoundedInduction, TLAPS

(* m_protocolBindings[n] = c keeps the other entries. *)
LEMMA BindFacts ==
    ASSUME NEW n, NEW c, Bind(n, c)
    PROVE  /\ DOMAIN bindings' = DOMAIN bindings \cup {n}
           /\ bindings'[n] = c
           /\ \A m \in DOMAIN bindings : m # n => bindings'[m] = bindings[m]
  BY DEF Bind

(* begin() of a registry that is not empty is an entry of it: the names    *)
(* are ordered, so one of them is the least.                               *)
LEMMA FirstExists ==
    ASSUME TypeOK, DOMAIN bindings # {}
    PROVE  \E n \in DOMAIN bindings : IsFirst(n)
<1>1. DOMAIN bindings \subseteq Nat
  BY NameAssumption DEF TypeOK
<1>2. PICK n \in DOMAIN bindings :
          \A m \in DOMAIN bindings : ~(<<m, n>> \in OpToRel(<, Nat))
  <2>1. IsWellFoundedOn(OpToRel(<, Nat), Nat)
    BY NatLessThanWellFounded
  <2>2. QED
    BY <1>1, <2>1, WFMin
<1>3. ASSUME NEW m \in DOMAIN bindings PROVE n <= m
  <2>1. m \in Nat /\ n \in Nat
    BY <1>1
  <2>2. ~(m < n)
    BY <1>2, <2>1, Zenon DEF OpToRel
  <2>3. QED
    BY <2>1, <2>2
<1>4. QED
  BY <1>2, <1>3 DEF IsFirst

(* The registry starts empty. *)
LEMMA InitEstablishes == Init => BindingsInv
  BY NameAssumption, NoneAssumption
  DEF Init, BindingsInv, TypeOK, NoDanglingBinding, LockHolder, TargetBound,
      NullsAreOfDestroyed, RegisteredOrDisplaced, DefinedUntilAClose

(* A preamble: the name of c is new in the registry, or c replaces the     *)
(* connection registered under it; no call is sending meanwhile.           *)
LEMMA SetBindingNamePreserves ==
    ASSUME BindingsInv, NEW c \in Conn, NEW n \in Name, SetBindingName(c, n)
    PROVE  BindingsInv'
<1>1. /\ DOMAIN bindings' = DOMAIN bindings \cup {n}
      /\ bindings'[n] = c
      /\ \A m \in DOMAIN bindings : m # n => bindings'[m] = bindings[m]
  BY BindFacts DEF SetBindingName
<1>2. \A k \in Call : call[k] \notin {"holding", "sending"}
  BY NoneAssumption DEF BindingsInv, LockHolder, SetBindingName
<1>3. TypeOK'
  BY <1>1 DEF BindingsInv, TypeOK, SetBindingName
<1>4. NoDanglingBinding'
  <2> SUFFICES ASSUME NEW m \in DOMAIN bindings', bindings'[m] # None
               PROVE  /\ conn'[bindings'[m]] \in {"bound", "finished"}
                      /\ name'[bindings'[m]] = m
    BY DEF NoDanglingBinding
  <2>1. CASE m = n
    BY <1>1, <2>1 DEF BindingsInv, TypeOK, SetBindingName
  <2>2. CASE m # n
    <3>1. m \in DOMAIN bindings /\ bindings'[m] = bindings[m]
      BY <1>1, <2>2
    <3>2. conn[bindings[m]] \in {"bound", "finished"} /\ name[bindings[m]] = m
      BY <3>1 DEF BindingsInv, NoDanglingBinding
    <3>3. bindings[m] # c
      BY <3>2 DEF SetBindingName
    <3>4. QED
      BY <3>1, <3>2, <3>3 DEF BindingsInv, TypeOK, SetBindingName
  <2>3. QED
    BY <2>1, <2>2
<1>5. LockHolder' /\ TargetBound'
  BY <1>2 DEF LockHolder, TargetBound, SetBindingName
<1>6. NullsAreOfDestroyed'
  <2> SUFFICES ASSUME NEW m \in DOMAIN bindings', bindings'[m] = None
               PROVE  \E d \in Conn : conn'[d] \in {"unbound", "gone"} /\ name'[d] = m
    BY DEF NullsAreOfDestroyed
  <2>1. m \in DOMAIN bindings /\ bindings[m] = None
    BY <1>1, NoneAssumption
  <2>2. PICK d \in Conn : conn[d] \in {"unbound", "gone"} /\ name[d] = m
    BY <2>1 DEF BindingsInv, NullsAreOfDestroyed
  <2>3. d # c
    BY <2>2 DEF SetBindingName
  <2>4. QED
    BY <2>2, <2>3 DEF BindingsInv, TypeOK, SetBindingName
<1>7. RegisteredOrDisplaced'
  <2> SUFFICES ASSUME NEW d \in Conn, conn'[d] = "bound"
               PROVE  /\ name'[d] \in DOMAIN bindings'
                      /\ \/ bindings'[name'[d]] = d
                         \/ \E e \in Conn \ {d} :
                               conn'[e] \notin {"new", "accepted"} /\ name'[e] = name'[d]
    BY DEF RegisteredOrDisplaced
  <2>1. CASE d = c
    BY <1>1, <2>1 DEF BindingsInv, TypeOK, SetBindingName
  <2>2. CASE d # c
    <3>1. conn[d] = "bound" /\ name'[d] = name[d] /\ name[d] \in DOMAIN bindings
      BY <2>2 DEF BindingsInv, TypeOK, SetBindingName, RegisteredOrDisplaced
    <3>2. CASE name[d] = n
      BY <1>1, <2>2, <3>1, <3>2 DEF BindingsInv, TypeOK, SetBindingName
    <3>3. CASE name[d] # n /\ bindings[name[d]] = d
      BY <1>1, <3>1, <3>3
    <3>4. CASE \E e \in Conn \ {d} : conn[e] \notin {"new", "accepted"} /\ name[e] = name[d]
      <4>1. PICK e \in Conn \ {d} : conn[e] \notin {"new", "accepted"} /\ name[e] = name[d]
        BY <3>4
      <4>2. e # c
        BY <4>1 DEF SetBindingName
      <4>3. QED
        BY <1>1, <3>1, <4>1, <4>2 DEF BindingsInv, TypeOK, SetBindingName
    <3>5. QED
      BY <3>1, <3>2, <3>3, <3>4 DEF BindingsInv, RegisteredOrDisplaced
  <2>3. QED
    BY <2>1, <2>2
<1>8. DefinedUntilAClose'
  BY DEF DefinedUntilAClose, SetBindingName
<1>9. QED
  BY <1>3, <1>4, <1>5, <1>6, <1>7, <1>8 DEF BindingsInv

(* The destructor: the only entry that can hold c is the one under its own *)
(* name, and it is cleared before c is given up.                           *)
LEMMA UnbindPreserves ==
    ASSUME BindingsInv, NEW c \in Conn, Unbind(c)
    PROVE  BindingsInv'
<1>1. /\ DOMAIN bindings' = DOMAIN bindings \cup {name[c]}
      /\ bindings'[name[c]] = None
      /\ \A m \in DOMAIN bindings : m # name[c] => bindings'[m] = bindings[m]
  BY BindFacts DEF Unbind
<1>2. \A k \in Call : call[k] \notin {"holding", "sending"}
  BY NoneAssumption DEF BindingsInv, LockHolder, Unbind
<1>3. TypeOK'
  BY <1>1 DEF BindingsInv, TypeOK, Unbind
<1>4. NoDanglingBinding'
  <2> SUFFICES ASSUME NEW m \in DOMAIN bindings', bindings'[m] # None
               PROVE  /\ conn'[bindings'[m]] \in {"bound", "finished"}
                      /\ name'[bindings'[m]] = m
    BY DEF NoDanglingBinding
  <2>1. m # name[c] /\ m \in DOMAIN bindings /\ bindings'[m] = bindings[m]
    BY <1>1
  <2>2. conn[bindings[m]] \in {"bound", "finished"} /\ name[bindings[m]] = m
    BY <2>1 DEF BindingsInv, NoDanglingBinding
  <2>3. bindings[m] # c
    BY <2>1, <2>2
  <2>4. QED
    BY <2>1, <2>2, <2>3 DEF BindingsInv, TypeOK, Unbind
<1>5. LockHolder' /\ TargetBound'
  BY <1>2 DEF LockHolder, TargetBound, Unbind
<1>6. NullsAreOfDestroyed'
  <2> SUFFICES ASSUME NEW m \in DOMAIN bindings', bindings'[m] = None
               PROVE  \E d \in Conn : conn'[d] \in {"unbound", "gone"} /\ name'[d] = m
    BY DEF NullsAreOfDestroyed
  <2>1. CASE m = name[c]
    BY <2>1 DEF BindingsInv, TypeOK, Unbind
  <2>2. CASE m # name[c]
    <3>1. PICK d \in Conn : conn[d] \in {"unbound", "gone"} /\ name[d] = m
      BY <1>1, <2>2 DEF BindingsInv, NullsAreOfDestroyed
    <3>2. QED
      BY <3>1 DEF BindingsInv, TypeOK, Unbind
  <2>3. QED
    BY <2>1, <2>2
<1>7. RegisteredOrDisplaced'
  <2> SUFFICES ASSUME NEW d \in Conn, conn'[d] = "bound"
               PROVE  /\ name'[d] \in DOMAIN bindings'
                      /\ \/ bindings'[name'[d]] = d
                         \/ \E e \in Conn \ {d} :
                               conn'[e] \notin {"new", "accepted"} /\ name'[e] = name'[d]
    BY DEF RegisteredOrDisplaced
  <2>1. /\ d # c /\ conn[d] = "bound" /\ name' = name /\ name[d] \in DOMAIN bindings
        /\ conn'[c] = "unbound"
    BY DEF BindingsInv, TypeOK, Unbind, RegisteredOrDisplaced
  <2>2. CASE name[d] = name[c]
    BY <1>1, <2>1, <2>2
  <2>3. CASE name[d] # name[c] /\ bindings[name[d]] = d
    BY <1>1, <2>1, <2>3
  <2>4. CASE \E e \in Conn \ {d} : conn[e] \notin {"new", "accepted"} /\ name[e] = name[d]
    BY <1>1, <2>1, <2>4 DEF BindingsInv, TypeOK, Unbind
  <2>5. QED
    BY <2>1, <2>2, <2>3, <2>4 DEF BindingsInv, RegisteredOrDisplaced
<1>8. DefinedUntilAClose'
  BY DEF DefinedUntilAClose, Unbind
<1>9. QED
  BY <1>3, <1>4, <1>5, <1>6, <1>7, <1>8 DEF BindingsInv

(* The steps of a connection outside the registry: accept, the end of      *)
(* run(), the destruction of the members.                                  *)
LEMMA ConnectionStepsPreserve ==
    ASSUME BindingsInv, NEW c \in Conn, Accept(c) \/ Finish(c) \/ Free(c)
    PROVE  BindingsInv'
<1>1. TypeOK'
  BY DEF BindingsInv, TypeOK, Accept, Finish, Free
<1>2. NoDanglingBinding'
  BY DEF BindingsInv, TypeOK, NoDanglingBinding, Accept, Finish, Free
<1>3. LockHolder' /\ TargetBound'
  BY DEF BindingsInv, LockHolder, TargetBound, Accept, Finish, Free
<1>4. NullsAreOfDestroyed'
  <2> SUFFICES ASSUME NEW m \in DOMAIN bindings, bindings[m] = None
               PROVE  \E d \in Conn : conn'[d] \in {"unbound", "gone"} /\ name'[d] = m
    BY DEF NullsAreOfDestroyed, Accept, Finish, Free
  <2>1. PICK d \in Conn : conn[d] \in {"unbound", "gone"} /\ name[d] = m
    BY DEF BindingsInv, NullsAreOfDestroyed
  <2>2. conn'[d] \in {"unbound", "gone"} /\ name'[d] = m
    BY <2>1 DEF BindingsInv, TypeOK, Accept, Finish, Free
  <2>3. QED
    BY <2>2
<1>5. RegisteredOrDisplaced'
  <2> SUFFICES ASSUME NEW d \in Conn, conn'[d] = "bound"
               PROVE  /\ name'[d] \in DOMAIN bindings'
                      /\ \/ bindings'[name'[d]] = d
                         \/ \E e \in Conn \ {d} :
                               conn'[e] \notin {"new", "accepted"} /\ name'[e] = name'[d]
    BY DEF RegisteredOrDisplaced
  <2>1. conn[d] = "bound" /\ UNCHANGED <<bindings, name>>
    BY DEF BindingsInv, TypeOK, Accept, Finish, Free
  <2>2. CASE bindings[name[d]] = d
    BY <2>1, <2>2 DEF BindingsInv, RegisteredOrDisplaced
  <2>3. CASE \E e \in Conn \ {d} : conn[e] \notin {"new", "accepted"} /\ name[e] = name[d]
    <3>1. PICK e \in Conn \ {d} : conn[e] \notin {"new", "accepted"} /\ name[e] = name[d]
      BY <2>3
    <3>2. conn'[e] \notin {"new", "accepted"}
      BY <3>1 DEF BindingsInv, TypeOK, Accept, Finish, Free
    <3>3. QED
      BY <2>1, <3>1, <3>2 DEF BindingsInv, RegisteredOrDisplaced
  <2>4. QED
    BY <2>1, <2>2, <2>3 DEF BindingsInv, RegisteredOrDisplaced
<1>6. DefinedUntilAClose'
  BY DEF DefinedUntilAClose, Accept, Finish, Free
<1>7. QED
  BY <1>1, <1>2, <1>3, <1>4, <1>5, <1>6 DEF BindingsInv

(* The steps of a call leave the registry alone; what it picks is in it.   *)
LEMMA CallStepsPreserve ==
    ASSUME BindingsInv, NEW k \in Call,
           \/ \E t \in Conn \cup {None} : CallMethod(k, t)
           \/ LockBindings(k)
           \/ Proceed(k)
    PROVE  BindingsInv'
<1>1. UNCHANGED <<bindings, conn, name>>
  BY DEF CallMethod, LockBindings, Proceed, Pick, PickUndefined, Return
<1>2. NoDanglingBinding'
  BY <1>1 DEF BindingsInv, NoDanglingBinding
<1>3. TypeOK'
  <2>1. ASSUME NEW t \in Conn \cup {None}, CallMethod(k, t) PROVE TypeOK'
    BY <2>1 DEF BindingsInv, TypeOK, CallMethod
  <2>2. CASE LockBindings(k) \/ PickUndefined(k) \/ Return(k)
    BY <2>2 DEF BindingsInv, TypeOK, LockBindings, PickUndefined, Return
  <2>3. CASE Pick(k)
    BY <2>3 DEF BindingsInv, TypeOK, Pick
  <2>4. QED
    BY <2>1, <2>2, <2>3 DEF Proceed
<1>4. LockHolder'
  BY NoneAssumption
  DEF BindingsInv, TypeOK, LockHolder, CallMethod, LockBindings, Proceed, Pick,
      PickUndefined, Return
<1>5. TargetBound'
  <2> SUFFICES ASSUME NEW j \in Call, call'[j] = "sending"
               PROVE  \E n \in DOMAIN bindings :
                         bindings[n] = target'[j] /\ target'[j] # None
    BY <1>1 DEF TargetBound
  <2>1. CASE call[j] = "sending" /\ target'[j] = target[j]
    BY <2>1 DEF BindingsInv, TargetBound
  <2>2. CASE j = k /\ Pick(k)
    BY <2>2 DEF BindingsInv, TypeOK, Pick
  <2>3. QED
    BY <2>1, <2>2
    DEF BindingsInv, TypeOK, CallMethod, LockBindings, Proceed, Pick,
        PickUndefined, Return
<1>6. NullsAreOfDestroyed' /\ RegisteredOrDisplaced'
  BY <1>1 DEF BindingsInv, NullsAreOfDestroyed, RegisteredOrDisplaced
<1>7. DefinedUntilAClose'
  <2>1. CASE up' = up
    BY <1>1, <2>1 DEF BindingsInv, DefinedUntilAClose
  <2>2. CASE PickUndefined(k)
    <3> SUFFICES ASSUME \A c \in Conn : conn[c] \notin {"unbound", "gone"},
                        NEW c \in Conn, conn[c] = "bound"
                 PROVE  FALSE
      BY <1>1 DEF DefinedUntilAClose
    <3>1. DOMAIN bindings # {}
      BY DEF BindingsInv, RegisteredOrDisplaced
    <3>2. PICK n \in DOMAIN bindings : IsFirst(n)
      BY <3>1, FirstExists DEF BindingsInv
    <3>3. bindings[n] = None
      BY <2>2, <3>2 DEF PickUndefined
    <3>4. QED
      BY <3>3 DEF BindingsInv, NullsAreOfDestroyed
  <2>3. QED
    BY <2>1, <2>2 DEF CallMethod, LockBindings, Proceed, Pick, Return
<1>8. QED
  BY <1>2, <1>3, <1>4, <1>5, <1>6, <1>7 DEF BindingsInv

(* The invariant of the registry is inductive. *)
THEOREM BindingsInvariant == Spec => []BindingsInv
<1>1. BindingsInv /\ UNCHANGED vars => BindingsInv'
  BY DEF BindingsInv, TypeOK, NoDanglingBinding, LockHolder, TargetBound,
         NullsAreOfDestroyed, RegisteredOrDisplaced, DefinedUntilAClose, vars
<1>2. BindingsInv /\ [Next]_vars => BindingsInv'
  BY <1>1, SetBindingNamePreserves, UnbindPreserves, ConnectionStepsPreserve,
     CallStepsPreserve
  DEF Next, Leave
<1>3. QED
  BY InitEstablishes, <1>2, PTL DEF Spec

(* No entry of the registry outlives the connection it points at. *)
THEOREM RegistryNeverDangles == Spec => []NoDanglingBinding
<1>1. BindingsInv => NoDanglingBinding
  BY DEF BindingsInv
<1>2. QED
  BY BindingsInvariant, <1>1, PTL

(* SendRequest runs on connections whose destructor has not started. *)
THEOREM CallsUseLiveConnections == Spec => []CallUsesLiveConnection
<1>1. BindingsInv => CallUsesLiveConnection
  BY DEF BindingsInv, NoDanglingBinding, TargetBound, CallUsesLiveConnection, Alive
<1>2. QED
  BY BindingsInvariant, <1>1, PTL

(* CallMethod dereferences a null or missing entry only after some client  *)
(* has left, or before any has introduced itself.                          *)
THEOREM CallsAreDefinedUntilAClose == Spec => []DefinedUntilAClose
<1>1. BindingsInv => DefinedUntilAClose
  BY DEF BindingsInv
<1>2. QED
  BY BindingsInvariant, <1>1, PTL

(* Nobody else's coming and going takes a client out of the registry: only *)
(* a connection of its own name can.                                       *)
THEOREM UnsharedNamesStay == Spec => []AloneStaysRegistered
<1>1. BindingsInv => AloneStaysRegistered
  BY DEF BindingsInv, RegisteredOrDisplaced, AloneStaysRegistered
<1>2. QED
  BY BindingsInvariant, <1>1, PTL
=============================================================================
