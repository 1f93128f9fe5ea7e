--------------------------- MODULE SoapWireProofs ---------------------------
(***************************************************************************)
(* For any set of threads and envelopes: the invariant of the write side   *)
(* is inductive, what the peer receives is framed, and the write side      *)
(* implements the promised stream.                                         *)
(***************************************************************************)
EXTENDS SoapWire, SequenceTheorems, TLAPS

(* A sequence keeps its length and its elements when one is appended. *)
LEMMA AppendFacts ==
    ASSUME NEW S, NEW s \in Seq(S), NEW e \in S
    PROVE  /\ Append(s, e) \in Seq(S)
           /\ Len(s) \in Nat
           /\ Len(Append(s, e)) = Len(s) + 1
           /\ \A i \in 1..Len(s) : Append(s, e)[i] = s[i]
           /\ Append(s, e)[Len(s) + 1] = e
  OBVIOUS

(* A record that is not a body may follow anything but a header. *)
LEMMA FramedAppend ==
    ASSUME NEW r \in Frame!Record,
           out \in Seq(Frame!Record),
           Framed,
           out' = Append(out, r),
           \/ r.kind # "body" /\ ~Frame!Announced
           \/ \E m \in Msg : /\ r = Frame!Body(m)
                             /\ Len(out) > 0
                             /\ out[Len(out)] = Frame!Header(m)
    PROVE  Framed'
<1>1. /\ out' \in Seq(Frame!Record)
      /\ Len(out) \in Nat
      /\ Len(out') = Len(out) + 1
      /\ \A i \in 1..Len(out) : out'[i] = out[i]
      /\ out'[Len(out) + 1] = r
  BY AppendFacts
<1>2. ASSUME NEW i \in 1..(Len(out') - 1), out'[i].kind = "header"
      PROVE  out'[i + 1] = Frame!Body(out'[i].of)
  <2>1. CASE i = Len(out)
    <3>1. i \in 1..Len(out) /\ out'[i] = out[i] /\ out'[i + 1] = r
      BY <1>1, <2>1
    <3>2. Frame!Announced
      BY <1>2, <2>1, <3>1 DEF Frame!Announced
    <3>3. PICK m \in Msg : r = Frame!Body(m) /\ out[Len(out)] = Frame!Header(m)
      BY <3>2
    <3>4. out'[i].of = m
      BY <2>1, <3>1, <3>3 DEF Frame!Header
    <3>5. QED
      BY <3>1, <3>3, <3>4
  <2>2. CASE i # Len(out)
    <3>1. i \in 1..(Len(out) - 1)
      BY <1>1, <2>2
    <3>2. out'[i] = out[i] /\ out'[i + 1] = out[i + 1]
      BY <1>1, <3>1
    <3>3. QED
      BY <3>1, <3>2, <1>2 DEF Framed, Frame!Framed
  <2>3. QED
    BY <2>1, <2>2
<1>3. ASSUME NEW i \in 1..Len(out'), out'[i].kind = "body"
      PROVE  i > 1 /\ out'[i - 1] = Frame!Header(out'[i].of)
  <2>1. CASE i = Len(out) + 1
    <3>1. out'[i] = r
      BY <1>1, <2>1
    <3>2. PICK m \in Msg : /\ r = Frame!Body(m)
                           /\ Len(out) > 0
                           /\ out[Len(out)] = Frame!Header(m)
      BY <1>3, <3>1
    <3>3. out'[i].of = m /\ i - 1 = Len(out) /\ Len(out) \in 1..Len(out)
      BY <1>1, <2>1, <3>1, <3>2 DEF Frame!Body
    <3>4. QED
      BY <1>1, <3>2, <3>3
  <2>2. CASE i # Len(out) + 1
    <3>1. i \in 1..Len(out)
      BY <1>1, <2>2
    <3>2. out[i].kind = "body"
      BY <1>1, <1>3, <3>1
    <3>3. i > 1 /\ out[i - 1] = Frame!Header(out[i].of)
      BY <3>1, <3>2 DEF Framed, Frame!Framed
    <3>4. QED
      BY <1>1, <3>1, <3>3
  <2>3. QED
    BY <2>1, <2>2
<1>4. QED
  BY <1>2, <1>3 DEF Framed, Frame!Framed

(* Nothing is written before the first record. *)
LEMMA InitEstablishes == Init => WireInv
  BY NoneAssumption
  DEF Init, WireInv, TypeOK, KindMatches, HolderWrites, AnnouncedByHolder,
      Framed, Frame!Framed, Frame!Announced, Place, Writing

(* Getting the lock: no other thread is inside a write. *)
LEMMA AcquirePreserves ==
    ASSUME WireInv, NEW t \in Thread, Acquire(t)
    PROVE  WireInv'
<1>1. \A u \in Thread : at[u] \notin Writing
  BY NoneAssumption DEF WireInv, HolderWrites, Acquire
<1>2. TypeOK'
  BY DEF WireInv, TypeOK, Acquire, Place
<1>3. KindMatches'
  BY DEF WireInv, TypeOK, KindMatches, Acquire, Place
<1>4. HolderWrites'
  BY <1>1 DEF WireInv, TypeOK, HolderWrites, Acquire, Writing
<1>5. AnnouncedByHolder'
  BY <1>1 DEF WireInv, TypeOK, AnnouncedByHolder, Acquire, Writing, Frame!Announced
<1>6. Framed'
  BY DEF WireInv, Framed, Frame!Framed, Acquire
<1>7. QED
  BY <1>2, <1>3, <1>4, <1>5, <1>6 DEF WireInv

(* The header of an envelope: nothing is announced when it is written. *)
LEMMA WriteHeaderPreserves ==
    ASSUME WireInv, NEW t \in Thread, WriteHeader(t)
    PROVE  WireInv'
<1> DEFINE h == Frame!Header(rec[t])
<1>1. rec[t] \in Msg /\ h \in Frame!Record /\ h.kind = "header"
  BY DEF WireInv, KindMatches, WriteHeader, Frame!Header, Frame!Record
<1>2. writeLock = t /\ \A u \in Thread : u # t => at[u] \notin Writing
  BY NoneAssumption DEF WireInv, HolderWrites, WriteHeader, Writing
<1>3. ~Frame!Announced
  BY <1>2 DEF WireInv, AnnouncedByHolder, WriteHeader, Writing
<1>4. /\ out' \in Seq(Frame!Record)
      /\ Len(out) \in Nat
      /\ Len(out') = Len(out) + 1
      /\ out'[Len(out')] = h
  BY <1>1, AppendFacts DEF WireInv, TypeOK, WriteHeader
<1>5. TypeOK'
  BY <1>4 DEF WireInv, TypeOK, WriteHeader, Place
<1>6. KindMatches'
  BY <1>1 DEF WireInv, TypeOK, KindMatches, WriteHeader
<1>7. HolderWrites'
  BY <1>2 DEF WireInv, TypeOK, HolderWrites, WriteHeader, Writing
<1>8. AnnouncedByHolder'
  <2>1. \A u \in Thread : at'[u] = "body" => u = t
    BY <1>2 DEF WireInv, TypeOK, WriteHeader, Writing
  <2>2. at'[t] = "body" /\ rec'[t] = rec[t]
    BY DEF WireInv, TypeOK, WriteHeader
  <2>3. QED
    BY <1>4, <2>1, <2>2 DEF AnnouncedByHolder
<1>9. Framed'
  <2>1. h.kind # "body" /\ out' = Append(out, h) /\ Framed /\ out \in Seq(Frame!Record)
    BY <1>1 DEF WriteHeader, WireInv, TypeOK
  <2> HIDE DEF h
  <2>2. QED
    BY <1>1, <1>3, <2>1, FramedAppend
<1>10. QED
  BY <1>5, <1>6, <1>7, <1>8, <1>9 DEF WireInv

(* The body: the header just before it is its own. *)
LEMMA WriteBodyPreserves ==
    ASSUME WireInv, NEW t \in Thread, WriteBody(t)
    PROVE  WireInv'
<1> DEFINE b == Frame!Body(rec[t])
<1>1. rec[t] \in Msg /\ b \in Frame!Record /\ b.kind = "body"
  BY DEF WireInv, KindMatches, WriteBody, Frame!Body, Frame!Record
<1>2. writeLock = t /\ \A u \in Thread : u # t => at[u] \notin Writing
  BY NoneAssumption DEF WireInv, HolderWrites, WriteBody, Writing
<1>3. Len(out) > 0 /\ out[Len(out)] = Frame!Header(rec[t])
  BY DEF WireInv, AnnouncedByHolder, WriteBody
<1>4. /\ out' \in Seq(Frame!Record)
      /\ Len(out) \in Nat
      /\ Len(out') = Len(out) + 1
      /\ out'[Len(out')] = b
  BY <1>1, AppendFacts DEF WireInv, TypeOK, WriteBody
<1>5. TypeOK'
  BY <1>4 DEF WireInv, TypeOK, WriteBody, Release, Place
<1>6. KindMatches'
  BY DEF WireInv, TypeOK, KindMatches, WriteBody, Release
<1>7. HolderWrites'
  BY <1>2, NoneAssumption DEF WireInv, TypeOK, HolderWrites, WriteBody, Release, Writing
<1>8. AnnouncedByHolder'
  <2>1. \A u \in Thread : at'[u] # "body"
    BY <1>2 DEF WireInv, TypeOK, WriteBody, Release, Writing
  <2>2. ~(Frame!Announced')
    BY <1>1, <1>4 DEF Frame!Announced
  <2>3. QED
    BY <2>1, <2>2 DEF AnnouncedByHolder
<1>9. Framed'
  <2>1. /\ out' = Append(out, b) /\ Framed /\ out \in Seq(Frame!Record)
        /\ \E m \in Msg : /\ b = Frame!Body(m)
                          /\ Len(out) > 0
                          /\ out[Len(out)] = Frame!Header(m)
    BY <1>1, <1>3 DEF WriteBody, WireInv, TypeOK
  <2> HIDE DEF b
  <2>2. QED
    BY <1>1, <2>1, FramedAppend
<1>10. QED
  BY <1>5, <1>6, <1>7, <1>8, <1>9 DEF WireInv

(* A control record is written by the holder, who announced nothing. *)
LEMMA WriteBytePreserves ==
    ASSUME WireInv, NEW t \in Thread, WriteByte(t)
    PROVE  WireInv'
<1> DEFINE x == Frame!Byte(rec[t])
<1>1. rec[t] \in Control /\ x \in Frame!Record /\ x.kind = "byte"
  BY DEF WireInv, KindMatches, WriteByte, Frame!Byte, Frame!Record
<1>2. writeLock = t /\ \A u \in Thread : u # t => at[u] \notin Writing
  BY NoneAssumption DEF WireInv, HolderWrites, WriteByte, Writing
<1>3. ~Frame!Announced
  BY <1>2 DEF WireInv, AnnouncedByHolder, WriteByte, Writing
<1>4. /\ out' \in Seq(Frame!Record)
      /\ Len(out) \in Nat
      /\ Len(out') = Len(out) + 1
      /\ out'[Len(out')] = x
  BY <1>1, AppendFacts DEF WireInv, TypeOK, WriteByte
<1>5. TypeOK'
  BY <1>4 DEF WireInv, TypeOK, WriteByte, Release, Place
<1>6. KindMatches'
  BY DEF WireInv, TypeOK, KindMatches, WriteByte, Release
<1>7. HolderWrites'
  BY <1>2, NoneAssumption DEF WireInv, TypeOK, HolderWrites, WriteByte, Release, Writing
<1>8. AnnouncedByHolder'
  <2>1. \A u \in Thread : at'[u] # "body"
    BY <1>2 DEF WireInv, TypeOK, WriteByte, Release, Writing
  <2>2. ~(Frame!Announced')
    BY <1>1, <1>4 DEF Frame!Announced
  <2>3. QED
    BY <2>1, <2>2 DEF AnnouncedByHolder
<1>9. Framed'
  <2>1. x.kind # "body" /\ out' = Append(out, x) /\ Framed /\ out \in Seq(Frame!Record)
    BY <1>1 DEF WriteByte, WireInv, TypeOK
  <2> HIDE DEF x
  <2>2. QED
    BY <1>1, <1>3, <2>1, FramedAppend
<1>10. QED
  BY <1>5, <1>6, <1>7, <1>8, <1>9 DEF WireInv

(* A write that throws: the socket is gone, so a half envelope may stay. *)
LEMMA WriteThrowsPreserves ==
    ASSUME WireInv, NEW t \in Thread, WriteThrows(t)
    PROVE  WireInv'
<1>1. writeLock = t /\ \A u \in Thread : u # t => at[u] \notin Writing
  BY NoneAssumption DEF WireInv, HolderWrites, WriteThrows, Writing
<1>2. TypeOK'
  BY DEF WireInv, TypeOK, WriteThrows, Release, Place
<1>3. KindMatches'
  BY DEF WireInv, TypeOK, KindMatches, WriteThrows, Release
<1>4. HolderWrites'
  BY <1>1, NoneAssumption DEF WireInv, TypeOK, HolderWrites, WriteThrows, Release, Writing
<1>5. AnnouncedByHolder'
  BY <1>1 DEF WireInv, TypeOK, AnnouncedByHolder, WriteThrows, Release, Writing, Frame!Announced
<1>6. Framed'
  BY DEF WireInv, Framed, Frame!Framed, WriteThrows
<1>7. QED
  BY <1>2, <1>3, <1>4, <1>5, <1>6 DEF WireInv

(* Starting to send, and the end of the socket, touch neither the stream   *)
(* nor the lock.                                                           *)
LEMMA OtherStepsPreserve ==
    ASSUME WireInv,
           \/ \E t \in Thread : \/ \E m \in Msg : StartXml(t, m)
                                \/ \E x \in Control : StartByte(t, x)
           \/ Shutdown
           \/ Lose
           \/ UNCHANGED vars
    PROVE  WireInv'
<1>1. ASSUME NEW t \in Thread, NEW m \in Msg, StartXml(t, m) PROVE WireInv'
  BY <1>1 DEF WireInv, TypeOK, KindMatches, HolderWrites, AnnouncedByHolder,
              Framed, Frame!Framed, Frame!Announced, StartXml, Place, Writing
<1>2. ASSUME NEW t \in Thread, NEW x \in Control, StartByte(t, x) PROVE WireInv'
  BY <1>2 DEF WireInv, TypeOK, KindMatches, HolderWrites, AnnouncedByHolder,
              Framed, Frame!Framed, Frame!Announced, StartByte, Place, Writing
<1>3. CASE Shutdown \/ Lose
  BY <1>3 DEF WireInv, TypeOK, KindMatches, HolderWrites, AnnouncedByHolder,
              Framed, Frame!Framed, Frame!Announced, Shutdown, Lose
<1>4. CASE UNCHANGED vars
  BY <1>4 DEF WireInv, TypeOK, KindMatches, HolderWrites, AnnouncedByHolder,
              Framed, Frame!Framed, Frame!Announced, vars
<1>5. QED
  BY <1>1, <1>2, <1>3, <1>4

(* No step of the write side leaves the invariant. *)
LEMMA StepPreserves == WireInv /\ [Next]_vars => WireInv'
  BY AcquirePreserves, WriteHeaderPreserves, WriteBodyPreserves, WriteBytePreserves,
     WriteThrowsPreserves, OtherStepsPreserve
  DEF Next, Write

(* The invariant of the write side is inductive. *)
THEOREM WireInvariant == Spec => []WireInv
  BY InitEstablishes, StepPreserves, PTL DEF Spec

(* However many threads send, and wherever a write fails, every header the *)
(* peer receives is followed by its own body.                              *)
THEOREM StreamIsFramed == Spec => []Framed
<1>1. WireInv => Framed
  BY DEF WireInv
<1>2. QED
  BY WireInvariant, <1>1, PTL

(* An open connection is never left in the middle of an envelope. *)
THEOREM NoHalfEnvelope == Spec => []HalfEnvelopeOnlyWhenBroken
<1>1. WireInv => HalfEnvelopeOnlyWhenBroken
  BY DEF WireInv, AnnouncedByHolder, HalfEnvelopeOnlyWhenBroken
<1>2. QED
  BY WireInvariant, <1>1, PTL

(* SendXml, the control writes, the lock and the failures implement the    *)
(* promised stream.                                                        *)
THEOREM WireImplementsFramedStream == Spec => ImplementsFramedStream
<1>1. Init => Frame!Init
  BY DEF Init, Frame!Init
<1>2. WireInv /\ [Next]_vars => [Frame!Next]_out
  <2> SUFFICES ASSUME WireInv, Next PROVE [Frame!Next]_out
    BY DEF vars
  <2>1. ASSUME NEW t \in Thread, WriteHeader(t) PROVE Frame!Next
    <3>1. rec[t] \in Msg
      BY <2>1 DEF WireInv, KindMatches, WriteHeader
    <3>2. ~Frame!Announced
      BY <2>1, NoneAssumption DEF WireInv, HolderWrites, AnnouncedByHolder, WriteHeader, Writing
    <3>3. QED
      BY <2>1, <3>1, <3>2 DEF WriteHeader, Frame!Next, Frame!SendHeader
  <2>2. ASSUME NEW t \in Thread, WriteBody(t) PROVE Frame!Next
    <3>1. rec[t] \in Msg /\ Len(out) > 0 /\ out[Len(out)] = Frame!Header(rec[t])
      BY <2>2 DEF WireInv, KindMatches, AnnouncedByHolder, WriteBody
    <3>2. QED
      BY <2>2, <3>1 DEF WriteBody, Frame!Next, Frame!SendBody
  <2>3. ASSUME NEW t \in Thread, WriteByte(t) PROVE Frame!Next
    <3>1. rec[t] \in Control
      BY <2>3 DEF WireInv, KindMatches, WriteByte
    <3>2. ~Frame!Announced
      BY <2>3, NoneAssumption DEF WireInv, HolderWrites, AnnouncedByHolder, WriteByte, Writing
    <3>3. QED
      BY <2>3, <3>1, <3>2 DEF WriteByte, Frame!Next, Frame!SendByte
  <2>4. ASSUME NEW t \in Thread, Acquire(t) \/ WriteThrows(t) PROVE UNCHANGED out
    BY <2>4 DEF Acquire, WriteThrows
  <2>5. ASSUME \/ \E t \in Thread : \/ \E m \in Msg : StartXml(t, m)
                                    \/ \E x \in Control : StartByte(t, x)
               \/ Shutdown
               \/ Lose
        PROVE  UNCHANGED out
    BY <2>5 DEF StartXml, StartByte, Shutdown, Lose
  <2>6. QED
    BY <2>1, <2>2, <2>3, <2>4, <2>5 DEF Next, Write
<1>3. QED
  BY <1>1, <1>2, WireInvariant, PTL DEF Spec, ImplementsFramedStream, Frame!Spec
=============================================================================
