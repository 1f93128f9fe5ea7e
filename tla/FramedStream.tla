---------------------------- MODULE FramedStream ----------------------------
(***************************************************************************)
(* What one connection promises the peer about the bytes it receives: a    *)
(* sequence of records of the .NET message framing format, in which an     *)
(* envelope is a header (0x06 and the packed size) and, immediately after  *)
(* it, the body it announces.  Control records (0x0B, 0x07) are one byte.  *)
(* How threads and locks bring this about is SoapWire's business.          *)
(***************************************************************************)
EXTENDS Sequences, Naturals

CONSTANTS Msg,      \* the envelopes that may be sent
          Control   \* the one-byte records that may be sent

VARIABLE stream     \* what was written to the socket, in order

Header(m) == [kind |-> "header", of |-> m]
Body(m)   == [kind |-> "body", of |-> m]
Byte(x)   == [kind |-> "byte", of |-> x]

Record == [kind : {"header", "body"}, of : Msg] \cup [kind : {"byte"}, of : Control]

(* The last record announces a body that is still to come. *)
Announced == Len(stream) > 0 /\ stream[Len(stream)].kind = "header"

-----------------------------------------------------------------------------

Init == stream = << >>

SendByte(x) ==
    /\ ~Announced
    /\ stream' = Append(stream, Byte(x))

SendHeader(m) ==
    /\ ~Announced
    /\ stream' = Append(stream, Header(m))

SendBody(m) ==
    /\ Len(stream) > 0
    /\ stream[Len(stream)] = Header(m)
    /\ stream' = Append(stream, Body(m))

Next == \/ \E x \in Control : SendByte(x)
        \/ \E m \in Msg : SendHeader(m) \/ SendBody(m)

Spec == Init /\ [][Next]_stream

-----------------------------------------------------------------------------

TypeOK == stream \in Seq(Record)

(* A reader that trusts the size in a header finds that envelope's body:   *)
(* a header is followed by its own body and a body follows its own header. *)
Framed ==
    /\ \A i \in 1..(Len(stream) - 1) :
          stream[i].kind = "header" => stream[i + 1] = Body(stream[i].of)
    /\ \A i \in 1..Len(stream) :
          stream[i].kind = "body" => i > 1 /\ stream[i - 1] = Header(stream[i].of)
=============================================================================
