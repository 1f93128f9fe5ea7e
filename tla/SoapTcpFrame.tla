---------------------------- MODULE SoapTcpFrame ----------------------------
(***************************************************************************)
(* The read side of one connection: the loop of SoapTcpServer::run, which  *)
(* receives into a fixed buffer, and SoapTcpFrame's OnRead, ProcessHeader, *)
(* ProcessRequest and ProcessEnd, which take every read for a sequence of  *)
(* whole records.  The peer's records are cut into cells: the bytes of the *)
(* fixed fields and of the sizes one by one, those of a URL or of an       *)
(* envelope's text one or many to a cell.  A read delivers any number of   *)
(* cells, as TCP may.  What the buffer holds behind the received cells is  *)
(* left from earlier reads, or was never written; the handlers ignore how  *)
(* much was received.                                                      *)
(***************************************************************************)
EXTENDS PackedInt

CONSTANTS Msg,     \* the envelopes of the peer, each sent once
          TextLen, \* TextLen[m]: the cells of m's body
          UrlLen,  \* the cells of the URL in the preamble
          Cap      \* the cells that fit the buffer (16000 bytes)

ASSUME CapAssumption == Cap \in Nat \ {0}
ASSUME TextLenAssumption == TextLen \in [Msg -> 1..(Word - 1)]
ASSUME UrlLenAssumption == UrlLen \in 1..(Word - 1)

VARIABLES sent,      \* the records the peer has sent
          net,       \* the cells that have not been received
          buf,       \* the buffer on run's stack, kept across reads
          size,      \* the cells of the last read
          read,      \* the cells of it OnRead has passed
          handled,   \* what the handlers took the input for, in order
          bound,     \* the name SetBindingName was last given, see NameOf
          stop,      \* m_stop
          running,   \* run has not returned
          asserted,  \* an assert of the record checks has failed
          cut        \* how a read ended inside a record: the next cells' kinds

vars == <<sent, net, buf, size, read, handled, bound, stop, running, asserted, cut>>

Preamble == [kind |-> "preamble"]
EndRec   == [kind |-> "end"]
Env(m)   == [kind |-> "envelope", of |-> m]
Garbled  == [kind |-> "garbled"]

Plain(kind)    == [kind |-> kind]
Digit(kind, b) == [kind |-> kind, byte |-> b]
Text(m, i)     == [kind |-> "text", of |-> m, nr |-> i]
Url(i)         == [kind |-> "url", nr |-> i]
Junk           == Plain("junk")

(* A type, a packed size and the cells it counts. *)
Sized(type, digit, body) ==
    LET bytes == EncodePackedInt(Len(body))
    IN  <<Plain(type)>> \o [i \in 1..Len(bytes) |-> Digit(digit, bytes[i])] \o body

(* The preamble is four records: version, mode, via and encoding. *)
Encode(r) ==
    CASE r.kind = "preamble" ->
            <<Plain("version"), Plain("major"), Plain("minor"), Plain("mode"), Plain("duplex")>>
                \o Sized("via", "length", [i \in 1..UrlLen |-> Url(i)])
                \o <<Plain("encoding"), Plain("utf8"), Plain("last")>>
      [] r.kind = "envelope" -> Sized("sized", "size", [i \in 1..TextLen[r.of] |-> Text(r.of, i)])
      [] r.kind = "end"      -> <<Plain("end")>>

(* The cells that start a record, and those the preamble has behind its    *)
(* first: a read that ends before one of these has cut it.                 *)
Starts == {"version", "sized", "end"}
InPreamble == {"major", "minor", "mode", "duplex", "via", "length", "url",
               "encoding", "utf8", "last"}

(* The cells of a packed size, and those that hold a fixed byte. *)
DigitKinds == {"length", "size"}
Fixed == Starts \cup (InPreamble \ {"length", "url"})

Code(kind) ==
    CASE kind \in {"version", "minor", "utf8"} -> 0
      [] kind \in {"major", "mode"}            -> 1
      [] kind \in {"duplex", "via"}            -> 2
      [] kind = "encoding"                     -> 3
      [] kind = "sized"                        -> 6
      [] kind = "end"                          -> 7
      [] kind = "last"                         -> 12

(* The bytes a cell may be read as, 32 for all that no check names.  What  *)
(* was never written can be any; a byte of a size any but 0, for no        *)
(* number but 0 is packed with one; those of text and URLs are printed.    *)
Bytes == {0, 1, 2, 3, 6, 7, 12, 32}

Values(c) ==
    CASE c.kind \in Fixed              -> {Code(c.kind)}
      [] c.kind \in DigitKinds         -> Bytes \ {0}
      [] c.kind \in {"url", "text"}    -> {32}
      [] c.kind = "junk"               -> Bytes

Init ==
    /\ sent = << >> /\ net = << >>
    /\ buf = [i \in 1..Cap |-> Junk]
    /\ size = 0 /\ read = 0
    /\ handled = << >>
    /\ bound = "no" /\ stop = FALSE /\ running = TRUE
    /\ asserted = FALSE
    /\ cut = {}

-----------------------------------------------------------------------------
(* The peer: the preamble first, the end record last. *)

PeerSends(r) ==
    /\ \A i \in 1..Len(sent) : sent[i] # r /\ sent[i] # EndRec
    /\ r # Preamble => sent # << >>
    /\ sent' = Append(sent, r)
    /\ net' = net \o Encode(r)
    /\ UNCHANGED <<buf, size, read, handled, bound, stop, running, asserted, cut>>

PeerStep == \E r \in {Preamble, EndRec} \cup {Env(m) : m \in Msg} : PeerSends(r)

-----------------------------------------------------------------------------
(* receiveBytes: n cells over the front of the buffer. *)
Receive(n) ==
    /\ running /\ read >= size /\ ~stop
    /\ buf' = [i \in 1..Cap |-> IF i <= n THEN net[i] ELSE buf[i]]
    /\ net' = SubSeq(net, n + 1, Len(net))
    /\ size' = n
    /\ read' = 0
    /\ cut' = IF n < Len(net) /\ net[n + 1].kind \notin Starts
              THEN cut \cup {net[n + 1].kind} ELSE cut
    /\ UNCHANGED <<sent, handled, bound, stop, running, asserted>>

Receives == \E n \in 1..Len(net) : n <= Cap /\ Receive(n)

(* run returns once End was called, or the socket fails under it. *)
RunReturns ==
    /\ running /\ read >= size /\ stop
    /\ running' = FALSE
    /\ UNCHANGED <<sent, net, buf, size, read, handled, bound, stop, asserted, cut>>

-----------------------------------------------------------------------------
(* OnRead: cell i behind the current one, and the handler its byte selects.*)
Cell(i) == IF read + 1 + i <= Cap THEN buf[read + 1 + i] ELSE Junk

Dispatch(byte) == running /\ read < size /\ byte \in Values(Cell(0))

Handled(r, n) ==
    /\ handled' = Append(handled, r)
    /\ read' = read + n

(* The cells from i on can have the bytes that a record's IsValid asks     *)
(* for, and can fail to.                                                   *)
Matches(i, bytes) == \A k \in 1..Len(bytes) : bytes[k] \in Values(Cell(i + k - 1))
Differs(i, bytes) == \E k \in 1..Len(bytes) : Values(Cell(i + k - 1)) # {bytes[k]}

(* The size behind the type in cell i is the n cells that follow, of this  *)
(* and, where a read has cut it, of an earlier read.                       *)
MoreDigits(c) == c.kind \in DigitKinds /\ Continues(c.byte)

SizedBy(i, n) ==
    /\ \A k \in 1..n : Cell(i + k).kind \in DigitKinds
    /\ ~MoreDigits(Cell(i + n)) /\ \A k \in 1..(n - 1) : MoreDigits(Cell(i + k))

SizeAt(i, n) == DecodePackedInt([k \in 1..n |-> Cell(i + k).byte]).value

HasSize(i) == \E n \in 1..Cap : SizedBy(i, n)

(* A size taken from bytes that are none: any, but the type and as many    *)
(* bytes as say that another follows are passed, and one more.             *)
Unsized(i) == {n \in 2..(Cap + 1) : \E k \in 1..(n - 1) : ~MoreDigits(Cell(i + k))}

(* GetUrl, and the name it ends in: the one the peer asked for, or another *)
(* made of whatever is there.                                              *)
NameOf(i, len) ==
    IF len = UrlLen /\ \A k \in 1..len : Cell(i + k) = Url(k) THEN "asked" ELSE "other"

ViaKeepsCount(n) ==
    [size |-> 1 + n + SizeAt(5, n), name |-> NameOf(5, SizeAt(5, n))]

(* The via record in cell 5: its GetSize and its name. *)
Via(n)  == [size |-> 1 + n + SizeAt(5, n), name |-> NameOf(5 + n, SizeAt(5, n))]
Vias ==
    IF HasSize(5) THEN {Via(n) : n \in {k \in 1..Cap : SizedBy(5, k)}}
    ELSE [size : Unsized(5), name : {"other"}]

VersionOk  == Matches(0, <<0, 1, 0>>)
ModeOk     == VersionOk /\ Matches(3, <<1, 2>>)
ViaOk      == ModeOk /\ Matches(5, <<2>>) /\ Values(Cell(6)) # {0}

ProcessHeaderForgetsName ==
    /\ Dispatch(0)
    /\ ViaOk
    /\ \E via \in Vias :
          Matches(5 + via.size, <<3, 0, 12>>) /\ Handled(Preamble, 8 + via.size)
    /\ UNCHANGED <<bound, sent, net, buf, size, stop, running, asserted, cut>>

(* All four records of the preamble are there: the name is bound and the   *)
(* preamble acknowledged.                                                  *)
ProcessHeader ==
    /\ Dispatch(0)
    /\ ViaOk
    /\ \E via \in Vias :
          /\ Matches(5 + via.size, <<3, 0, 12>>)
          /\ bound' = via.name
          /\ Handled(Preamble, 8 + via.size)
    /\ UNCHANGED <<sent, net, buf, size, stop, running, asserted, cut>>

(* One of them is not: assert(false).  A build without assertions returns  *)
(* what it has passed; the name is bound before the last one is checked.   *)
ProcessHeaderAsserts ==
    /\ Dispatch(0)
    /\ asserted' = TRUE
    /\ \/ Differs(0, <<0, 1, 0>>) /\ Handled(Garbled, 3) /\ UNCHANGED bound
       \/ VersionOk /\ Differs(3, <<1, 2>>) /\ Handled(Garbled, 5) /\ UNCHANGED bound
       \/ \E via \in Vias :
             \/ /\ ModeOk /\ (Differs(5, <<2>>) \/ 0 \in Values(Cell(6)))
                /\ Handled(Garbled, 5 + via.size) /\ UNCHANGED bound
             \/ /\ ViaOk /\ Differs(5 + via.size, <<3, 0, 12>>)
                /\ Handled(Garbled, 8 + via.size) /\ bound' = via.name
    /\ UNCHANGED <<sent, net, buf, size, stop, running, cut>>

(* GetData: len cells from cell i on, whatever they are. *)
GetData(i, len) ==
    IF \E m \in Msg : len = TextLen[m] /\ \A k \in 1..len : Cell(i + k) = Text(m, k)
    THEN Env(Cell(i + 1).of) ELSE Garbled

ProcessRequestLong ==
    /\ Dispatch(6)
    /\ \E n \in 1..Cap :
          SizedBy(0, n) /\ Handled(GetData(n, SizeAt(0, n)), 2 + n + SizeAt(0, n))
    /\ UNCHANGED <<sent, net, buf, size, bound, stop, running, asserted, cut>>

ProcessRequestDropsRest ==
    /\ Dispatch(6)
    /\ \E n \in 1..Cap :
          SizedBy(0, n) /\ handled' = Append(handled, GetData(n, SizeAt(0, n)))
    /\ read' = size
    /\ UNCHANGED <<sent, net, buf, size, bound, stop, running, asserted, cut>>

(* GetData and GetSize believe the size record. *)
ProcessRequest ==
    /\ Dispatch(6)
    /\ \E n \in 1..Cap :
          /\ SizedBy(0, n)
          /\ Handled(GetData(n, SizeAt(0, n)), 1 + n + SizeAt(0, n))
    /\ UNCHANGED <<sent, net, buf, size, bound, stop, running, asserted, cut>>

(* The size was cut off: what follows the type decides, a zero byte fails  *)
(* the assert of the record.                                               *)
ProcessRequestUnsized ==
    /\ Dispatch(6)
    /\ ~HasSize(0)
    /\ \E n \in Unsized(0) : Handled(Garbled, n)
    /\ \E byte \in Values(Cell(1)) : asserted' = (asserted \/ byte = 0)
    /\ UNCHANGED <<sent, net, buf, size, bound, stop, running, cut>>

ProcessEnd ==
    /\ Dispatch(7)
    /\ Handled(EndRec, 1)
    /\ stop' = TRUE
    /\ UNCHANGED <<sent, net, buf, size, bound, running, asserted, cut>>

UnknownTypeGoesOn ==
    /\ running /\ read < size
    /\ Values(Cell(0)) \ {0, 6, 7} # {}
    /\ read' = size
    /\ UNCHANGED <<sent, net, buf, size, handled, bound, stop, running, asserted, cut>>

(* No handler for the type: End, and the rest of the read is dropped.      *)
UnknownType ==
    /\ running /\ read < size
    /\ Values(Cell(0)) \ {0, 6, 7} # {}
    /\ stop' = TRUE
    /\ read' = size
    /\ UNCHANGED <<sent, net, buf, size, handled, bound, running, asserted, cut>>

OnRead ==
    \/ ProcessHeader \/ ProcessHeaderAsserts
    \/ ProcessRequest \/ ProcessRequestUnsized
    \/ ProcessEnd \/ UnknownType

Next == PeerStep \/ Receives \/ RunReturns \/ OnRead

Spec == Init /\ [][Next]_vars

(* The connection's thread runs, and what the peer sent arrives. *)
FairSpec == Spec /\ WF_vars(Receives) /\ WF_vars(RunReturns) /\ WF_vars(OnRead)

-----------------------------------------------------------------------------

Rec == {Preamble, EndRec} \cup {Env(m) : m \in Msg}

StreamCell ==
    [kind : Fixed] \cup [kind : DigitKinds, byte : Nat]
        \cup [kind : {"url"}, nr : Nat] \cup [kind : {"text"}, of : Msg, nr : Nat]

TypeOK ==
    /\ sent \in Seq(Rec) /\ handled \in Seq(Rec \cup {Garbled})
    /\ net \in Seq(StreamCell) /\ buf \in [1..Cap -> StreamCell \cup {Junk}]
    /\ size \in 0..Cap /\ read \in Nat
    /\ bound \in {"no", "asked", "other"}
    /\ {stop, running, asserted} \subseteq BOOLEAN
    /\ cut \subseteq InPreamble \cup {"size", "text"}

(* As long as no read has ended inside a record, the handlers see exactly  *)
(* the records the peer sent, in order, none twice and none skipped, and   *)
(* no assert of the record checks fails.                                   *)
WholeReadsAreExact ==
    cut = {} => /\ Len(handled) <= Len(sent) /\ handled = SubSeq(sent, 1, Len(handled))
                /\ ~asserted

Acknowledged == \E i \in 1..Len(handled) : handled[i] = Preamble

Cells(recs) ==
    LET upto[k \in 0..Len(recs)] ==
            IF k = 0 THEN << >> ELSE upto[k - 1] \o Encode(recs[k])
    IN  upto[Len(recs)]

Received == SubSeq(buf, 1, size)
ToHandle == SubSeq(buf, read + 1, size)

(* The preamble is the peer's first record. *)
PreambleFirst == \A i \in 1..Len(sent) : sent[i] = Preamble <=> i = 1

(* What the connection is to receive next starts a record or is a cut. *)
CutAtRead == net # << >> => Head(net).kind \in Starts \cup cut

(* The preamble was not handled: it is in the first read or to come, and   *)
(* no other cell can be taken for its first.                               *)
PreambleAhead ==
    /\ read = 0 /\ handled = << >> /\ bound = "no"
    /\ LET all == Received \o net
           first == Encode(Preamble)
       IN  \/ sent = << >> /\ all = << >>
           \/ /\ sent # << >>
              /\ Len(all) >= Len(first) /\ \A i \in 1..Len(first) : all[i] = first[i]
              /\ \A i \in (Len(first) + 1)..Len(all) : 0 \notin Values(all[i])

(* The preamble was handled: no cell is left that could be taken for one.  *)
PreamblePassed ==
    /\ sent # << >> /\ bound = "asked" /\ handled # << >> /\ handled[1] = Preamble
    /\ \A i \in 1..Len(handled) : handled[i] = Preamble => i = 1
    /\ \A i \in (read + 1)..size : 0 \notin Values(buf[i])
    /\ \A i \in 1..Len(net) : 0 \notin Values(net[i])

(* The handlers have passed whole records, and whole records follow. *)
Aligned ==
    /\ Len(handled) <= Len(sent) /\ handled = SubSeq(sent, 1, Len(handled))
    /\ ~asserted
    /\ read <= size
    /\ ToHandle \o net = Cells(SubSeq(sent, Len(handled) + 1, Len(sent)))

GarbledIsLast == \A i \in 1..Len(handled) : handled[i] = Garbled => i = Len(handled)

(* A body was cut: the handlers have passed its start, are to read the     *)
(* rest of it, or have ended the connection over it.                       *)
BodyCut ==
    /\ "text" \in cut /\ GarbledIsLast
    /\ \/ read >= size /\ net # << >> /\ Head(net).kind = "text"
       \/ read = 0 /\ size > 0 /\ buf[1].kind = "text"
       \/ stop /\ read >= size

(* The invariant of the frame: beside the types, a client that was         *)
(* acknowledged is bound to some name.  Unless a read ended inside its     *)
(* preamble, it is bound just when it was acknowledged, to the name it     *)
(* asked for, and acknowledged no second time, wherever else reads end.    *)
(* And, unless a read ended outside of a body, the handlers are in step    *)
(* with the peer's records or at the end of a connection over a cut one.   *)
FrameInv ==
    /\ TypeOK
    /\ Acknowledged => bound # "no"
    /\ PreambleFirst /\ CutAtRead
    /\ cut \cap InPreamble = {} => PreambleAhead \/ PreamblePassed
    /\ cut \subseteq {"text"} => Aligned \/ BodyCut

(* A client is bound to a name that is not the one it asked for only if a  *)
(* read ended before the last of its URL: behind that, ProcessHeader may   *)
(* fail or run a second time over old bytes, but never over others.        *)
OtherNameOnlyWhereCut ==
    bound = "other" => cut \cap (InPreamble \ {"encoding", "utf8", "last"}) # {}

(* A body that was cut is the last thing the connection handles: what is   *)
(* left of it starts the next read, and no text byte is a record type.     *)
CutBodyIsLast ==
    cut \subseteq {"text"} => GarbledIsLast

(* Everything the peer sends is handled, unless a cut intervened, and the  *)
(* end record then ends run.                                               *)
RecordsAreHandled ==
    \A r \in Rec :
        (\E i \in 1..Len(sent) : sent[i] = r) ~>
            \/ cut # {}
            \/ /\ \E i \in 1..Len(handled) : handled[i] = r
               /\ r = EndRec => ~running

(* The bytes of the buffer, those of other cells taken for 0. *)
Behind == [i \in 1..Cap |-> IF buf[i].kind \in DigitKinds THEN buf[i].byte ELSE 0]

(* Every length a size_t can hold is read back as it was written, and the  *)
(* reader stops at its last byte, whatever bytes the buffer holds behind   *)
(* it.  It fits the bytes that the sender's header buffer has for it just  *)
(* when it has no more digits (less than 2^28): SendXml checks neither.    *)
PackedSizes ==
    \A n \in 0..(Word - 1) :
        LET data == EncodePackedInt(n)
        IN  /\ DecodePackedInt(data \o Behind) = [value |-> n, count |-> Len(data)]
            /\ Len(data) <= HeaderRoom <=> n < Place[HeaderRoom]
=============================================================================
