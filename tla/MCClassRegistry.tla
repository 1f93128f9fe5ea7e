-------------------------- MODULE MCClassRegistry --------------------------
(* Two methods over either three protobuf messages, with every way to nest *)
(* them and to use them in fields, or two native classes, the first of     *)
(* which may contain the second, with fields that may share their names,   *)
(* and a vector of either.  A C++ class cannot contain itself.             *)
EXTENDS ClassRegistry

CONSTANTS p1, p2, p3, n1, n2, v, m1, m2

MCType == {p1, p2, p3, n1, n2, v}
MCNative == {n1, n2, v}
MCVector == {v}
MCMethod == {m1, m2}
MCFieldName == {"f", "a", "b"}

UpTo(n, S) == UNION {[1..k -> S] : k \in 0..n}
FieldOf(names, msgs) == [name : names, msg : msgs \cup {None}]
Distinct(fs) == \A i, j \in DOMAIN fs : fs[i].name = fs[j].name => i = j

NoFields == [t \in MCType |-> << >>]
NoParent == [t \in MCType |-> None]

ProtoSchemas ==
    {[fields |-> [NoFields EXCEPT ![p1] = f1, ![p2] = f2, ![p3] = f3],
      parent |-> [NoParent EXCEPT ![p2] = q2, ![p3] = q3],
      element |-> [t \in MCVector |-> None],
      request |-> [m \in MCMethod |-> IF m = m1 THEN p1 ELSE p2],
      response |-> [m \in MCMethod |-> IF m = m1 THEN p3 ELSE p1]] :
        f1 \in UpTo(2, FieldOf({"f"}, {p2, p3})),
        f2 \in UpTo(1, FieldOf({"f"}, {p1, p2, p3})),
        f3 \in UpTo(1, FieldOf({"f"}, {p1, p3})),
        q2 \in {None, p1}, q3 \in {None, p1, p2}}

NativeSchemas ==
    {[fields |-> [NoFields EXCEPT ![n1] = f1, ![n2] = f2],
      parent |-> NoParent,
      element |-> [t \in MCVector |-> e],
      request |-> [m \in MCMethod |-> n1],
      response |-> [m \in MCMethod |-> IF m = m1 THEN n1 ELSE n2]] :
        f1 \in {fs \in UpTo(2, FieldOf({"a", "b"}, {n2, v})) : Distinct(fs)},
        f2 \in {fs \in UpTo(2, FieldOf({"a", "b"}, {v})) : Distinct(fs)},
        e \in {n1, n2, None}}

MCSchemas == ProtoSchemas \cup NativeSchemas
=============================================================================
