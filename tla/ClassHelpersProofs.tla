------------------------- MODULE ClassHelpersProofs -------------------------
(***************************************************************************)
(* For any classes of any number of fields, any values and any threads: a  *)
(* helper walks over all of its fields, converts each by itself, and the   *)
(* messages that arrive, for a handler, for a client and for another       *)
(* server, are just those the properties of ClassHelpers name.             *)
(***************************************************************************)
EXTENDS ClassHelpers, SequenceTheorems, WellFoundedInduction, TLAPS

-----------------------------------------------------------------------------
(* Induction over the places of a sequence, as facts about sets and        *)
(* functions.                                                              *)

LEMMA NatSet ==
    ASSUME NEW T \in SUBSET Nat, 0 \in T, \A n \in T : n + 1 \in T
    PROVE  \A n \in Nat : n \in T
<1> SUFFICES ASSUME Nat \ T # {} PROVE FALSE
  OBVIOUS
<1>1. IsWellFoundedOn(OpToRel(<, Nat), Nat)
  BY NatLessThanWellFounded
<1>2. PICK x \in Nat \ T : \A y \in Nat \ T : ~ (<<y, x>> \in OpToRel(<, Nat))
  BY <1>1, WFMin
<1>3. \A y \in Nat \ T : ~ (y < x)
  BY <1>2 DEF OpToRel
<1>4. x - 1 \in Nat /\ x - 1 < x /\ (x - 1) + 1 = x
  OBVIOUS
<1>5. QED
  BY <1>3, <1>4

(* A function of the places of a sequence may be defined from place to     *)
(* place.                                                                  *)
Steps(h, a, n, step, S) ==
    h \in [0..n -> S] /\ h[0] = a /\ \A i \in 1..n : h[i] = step[i][h[i - 1]]

LEMMA PlaceRecursion ==
    ASSUME NEW S, NEW a \in S, NEW n \in Nat, NEW step \in [1..n -> [S -> S]]
    PROVE  \E h : Steps(h, a, n, step, S)
<1> DEFINE Is(h, m) == Steps(h, a, m, step, S)
           T == {m \in Nat : m <= n => \E h : Is(h, m)}
<1>1. T \in SUBSET Nat /\ 0 \in T
  <2>1. Is([i \in 0..0 |-> a], 0)
    BY DEF Steps
  <2>2. QED
    BY <2>1
<1>2. ASSUME NEW m \in T PROVE m + 1 \in T
  <2> SUFFICES ASSUME m + 1 <= n PROVE \E h : Is(h, m + 1)
    <3> HIDE DEF Is
    <3>1. QED
      OBVIOUS
  <2>1. m \in Nat /\ m + 1 \in 1..n /\ (m + 1) - 1 = m
    OBVIOUS
  <2>2. PICK g : Is(g, m)
    <3> HIDE DEF Is
    <3>1. QED
      BY <2>1
  <2> DEFINE h == [i \in 0..m + 1 |-> IF i <= m THEN g[i] ELSE step[m + 1][g[m]]]
  <2>3. g[m] \in S /\ step[m + 1][g[m]] \in S
    BY <2>1, <2>2 DEF Steps
  <2>4. h \in [0..m + 1 -> S] /\ h[m + 1] = step[m + 1][g[m]] /\ \A i \in 0..m : h[i] = g[i]
    BY <2>1, <2>2, <2>3 DEF Steps
  <2> HIDE DEF h
  <2>5. ASSUME NEW i \in 1..m + 1 PROVE h[i] = step[i][h[i - 1]]
    <3>1. CASE i \in 1..m
      <4>1. i \in 0..m /\ i - 1 \in 0..m
        BY <3>1
      <4>2. QED
        BY <2>2, <2>4, <3>1, <4>1 DEF Steps
    <3>2. CASE i = m + 1
      <4>1. i - 1 = m /\ m \in 0..m
        BY <2>1, <3>2
      <4>2. QED
        BY <2>4, <3>2, <4>1
    <3>3. QED
      BY <2>1, <3>1, <3>2
  <2>6. h[0] = a
    BY <2>1, <2>2, <2>4 DEF Steps
  <2>7. QED
    BY <2>4, <2>5, <2>6 DEF Steps
<1>3. n \in T
  <2> HIDE DEF T
  <2>1. QED
    BY <1>1, <1>2, NatSet
<1>4. QED
  BY <1>3

-----------------------------------------------------------------------------
(* The elements of a name. *)

Filters(u, els, name, S) ==
    /\ u \in [0..Len(els) -> Seq(S)] /\ u[0] = << >>
    /\ \A i \in 1..Len(els) :
          u[i] = IF els[i].name = name THEN Append(u[i - 1], els[i]) ELSE u[i - 1]
    /\ Named(els, name) = u[Len(els)]

LEMMA NamedUnfolds ==
    ASSUME NEW S, NEW els \in Seq(S), NEW name
    PROVE  \E u : Filters(u, els, name, S)
<1>1. PICK c \in Nat : c = Len(els)
  OBVIOUS
<1> DEFINE step == [i \in 1..c |-> [g \in Seq(S) |->
                       IF els[i].name = name THEN Append(g, els[i]) ELSE g]]
<1>2. step \in [1..c -> [Seq(S) -> Seq(S)]]
  <2>1. ASSUME NEW i \in 1..c, NEW g \in Seq(S)
        PROVE  (IF els[i].name = name THEN Append(g, els[i]) ELSE g) \in Seq(S)
    BY <1>1
  <2>2. QED
    BY <2>1
<1>3. \A i \in 1..c : \A g \in Seq(S) :
          step[i][g] = IF els[i].name = name THEN Append(g, els[i]) ELSE g
  OBVIOUS
<1> HIDE DEF step
<1>4. PICK h \in [0..c -> Seq(S)] :
          h[0] = << >> /\ \A i \in 1..c : h[i] = step[i][h[i - 1]]
  <2> DEFINE Q == Seq(S)
  <2>1. << >> \in Q /\ step \in [1..c -> [Q -> Q]]
    BY <1>2
  <2> HIDE DEF Q
  <2>2. \E h \in [0..c -> Q] : h[0] = << >> /\ \A i \in 1..c : h[i] = step[i][h[i - 1]]
    <3>1. \E h : Steps(h, << >>, c, step, Q)
      BY <1>1, <2>1, PlaceRecursion
    <3>2. QED
      BY <3>1 DEF Steps
  <2>3. QED
    BY <2>2 DEF Q
<1>5. \A i \in 1..c : h[i] = IF els[i].name = name THEN Append(h[i - 1], els[i]) ELSE h[i - 1]
  <2>1. \A i \in 1..c : h[i - 1] \in Seq(S)
    OBVIOUS
  <2>2. QED
    BY <1>3, <1>4, <2>1
<1> DEFINE Is(g) == g = [i \in 0..c |-> IF i = 0 THEN << >>
                           ELSE IF els[i].name = name THEN Append(g[i - 1], els[i]) ELSE g[i - 1]]
<1>6. Is(h)
  <2>1. \A i \in 0..c : i # 0 => i \in 1..c
    OBVIOUS
  <2>2. h = [i \in 0..c |-> h[i]]
    OBVIOUS
  <2>3. QED
    BY <1>4, <1>5, <2>1, <2>2
<1> DEFINE u == CHOOSE g : Is(g)
<1>7. Is(u)
  BY <1>6
<1>8. Named(els, name) = u[c]
  BY <1>1 DEF Named
<1> HIDE DEF u
<1>9. /\ u[0] = << >>
      /\ \A i \in 1..c : u[i] = IF els[i].name = name THEN Append(u[i - 1], els[i]) ELSE u[i - 1]
  <2>1. 0 \in 0..c /\ \A i \in 1..c : i \in 0..c /\ i # 0
    OBVIOUS
  <2>2. QED
    BY <1>7, <2>1
<1>10. u \in [0..c -> Seq(S)]
  <2> DEFINE T == {k \in Nat : k <= c => u[k] = h[k]}
  <2>1. T \in SUBSET Nat /\ 0 \in T
    BY <1>4, <1>9
  <2>2. ASSUME NEW k \in T PROVE k + 1 \in T
    <3> SUFFICES ASSUME k + 1 <= c PROVE u[k + 1] = h[k + 1]
      OBVIOUS
    <3>1. k + 1 \in 1..c /\ (k + 1) - 1 = k /\ u[k] = h[k]
      OBVIOUS
    <3>2. QED
      BY <1>5, <1>9, <3>1
  <2> HIDE DEF T
  <2>3. \A k \in Nat : k \in T
    BY <2>1, <2>2, NatSet
  <2>4. \A k \in 0..c : u[k] \in Seq(S)
    BY <1>4, <2>3 DEF T
  <2>5. u = [k \in 0..c |-> u[k]]
    BY <1>7
  <2>6. QED
    BY <2>4, <2>5
<1>11. QED
  BY <1>1, <1>8, <1>9, <1>10 DEF Filters

LEMMA NamedType ==
    ASSUME NEW S, NEW els \in Seq(S), NEW name
    PROVE  Named(els, name) \in Seq(S)
<1>1. PICK u : Filters(u, els, name, S)
  BY NamedUnfolds
<1>2. Len(els) \in 0..Len(els)
  OBVIOUS
<1>3. QED
  BY <1>1, <1>2 DEF Filters

LEMMA NamedNone ==
    ASSUME NEW S, NEW els \in Seq(S), NEW name, \A i \in 1..Len(els) : els[i].name # name
    PROVE  Named(els, name) = << >>
<1>1. PICK u : Filters(u, els, name, S)
  BY NamedUnfolds
<1>2. PICK c \in Nat : c = Len(els)
  OBVIOUS
<1>3. u[0] = << >> /\ \A i \in 1..c : u[i] = u[i - 1]
  BY <1>1, <1>2 DEF Filters
<1> DEFINE T == {k \in Nat : k <= c => u[k] = << >>}
<1>4. T \in SUBSET Nat /\ 0 \in T
  BY <1>3
<1>5. ASSUME NEW k \in T PROVE k + 1 \in T
  <2>1. k + 1 <= c => k + 1 \in 1..c /\ (k + 1) - 1 = k
    OBVIOUS
  <2>2. QED
    BY <1>3, <2>1
<1>6. u[c] = << >>
  <2> HIDE DEF T
  <2>1. c \in T
    BY <1>4, <1>5, NatSet
  <2>2. QED
    BY <2>1 DEF T
<1>7. QED
  BY <1>1, <1>2, <1>6 DEF Filters

LEMMA NamedAll ==
    ASSUME NEW S, NEW els \in Seq(S), NEW name, \A i \in 1..Len(els) : els[i].name = name
    PROVE  Named(els, name) = els
<1>1. PICK u : Filters(u, els, name, S)
  BY NamedUnfolds
<1>2. PICK c \in Nat : c = Len(els)
  OBVIOUS
<1>3. /\ u[0] = << >> /\ \A i \in 1..c : u[i] = Append(u[i - 1], els[i])
      /\ \A i \in 0..c : u[i] \in Seq(S)
  BY <1>1, <1>2 DEF Filters
<1> DEFINE T == {k \in Nat : k <= c => Len(u[k]) = k /\ \A i \in 1..k : u[k][i] = els[i]}
<1>4. T \in SUBSET Nat /\ 0 \in T
  BY <1>3
<1>5. ASSUME NEW k \in T PROVE k + 1 \in T
  <2> SUFFICES ASSUME k + 1 <= c
               PROVE  Len(u[k + 1]) = k + 1 /\ \A i \in 1..k + 1 : u[k + 1][i] = els[i]
    OBVIOUS
  <2>1. /\ k \in Nat /\ k + 1 \in 1..c /\ (k + 1) - 1 = k /\ k \in 0..c
        /\ Len(u[k]) = k /\ \A i \in 1..k : u[k][i] = els[i]
    OBVIOUS
  <2>2. PICK g \in Seq(S) : g = u[k]
    BY <1>3, <2>1
  <2>3. PICK e \in S : e = els[k + 1]
    BY <1>2, <2>1
  <2>4. u[k + 1] = Append(g, e)
    BY <1>3, <2>1, <2>2, <2>3
  <2>5. QED
    BY <2>1, <2>2, <2>3, <2>4
<1>6. Len(u[c]) = c /\ \A i \in 1..c : u[c][i] = els[i]
  <2> HIDE DEF T
  <2>1. c \in T
    BY <1>4, <1>5, NatSet
  <2>2. QED
    BY <2>1 DEF T
<1>7. u[c] \in Seq(S)
  BY <1>3
<1>8. u[c] = els
  BY <1>2, <1>6, <1>7, SeqEqual
<1>9. QED
  BY <1>1, <1>2, <1>8 DEF Filters

IsConcat(r, p, q) == r = p \o q

LEMMA NamedConcat ==
    ASSUME NEW S, NEW a \in Seq(S), NEW b \in Seq(S), NEW name
    PROVE  IsConcat(Named(a \o b, name), Named(a, name), Named(b, name))
<1>1. PICK all \in Seq(S) : all = a \o b
  BY ConcatProperties
<1>2. PICK c \in Nat : c = Len(a)
  OBVIOUS
<1>3. PICK d \in Nat : d = Len(b)
  OBVIOUS
<1>4. /\ Len(all) = c + d /\ \A i \in 1..c : all[i] = a[i]
      /\ \A i \in 1..d : all[c + i] = b[i]
  BY <1>1, <1>2, <1>3
<1>5. PICK u : Filters(u, a, name, S)
  BY NamedUnfolds
<1>6. PICK v : Filters(v, b, name, S)
  BY NamedUnfolds
<1>7. PICK w : Filters(w, all, name, S)
  BY NamedUnfolds
<1>8. /\ u[0] = << >> /\ u[c] \in Seq(S)
      /\ \A i \in 1..c : u[i] = IF a[i].name = name THEN Append(u[i - 1], a[i]) ELSE u[i - 1]
  BY <1>2, <1>5 DEF Filters
<1>9. /\ v[0] = << >> /\ \A i \in 0..d : v[i] \in Seq(S)
      /\ \A i \in 1..d : v[i] = IF b[i].name = name THEN Append(v[i - 1], b[i]) ELSE v[i - 1]
  BY <1>3, <1>6 DEF Filters
<1>10. /\ w[0] = << >>
       /\ \A i \in 1..c + d : w[i] = IF all[i].name = name THEN Append(w[i - 1], all[i])
                                     ELSE w[i - 1]
  BY <1>4, <1>7 DEF Filters
<1>11. w[c] = u[c]
  <2> DEFINE T == {k \in Nat : k <= c => w[k] = u[k]}
  <2>1. T \in SUBSET Nat /\ 0 \in T
    BY <1>8, <1>10
  <2>2. ASSUME NEW k \in T PROVE k + 1 \in T
    <3>1. k \in Nat /\ (k <= c => w[k] = u[k])
      OBVIOUS
    <3>2. k + 1 <= c => w[k + 1] = u[k + 1]
      <4> SUFFICES ASSUME k + 1 <= c PROVE w[k + 1] = u[k + 1]
        OBVIOUS
      <4>1. /\ k + 1 \in 1..c /\ k + 1 \in 1..c + d /\ (k + 1) - 1 = k
            /\ w[k] = u[k]
        BY <3>1
      <4>2. all[k + 1] = a[k + 1]
        BY <1>4, <4>1
      <4> HIDE DEF T
      <4>3. QED
        BY <1>8, <1>10, <4>1, <4>2
    <3>3. QED
      BY <3>1, <3>2
  <2> HIDE DEF T
  <2>3. c \in T
    BY <2>1, <2>2, NatSet
  <2>4. QED
    BY <2>3 DEF T
<1>12. w[c + d] = u[c] \o v[d]
  <2> DEFINE P(k) == w[c + k] = u[c] \o v[k]
             T == {k \in Nat : k <= d => P(k)}
  <2>1. P(0)
    <3>1. u[c] \o << >> = u[c]
      BY <1>8, ConcatEmptySeq
    <3>2. c + 0 = c
      OBVIOUS
    <3>3. QED
      BY <1>9, <1>11, <3>1, <3>2
  <2>2. ASSUME NEW k \in Nat, k + 1 <= d, P(k) PROVE P(k + 1)
    <3>1. /\ k + 1 \in 1..d /\ (k + 1) - 1 = k /\ k \in 0..d
          /\ c + (k + 1) \in 1..c + d /\ (c + (k + 1)) - 1 = c + k
      BY <2>2
    <3>2. PICK e \in S : e = b[k + 1]
      BY <1>3, <3>1
    <3>3. all[c + (k + 1)] = e
      BY <1>4, <3>1, <3>2
    <3>4. w[c + (k + 1)] = IF e.name = name THEN Append(u[c] \o v[k], e) ELSE u[c] \o v[k]
      BY <1>10, <2>2, <3>1, <3>3
    <3>5. v[k + 1] = IF e.name = name THEN Append(v[k], e) ELSE v[k]
      BY <1>9, <3>1, <3>2
    <3>6. Append(u[c] \o v[k], e) = u[c] \o Append(v[k], e)
      <4>1. PICK x \in Seq(S), y \in Seq(S) : x = u[c] /\ y = v[k]
        BY <1>8, <1>9, <3>1
      <4>2. Append(x \o y, e) = x \o Append(y, e)
        <5>1. <<e>> \in Seq(S) /\ x \o y \in Seq(S)
          BY <3>2, <4>1, ConcatProperties
        <5>2. Append(x \o y, e) = (x \o y) \o <<e>> /\ Append(y, e) = y \o <<e>>
          BY <3>2, <4>1, <5>1, AppendIsConcat
        <5>3. \A z \in Seq(S) : (x \o y) \o z = x \o (y \o z)
          <6>1. x \in Seq(S) /\ y \in Seq(S)
            BY <4>1
          <6>2. QED
            BY <6>1, ConcatAssociative, SMTT(60)
        <5>4. QED
          BY <5>1, <5>2, <5>3
      <4>3. QED
        BY <4>1, <4>2
    <3>7. QED
      BY <3>4, <3>5, <3>6
  <2> HIDE DEF P
  <2>3. T \in SUBSET Nat /\ 0 \in T
    BY <2>1
  <2>4. ASSUME NEW k \in T PROVE k + 1 \in T
    BY <2>2
  <2>5. d \in T
    <3> HIDE DEF T
    <3>1. QED
      BY <2>3, <2>4, NatSet
  <2>6. QED
    <3>1. d <= d
      BY <1>3
    <3>2. P(d)
      BY <2>5, <3>1
    <3>3. QED
      BY <3>2 DEF P
<1>13. Named(a, name) = u[c] /\ Named(b, name) = v[d] /\ Named(all, name) = w[c + d]
  BY <1>2, <1>3, <1>4, <1>5, <1>6, <1>7 DEF Filters
<1>14. QED
  BY <1>1, <1>12, <1>13 DEF IsConcat

-----------------------------------------------------------------------------
(* What tinyxml2 keeps of a text and of elements. *)

LEMMA ParsedType ==
    ASSUME NEW e \in Elements
    PROVE  ParsedElement(e) \in Elements /\ ParsedElement(e).name = e.name
<1>1. ASSUME NEW text \in Seq(STRING) PROVE Parsed(text) \in Seq(STRING)
  <2>1. Parsed(text) = << >> \/ Parsed(text) = text
    BY Zenon DEF Parsed
  <2>2. << >> \in Seq(STRING)
    OBVIOUS
  <2>3. QED
    BY <2>1, <2>2, Zenon
<1>2. e.name \in STRING /\ e.text \in Seq(STRING) /\ e.kids \in Seq(Leaves)
  BY DEF Elements
<1>3. ASSUME NEW i \in DOMAIN e.kids PROVE ParsedLeaf(e.kids[i]) \in Leaves
  <2>1. e.kids[i] \in Leaves
    BY <1>2, <1>3
  <2>2. e.kids[i].name \in STRING /\ e.kids[i].text \in Seq(STRING)
    BY <2>1 DEF Leaves
  <2>3. QED
    BY <1>1, <2>2 DEF ParsedLeaf, Leaf, Element, Leaves
<1>4. [i \in DOMAIN e.kids |-> ParsedLeaf(e.kids[i])] \in Seq(Leaves)
  <2>1. PICK n \in Nat : DOMAIN e.kids = 1..n
    BY <1>2
  <2>2. QED
    BY <1>3, <2>1
<1>5. QED
  BY <1>1, <1>2, <1>4 DEF ParsedElement, Element, Elements

LEMMA ParseType ==
    ASSUME NEW els \in Seq(Elements)
    PROVE  /\ Parse(els) \in Seq(Elements) /\ Len(Parse(els)) = Len(els)
           /\ \A i \in 1..Len(els) : Parse(els)[i] = ParsedElement(els[i])
<1>1. PICK n \in Nat : n = Len(els) /\ DOMAIN els = 1..n
  OBVIOUS
<1>2. \A i \in 1..n : els[i] \in Elements
  BY <1>1
<1>3. \A i \in 1..n : ParsedElement(els[i]) \in Elements
  BY <1>2, ParsedType
<1>4. Parse(els) = [i \in 1..n |-> ParsedElement(els[i])]
  BY <1>1 DEF Parse
<1>5. QED
  BY <1>1, <1>3, <1>4

LEMMA ParseAppend ==
    ASSUME NEW els \in Seq(Elements), NEW e \in Elements
    PROVE  Parse(Append(els, e)) = Append(Parse(els), ParsedElement(e))
<1>1. PICK n \in Nat : n = Len(els)
  OBVIOUS
<1>2. PICK more \in Seq(Elements) : more = Append(els, e)
  <2>1. Append(els, e) \in Seq(Elements)
    OBVIOUS
  <2>2. QED
    BY <2>1, Zenon
<1>3. Len(more) = n + 1 /\ more[n + 1] = e /\ \A i \in 1..n : more[i] = els[i]
  BY <1>1, <1>2
<1>4. /\ Parse(more) \in Seq(Elements) /\ Len(Parse(more)) = n + 1
      /\ \A i \in 1..n + 1 : Parse(more)[i] = ParsedElement(more[i])
  BY <1>2, <1>3, ParseType
<1>5. /\ Parse(els) \in Seq(Elements) /\ Len(Parse(els)) = n
      /\ \A i \in 1..n : Parse(els)[i] = ParsedElement(els[i])
  BY <1>1, ParseType
<1>6. ParsedElement(e) \in Elements
  BY ParsedType
<1>7. PICK a \in Seq(Elements) : a = Append(Parse(els), ParsedElement(e))
  <2>1. Append(Parse(els), ParsedElement(e)) \in Seq(Elements)
    BY <1>5, <1>6
  <2>2. QED
    BY <2>1, Zenon
<1>8. /\ Len(a) = n + 1 /\ a[n + 1] = ParsedElement(e)
      /\ \A i \in 1..n : a[i] = ParsedElement(els[i])
  BY <1>5, <1>6, <1>7
<1>9. \A i \in 1..n + 1 : Parse(more)[i] = a[i]
  BY <1>3, <1>4, <1>8
<1>10. Parse(more) = a
  BY <1>4, <1>7, <1>8, <1>9, SeqEqual
<1>11. QED
  BY <1>2, <1>7, <1>10

LEMMA NamedParse ==
    ASSUME NEW els \in Seq(Elements), NEW name
    PROVE  Named(Parse(els), name) = Parse(Named(els, name))
<1>1. PICK c \in Nat : c = Len(els)
  OBVIOUS
<1>2. /\ Parse(els) \in Seq(Elements) /\ Len(Parse(els)) = c
      /\ \A i \in 1..c : Parse(els)[i] = ParsedElement(els[i])
  BY <1>1, ParseType
<1>3. PICK u : Filters(u, els, name, Elements)
  BY NamedUnfolds
<1>4. PICK v : Filters(v, Parse(els), name, Elements)
  BY <1>2, NamedUnfolds
<1>5. /\ u[0] = << >> /\ \A i \in 0..c : u[i] \in Seq(Elements)
      /\ \A i \in 1..c : u[i] = IF els[i].name = name THEN Append(u[i - 1], els[i])
                                ELSE u[i - 1]
  BY <1>1, <1>3 DEF Filters
<1>6. /\ v[0] = << >>
      /\ \A i \in 1..c : v[i] = IF Parse(els)[i].name = name THEN Append(v[i - 1], Parse(els)[i])
                                ELSE v[i - 1]
  BY <1>2, <1>4 DEF Filters
<1> DEFINE P(k) == v[k] = Parse(u[k])
           T == {k \in Nat : k <= c => P(k)}
<1>7. P(0)
  BY <1>5, <1>6 DEF Parse
<1>8. ASSUME NEW k \in Nat, k + 1 <= c, P(k) PROVE P(k + 1)
  <2>1. k + 1 \in 1..c /\ (k + 1) - 1 = k /\ k \in 0..c
    BY <1>1, <1>8
  <2>2. PICK e \in Elements : e = els[k + 1]
    BY <1>1, <2>1
  <2>3. Parse(els)[k + 1] = ParsedElement(e) /\ ParsedElement(e).name = e.name
    BY <1>2, <2>1, <2>2, ParsedType
  <2>4. u[k + 1] = IF e.name = name THEN Append(u[k], e) ELSE u[k]
    BY <1>5, <2>1, <2>2
  <2>5. v[k + 1] = IF e.name = name THEN Append(v[k], ParsedElement(e)) ELSE v[k]
    BY <1>6, <2>1, <2>3
  <2>6. Parse(Append(u[k], e)) = Append(Parse(u[k]), ParsedElement(e))
    BY <1>5, <2>1, <2>2, ParseAppend
  <2>7. QED
    BY <1>8, <2>4, <2>5, <2>6
<1> HIDE DEF P
<1>9. T \in SUBSET Nat /\ 0 \in T
  BY <1>7
<1>10. ASSUME NEW k \in T PROVE k + 1 \in T
  BY <1>8
<1>11. P(c)
  <2>1. c \in T
    <3> HIDE DEF T
    <3>1. QED
      BY <1>1, <1>9, <1>10, NatSet
  <2>2. c <= c
    BY <1>1
  <2>3. QED
    BY <2>1, <2>2
<1>12. Named(els, name) = u[c] /\ Named(Parse(els), name) = v[c]
  BY <1>1, <1>2, <1>3, <1>4 DEF Filters
<1>13. QED
  BY <1>11, <1>12 DEF P

-----------------------------------------------------------------------------
(* A message is the elements of its fields, one field after the other. *)

Joins(h, seqs, S) ==
    /\ h \in [0..Len(seqs) -> Seq(S)] /\ h[0] = << >>
    /\ \A i \in 1..Len(seqs) : h[i] = h[i - 1] \o seqs[i]
    /\ FlattenSeq(seqs) = h[Len(seqs)]

LEMMA FlattenUnfolds ==
    ASSUME NEW S, NEW seqs \in Seq(Seq(S))
    PROVE  \E h : Joins(h, seqs, S)
<1>1. PICK c \in Nat : c = Len(seqs)
  OBVIOUS
<1> DEFINE Q == Seq(S)
           step == [i \in 1..c |-> [g \in Q |-> g \o seqs[i]]]
<1>2. << >> \in Q /\ step \in [1..c -> [Q -> Q]]
  <2>1. ASSUME NEW i \in 1..c, NEW g \in Q PROVE g \o seqs[i] \in Q
    BY <1>1, ConcatProperties
  <2>2. QED
    BY <2>1
<1>3. \A i \in 1..c : \A g \in Q : step[i][g] = g \o seqs[i]
  OBVIOUS
<1> HIDE DEF step, Q
<1>4. PICK h : Steps(h, << >>, c, step, Q)
  BY <1>1, <1>2, PlaceRecursion
<1>5. /\ h \in [0..c -> Q] /\ h[0] = << >>
      /\ \A i \in 1..c : h[i] = h[i - 1] \o seqs[i]
  <2>1. h \in [0..c -> Q] /\ h[0] = << >> /\ \A i \in 1..c : h[i] = step[i][h[i - 1]]
    BY <1>4 DEF Steps
  <2>2. \A i \in 1..c : h[i - 1] \in Q
    <3>1. \A i \in 1..c : i - 1 \in 0..c
      BY <1>1
    <3>2. QED
      BY <2>1, <3>1
  <2>3. QED
    BY <1>3, <2>1, <2>2
<1>6. FlattenSeq(seqs) = h[c]
  <2>1. CASE c = 0
    <3>1. seqs = << >>
      BY <1>1, <2>1, EmptySeq, Zenon
    <3>2. FlattenSeq(seqs) = seqs
      BY <1>1, <2>1 DEF FlattenSeq
    <3>3. QED
      BY <1>5, <2>1, <3>1, <3>2
  <2>2. CASE c # 0
    <3> DEFINE Is(g) == g = [i \in 1..c |-> IF i = 1 THEN seqs[i] ELSE g[i - 1] \o seqs[i]]
               f == [i \in 1..c |-> h[i]]
    <3>1. Is(f)
      <4>1. ASSUME NEW i \in 1..c
            PROVE  h[i] = IF i = 1 THEN seqs[i] ELSE f[i - 1] \o seqs[i]
        <5>1. CASE i = 1
          <6>1. seqs[1] \in Seq(S) /\ h[1] = << >> \o seqs[1]
            <7>1. 1 \in 1..c /\ 1 - 1 = 0
              BY <4>1, <5>1
            <7>2. h[1] = h[1 - 1] \o seqs[1]
              BY <1>5, <7>1, Zenon
            <7>3. seqs[1] \in Seq(S)
              BY <1>1, <7>1
            <7>4. h[1 - 1] = << >>
              BY <1>5, <7>1
            <7>5. QED
              BY <7>2, <7>3, <7>4, Zenon
          <6>2. QED
            BY <5>1, <6>1, ConcatEmptySeq
        <5>2. CASE i # 1
          <6>1. i - 1 \in 1..c
            BY <1>1, <4>1, <5>2
          <6>2. f[i - 1] = h[i - 1]
            BY <6>1
          <6>3. QED
            BY <1>5, <4>1, <5>2, <6>2
        <5>3. QED
          BY <5>1, <5>2
      <4>2. QED
        BY <4>1
    <3> DEFINE u == CHOOSE g : Is(g)
    <3>2. Is(u)
      BY <3>1
    <3>3. FlattenSeq(seqs) = u[c]
      BY <1>1, <2>2 DEF FlattenSeq
    <3> HIDE DEF u
    <3>4. \A i \in 1..c : u[i] = IF i = 1 THEN seqs[i] ELSE u[i - 1] \o seqs[i]
      BY <3>2
    <3>5. \A i \in 1..c : f[i] = IF i = 1 THEN seqs[i] ELSE f[i - 1] \o seqs[i]
      BY <3>1
    <3>6. \A i \in 1..c : f[i] = h[i]
      OBVIOUS
    <3> HIDE DEF f
    <3> DEFINE T == {k \in Nat : k \in 1..c => u[k] = f[k]}
    <3>7. T \in SUBSET Nat /\ 0 \in T
      OBVIOUS
    <3>8. ASSUME NEW k \in T PROVE k + 1 \in T
      <4>1. k \in Nat /\ (k \in 1..c => u[k] = f[k])
        OBVIOUS
      <4>2. ASSUME k + 1 \in 1..c PROVE u[k + 1] = f[k + 1]
        <5>1. (k + 1) - 1 = k /\ (k + 1 # 1 => k \in 1..c)
          BY <1>1, <4>1, <4>2
        <5> HIDE DEF T
        <5>2. QED
          BY <3>4, <3>5, <4>1, <4>2, <5>1
      <4>3. QED
        BY <4>1, <4>2
    <3>9. c \in T
      <4> HIDE DEF T
      <4>1. QED
        BY <1>1, <3>7, <3>8, NatSet
    <3>10. c \in 1..c
      BY <1>1, <2>2
    <3>11. QED
      BY <3>3, <3>6, <3>9, <3>10
  <2>3. QED
    BY <2>1, <2>2
<1>7. QED
  BY <1>1, <1>5, <1>6 DEF Joins, Q

(* Lists of elements with a name of their own each, and what puts them     *)
(* behind each other and finds each by its name again.                     *)
ByName(seqs, names) ==
    /\ \A i, k \in 1..Len(seqs) : names[i] = names[k] => i = k
    /\ \A i \in 1..Len(seqs) : \A m \in 1..Len(seqs[i]) : seqs[i][m].name = names[i]

Gathers(all, seqs, names, S) ==
    /\ all \in Seq(S)
    /\ \A k \in 1..Len(seqs) : Named(all, names[k]) = seqs[k]

LEMMA FlattenNamed ==
    ASSUME NEW S, NEW seqs \in Seq(Seq(S)), NEW names, ByName(seqs, names)
    PROVE  Gathers(FlattenSeq(seqs), seqs, names, S)
<1> USE DEF ByName, Gathers
<1>1. PICK c \in Nat : c = Len(seqs)
  OBVIOUS
<1>2. PICK h : Joins(h, seqs, S)
  BY FlattenUnfolds
<1>3. /\ h[0] = << >> /\ FlattenSeq(seqs) = h[c]
      /\ \A i \in 0..c : h[i] \in Seq(S)
      /\ \A i \in 1..c : h[i] = h[i - 1] \o seqs[i]
  BY <1>1, <1>2 DEF Joins
<1>4. FlattenSeq(seqs) \in Seq(S)
  BY <1>1, <1>3
<1>5. ASSUME NEW k \in 1..c PROVE Named(h[c], names[k]) = seqs[k]
  <2> DEFINE P(i) == Named(h[i], names[k]) = IF i < k THEN << >> ELSE seqs[k]
             T == {i \in Nat : i <= c => P(i)}
  <2>1. seqs[k] \in Seq(S) /\ k \in Nat /\ 1 <= k
    BY <1>1, <1>5
  <2>2. P(0)
    <3>1. << >> \in Seq(S) /\ Len(<< >>) = 0
      OBVIOUS
    <3>2. Named(<< >>, names[k]) = << >>
      <4>1. PICK none \in Seq(S) : none = << >>
        BY <3>1
      <4>2. \A m \in 1..Len(none) : none[m].name # names[k]
        BY <4>1
      <4>3. Named(none, names[k]) = << >>
        BY <4>1, <4>2, NamedNone
      <4>4. QED
        BY <4>1, <4>3
    <3>3. QED
      BY <1>3, <2>1, <3>2
  <2>3. ASSUME NEW i \in Nat, i + 1 <= c, P(i) PROVE P(i + 1)
    <3>1. i + 1 \in 1..c /\ (i + 1) - 1 = i /\ i \in 0..c
      BY <1>1, <2>3
    <3>2. seqs[i + 1] \in Seq(S) /\ h[i] \in Seq(S)
      BY <1>1, <1>3, <3>1
    <3>3. h[i + 1] = h[i] \o seqs[i + 1]
      BY <1>3, <3>1
    <3>4. Named(h[i + 1], names[k]) = Named(h[i], names[k]) \o Named(seqs[i + 1], names[k])
      <4>1. PICK a \in Seq(S), b \in Seq(S) : a = h[i] /\ b = seqs[i + 1]
        BY <3>2
      <4>2. IsConcat(Named(a \o b, names[k]), Named(a, names[k]), Named(b, names[k]))
        BY <4>1, NamedConcat
      <4>3. QED
        BY <3>3, <4>1, <4>2 DEF IsConcat
    <3>5. CASE i + 1 = k
      <4>1. Named(seqs[k], names[k]) = seqs[k]
        BY <1>1, <1>5, <2>1, NamedAll
      <4>2. Named(h[i], names[k]) = << >>
        BY <2>3, <3>5
      <4>3. << >> \o seqs[k] = seqs[k]
        BY <2>1, ConcatEmptySeq
      <4>4. QED
        BY <3>4, <3>5, <4>1, <4>2, <4>3
    <3>6. CASE i + 1 # k
      <4>1. names[i + 1] # names[k]
        BY <1>1, <1>5, <3>1, <3>6
      <4>2. \A m \in 1..Len(seqs[i + 1]) : seqs[i + 1][m].name # names[k]
        BY <1>1, <3>1, <4>1
      <4>3. Named(seqs[i + 1], names[k]) = << >>
        BY <3>2, <4>2, NamedNone
      <4>4. Named(h[i], names[k]) \in Seq(S)
        BY <3>2, NamedType
      <4>5. Named(h[i + 1], names[k]) = Named(h[i], names[k])
        BY <3>4, <4>3, <4>4, ConcatEmptySeq
      <4>6. i + 1 < k <=> i < k
        BY <2>1, <3>6
      <4>7. QED
        BY <2>3, <4>5, <4>6
    <3>7. QED
      BY <3>5, <3>6
  <2> HIDE DEF P
  <2>4. T \in SUBSET Nat /\ 0 \in T
    BY <2>2
  <2>5. ASSUME NEW i \in T PROVE i + 1 \in T
    BY <2>3
  <2>6. P(c)
    <3>1. c \in T
      <4> HIDE DEF T
      <4>1. QED
        BY <1>1, <2>4, <2>5, NatSet
    <3>2. c <= c
      BY <1>1
    <3>3. QED
      BY <3>1, <3>2
  <2>7. ~ (c < k)
    BY <1>1, <1>5
  <2>8. QED
    BY <2>6, <2>7 DEF P
<1>6. QED
  BY <1>1, <1>3, <1>4, <1>5


-----------------------------------------------------------------------------
(* Short sequences of strings: an equation of sequences as an operator, so *)
(* that a lemma can be used as it stands.                                  *)

IsSubSeq(r, s, m, n) == r = SubSeq(s, m, n)

LEMMA ConcatAt ==
    ASSUME NEW S, NEW x \in Seq(S), NEW y \in Seq(S), NEW z \in Seq(S),
           Len(z) = Len(x) + Len(y), \A i \in 1..Len(x) : z[i] = x[i],
           \A i \in 1..Len(y) : z[Len(x) + i] = y[i]
    PROVE  IsConcat(z, x, y)
<1>1. PICK w \in Seq(S) : w = x \o y
  BY ConcatProperties
<1>2. Len(w) = Len(z) /\ \A i \in 1..Len(w) : w[i] = z[i]
  BY <1>1
<1>3. w = z
  BY <1>2, SeqEqual
<1>4. QED
  BY <1>1, <1>3 DEF IsConcat

LEMMA SubSeqAt ==
    ASSUME NEW S, NEW x \in Seq(S), NEW m \in 1..Len(x), NEW n \in m..Len(x), NEW z \in Seq(S),
           Len(z) = n - m + 1, \A i \in 1..Len(z) : z[i] = x[m + i - 1]
    PROVE  IsSubSeq(z, x, m, n)
<1>1. PICK w \in Seq(S) : w = SubSeq(x, m, n)
  BY SubSeqProperties
<1>2. Len(w) = Len(z) /\ \A i \in 1..Len(w) : w[i] = z[i]
  BY <1>1
<1>3. w = z
  BY <1>2, SeqEqual
<1>4. QED
  BY <1>1, <1>3 DEF IsSubSeq

LEMMA ConcatOfTwo ==
    ASSUME NEW S, NEW a \in S, NEW b \in S
    PROVE  IsConcat(<<a, b>>, <<a>>, <<b>>)
<1>1. <<a>> \in Seq(S) /\ <<b>> \in Seq(S) /\ <<a, b>> \in Seq(S)
  OBVIOUS
<1>2. PICK x \in Seq(S), y \in Seq(S), z \in Seq(S) : x = <<a>> /\ y = <<b>> /\ z = <<a, b>>
  BY <1>1, Zenon
<1>3. Len(x) = 1 /\ Len(y) = 1 /\ Len(z) = 2 /\ z[1] = x[1] /\ z[2] = y[1]
  BY <1>2
<1>4. /\ Len(z) = Len(x) + Len(y) /\ \A i \in 1..Len(x) : z[i] = x[i]
      /\ \A i \in 1..Len(y) : z[Len(x) + i] = y[i]
  BY <1>3
<1>5. IsConcat(z, x, y)
  BY <1>2, <1>4, ConcatAt
<1>6. QED
  BY <1>2, <1>5, Zenon

LEMMA ShortSeqs ==
    ASSUME NEW S, NEW a \in S, NEW b \in S, NEW c \in S
    PROVE  /\ <<a>> \in Seq(S) /\ Len(<<a>>) = 1 /\ <<a>>[1] = a
           /\ <<a, b>> \in Seq(S) /\ Len(<<a, b>>) = 2
           /\ <<a, b, c>> \in Seq(S) /\ Len(<<a, b, c>>) = 3
OBVIOUS

LEMMA Prefixed ==
    ASSUME NEW S, NEW a \in S, NEW x \in Seq(S), Len(x) >= 1, NEW z, IsConcat(z, <<a>>, x)
    PROVE  z \in Seq(S) /\ Len(z) >= 1 /\ z[1] = a /\ z[2] = x[1]
<1>1. <<a>> \in Seq(S) /\ Len(<<a>>) = 1 /\ <<a>>[1] = a
  OBVIOUS
<1>2. PICK p \in Seq(S) : p = <<a>> /\ Len(p) = 1 /\ p[1] = a
  BY <1>1, Zenon
<1>3. PICK w \in Seq(S) : w = p \o x
  BY <1>2, ConcatProperties
<1>4. Len(w) >= 2 /\ w[1] = a /\ w[2] = x[1]
  BY <1>2, <1>3
<1>5. Len(w) >= 1
  BY <1>4
<1>6. z = w
  BY <1>2, <1>3, Zenon DEF IsConcat
<1>7. QED
  BY <1>4, <1>5, <1>6, Zenon

LEMMA ThirdOfThree ==
    ASSUME NEW S, NEW z \in Seq(S), Len(z) >= 3
    PROVE  /\ SubSeq(z, 3, 3) \in Seq(S) /\ Len(SubSeq(z, 3, 3)) >= 1
           /\ SubSeq(z, 3, 3)[1] = z[3]
BY SubSeqProperties

(* A type between the brackets of a vector. *)
LEMMA Wrapped ==
    ASSUME NEW S, NEW a \in S, NEW b \in S, NEW x \in Seq(S), Len(x) >= 1, NEW full,
           IsConcat(full, <<a>> \o x, <<b>>)
    PROVE  /\ full \in Seq(S) /\ Len(full) = Len(x) + 2
           /\ Head(full) = a /\ Last(full) = b /\ \A i \in 1..Len(x) : full[i + 1] = x[i]
           /\ IsSubSeq(x, full, 2, Len(full) - 1)
<1>1. <<a>> \in Seq(S) /\ <<b>> \in Seq(S)
  OBVIOUS
<1>2. PICK p \in Seq(S), q \in Seq(S) : p = <<a>> /\ q = <<b>>
  BY <1>1, Zenon
<1>3. PICK r \in Seq(S) : r = p \o x
  BY <1>2, ConcatProperties
<1>4. full = r \o q
  BY <1>2, <1>3, Zenon DEF IsConcat
<1>5. PICK c \in Nat : c = Len(x) /\ c >= 1
  OBVIOUS
<1>6. Len(p) = 1 /\ p[1] = a /\ Len(q) = 1 /\ q[1] = b
  BY <1>2
<1>7. Len(r) = c + 1 /\ r[1] = a /\ \A i \in 1..c : r[i + 1] = x[i]
  BY <1>2, <1>3, <1>5, <1>6
<1>8. PICK w \in Seq(S) : w = full
  BY <1>2, <1>3, <1>4, ConcatProperties
<1>9. Len(w) = c + 2 /\ w[1] = a /\ w[c + 2] = b /\ \A i \in 1..c : w[i + 1] = x[i]
  BY <1>2, <1>3, <1>4, <1>5, <1>6, <1>7, <1>8
<1>10. Head(w) = a /\ Last(w) = b
  BY <1>5, <1>8, <1>9 DEF Last
<1>11. IsSubSeq(x, w, 2, c + 1)
  <2>1. /\ 2 \in 1..Len(w) /\ c + 1 \in 2..Len(w) /\ Len(x) = (c + 1) - 2 + 1
        /\ \A i \in 1..Len(x) : x[i] = w[2 + i - 1]
    BY <1>5, <1>9
  <2>2. QED
    BY <1>8, <2>1, SubSeqAt
<1>12. IsSubSeq(x, w, 2, Len(w) - 1)
  <2>1. Len(w) - 1 = c + 1
    BY <1>5, <1>9
  <2>2. QED
    BY <1>11, <2>1
<1>13. w \in Seq(S) /\ Len(w) = Len(x) + 2 /\ \A i \in 1..Len(x) : w[i + 1] = x[i]
  BY <1>5, <1>8, <1>9
<1>14. QED
  BY <1>8, <1>10, <1>12, <1>13

-----------------------------------------------------------------------------
(* What the bindings and the WSDL say of a field. *)

LEMMA ThreeItems ==
    ASSUME NEW R, NEW a \in R, NEW b \in R, NEW c \in R
    PROVE  /\ <<a, b, c>> \in Seq(R) /\ <<a, b, c>> # << >>
           /\ Head(<<a, b, c>>) = a /\ Tail(<<a, b, c>>) = <<b, c>>
OBVIOUS

LEMMA NativeBindingOf ==
    ASSUME NEW f \in Fields(NativeType)
    PROVE  NativeBinding(f) =
              [name |-> f.name, type |-> IF f.of = "class" THEN <<" ", "Inner">> ELSE <<f.of>>,
               flags |-> (IF f.many THEN {0} ELSE {}) \cup (IF f.of = "class" THEN {0, 1} ELSE {}),
               values |-> {}]
<1>1. f.of \in NativeType /\ f.many \in BOOLEAN
  BY DEF Fields
<1> DEFINE full == GetSoapTypeName(f)
           x == TypeidName(f.of)
           S == {"class", " ", "Inner", "vector<", ">"} \cup NativeType
           vector == Head(full) = "vector<" /\ Last(full) = ">"
           plain == IF vector THEN SubSeq(full, 2, Len(full) - 1) ELSE full
<1>2. /\ x \in Seq(S) /\ x # << >> /\ Head(x) # "vector<"
      /\ Head(x) = "class" <=> f.of = "class"
      /\ f.of # "class" => x = <<f.of>>
  <2>1. CASE f.of = "class"
    <3>1. x = <<"class", " ", "Inner">>
      BY <2>1 DEF TypeidName
    <3> HIDE DEF x
    <3>2. "class" \in S /\ " " \in S /\ "Inner" \in S
      OBVIOUS
    <3> HIDE DEF S
    <3>3. x \in Seq(S) /\ x # << >> /\ Head(x) = "class"
      BY <3>1, <3>2, ThreeItems, Zenon
    <3>4. QED
      BY <2>1, <3>3
  <2>2. CASE f.of # "class"
    <3>1. x = <<f.of>>
      BY <2>2 DEF TypeidName
    <3> HIDE DEF x
    <3>2. f.of \in S /\ f.of # "vector<"
      BY <1>1 DEF NativeType
    <3> HIDE DEF S
    <3>3. x \in Seq(S) /\ x # << >> /\ Head(x) = f.of
      BY <3>1, <3>2
    <3>4. QED
      BY <2>2, <3>1, <3>2, <3>3, Zenon
  <2>3. QED
    BY <2>1, <2>2
<1>3. f.of = "class" => Tail(x) = <<" ", "Inner">>
  <2>1. f.of = "class" => x = <<"class", " ", "Inner">>
    BY DEF TypeidName
  <2>2. Tail(<<"class", " ", "Inner">>) = <<" ", "Inner">>
    <3>1. "class" \in S /\ " " \in S /\ "Inner" \in S
      OBVIOUS
    <3> HIDE DEF S
    <3>2. QED
      BY <3>1, ThreeItems, Zenon
  <2>3. QED
    BY <2>1, <2>2, Zenon
<1>4. full = IF f.many THEN <<"vector<">> \o x \o <<">">> ELSE x
  BY Zenon DEF GetSoapTypeName
<1> HIDE DEF x, full
<1>5. vector = f.many /\ plain = x
  <2>1. CASE f.many
    <3>1. IsConcat(full, <<"vector<">> \o x, <<">">>)
      BY <1>4, <2>1, Zenon DEF IsConcat
    <3>2. Head(full) = "vector<" /\ Last(full) = ">" /\ IsSubSeq(x, full, 2, Len(full) - 1)
      <4>1. "vector<" \in S /\ ">" \in S
        OBVIOUS
      <4> HIDE DEF S
      <4>2. QED
        BY <1>2, <3>1, <4>1, Wrapped
    <3>3. QED
      BY <1>1, <2>1, <3>2, Zenon DEF IsSubSeq
  <2>2. CASE ~f.many
    <3>1. full = x
      BY <1>4, <2>2, Zenon
    <3>2. Head(full) # "vector<"
      BY <1>2, <3>1, Zenon
    <3>3. QED
      BY <1>1, <2>2, <3>1, <3>2, Zenon
  <2>3. QED
    BY <2>1, <2>2
<1> DEFINE t == GetFieldFlags(full)
<1>6. /\ t.flags = FF_Optional \cup (IF f.many THEN FF_Repeated ELSE {})
                   \cup (IF Head(x) = "class" THEN FF_Class ELSE {})
      /\ t.type = IF Head(x) = "class" THEN Tail(x) ELSE x
  <2> HIDE DEF vector, plain
  <2>1. t = [flags |-> FF_Optional \cup (IF vector THEN FF_Repeated ELSE {})
                       \cup (IF Head(plain) = "class" THEN FF_Class ELSE {}),
             type |-> IF Head(plain) = "class" THEN Tail(plain) ELSE plain]
    BY Zenon DEF GetFieldFlags, vector, plain
  <2>2. QED
    BY <1>5, <2>1
<1>7. NativeBinding(f) = [name |-> f.name, type |-> t.type, flags |-> t.flags, values |-> {}]
  BY Zenon DEF NativeBinding, full
<1> HIDE DEF t
<1>8. t.type = IF f.of = "class" THEN <<" ", "Inner">> ELSE <<f.of>>
  BY <1>2, <1>3, <1>6, Zenon
<1>9. t.flags = (IF f.many THEN {0} ELSE {}) \cup (IF f.of = "class" THEN {0, 1} ELSE {})
  <2>1. Head(x) = "class" <=> f.of = "class"
    BY <1>2
  <2>2. t.flags = FF_Optional \cup (IF f.many THEN FF_Repeated ELSE {})
                  \cup (IF f.of = "class" THEN FF_Class ELSE {})
    BY <1>6, <2>1, Zenon
  <2>3. QED
    BY <2>2 DEF FF_Optional, FF_Repeated, FF_Class
<1>10. QED
  BY <1>7, <1>8, <1>9, Zenon

LEMMA XsTypesAre ==
    ASSUME NEW t
    PROVE  <<"xs:", t>> \in XsTypes <=> t \in {"int", "boolean", "string", "double", "hexBinary"}
BY DEF XsTypes

LEMMA EmptyIsNoType == << >> \notin XsTypes
<1>1. \A t : << >> # <<"xs:", t>>
  OBVIOUS
<1>2. QED
  BY <1>1 DEF XsTypes

LEMMA FlagsOf ==
    ASSUME NEW many \in BOOLEAN, NEW nested \in BOOLEAN, NEW flags,
           flags = (IF many THEN {0} ELSE {}) \cup (IF nested THEN {0, 1} ELSE {})
    PROVE  (0 \in flags <=> many \/ nested) /\ (1 \in flags <=> nested)
OBVIOUS

LEMMA NativeWsdl ==
    ASSUME NEW f \in Fields(NativeType), NEW w, w = GenerateWsdl(NativeBinding(f))
    PROVE  /\ w.name = f.name /\ w.values = {}
           /\ f.of \in {"class", "char"} => ~Typed(w)
           /\ f.of \notin {"class", "char"} =>
                 /\ Typed(w) /\ w.type = <<"xs:", f.of>> /\ w.least = 0 /\ w.many = f.many
<1>1. f.of \in NativeType /\ f.many \in BOOLEAN
  BY DEF Fields
<1> DEFINE b == NativeBinding(f)
<1>2. /\ b.name = f.name /\ b.values = {}
      /\ b.type = IF f.of = "class" THEN <<" ", "Inner">> ELSE <<f.of>>
      /\ b.flags = (IF f.many THEN {0} ELSE {}) \cup (IF f.of = "class" THEN {0, 1} ELSE {})
  <2>1. b = [name |-> f.name, type |-> IF f.of = "class" THEN <<" ", "Inner">> ELSE <<f.of>>,
             flags |-> (IF f.many THEN {0} ELSE {}) \cup (IF f.of = "class" THEN {0, 1} ELSE {}),
             values |-> {}]
    BY NativeBindingOf
  <2> HIDE DEF b
  <2>2. QED
    BY <2>1
<1> HIDE DEF b
<1>3. w = GenerateWsdl(b)
  BY DEF b
<1>4. /\ IsEnum(b) <=> f.of = "class"
      /\ IsClass(b) <=> f.of = "class"
      /\ f.of # "class" => (IsRepeated(b) <=> f.many)
      /\ IsOptional(b)
  <2>1. /\ 0 \in b.flags <=> f.many \/ f.of = "class"
        /\ 1 \in b.flags <=> f.of = "class"
    BY <1>1, <1>2, FlagsOf
  <2>2. QED
    BY <2>1 DEF IsEnum, IsClass, IsRepeated, IsOptional, FF_Enum, FF_Class, FF_Repeated,
                FF_Optional
<1>5. CASE f.of = "class"
  <2>1. w = [name |-> f.name, type |-> << >>, values |-> {}, least |-> 1, many |-> FALSE]
    BY <1>2, <1>3, <1>4, <1>5, Zenon DEF GenerateWsdl
  <2>2. w.name = f.name /\ w.values = {} /\ w.type = << >>
    BY <2>1
  <2>3. QED
    BY <1>5, <2>2, EmptyIsNoType DEF Typed
<1>6. CASE f.of # "class"
  <2>1. IsConcat(<<"xs:", f.of>>, <<"xs:">>, <<f.of>>)
    <3>1. "xs:" \in {"xs:"} \cup NativeType /\ f.of \in {"xs:"} \cup NativeType
      BY <1>1
    <3>2. QED
      BY <3>1, ConcatOfTwo
  <2>2. b.type = <<f.of>> /\ (IsRepeated(b) = f.many)
    BY <1>1, <1>2, <1>4, <1>6 DEF IsRepeated
  <2>3. w = [name |-> f.name, values |-> {}, type |-> <<"xs:", f.of>>, least |-> 0,
             many |-> f.many]
    BY <1>2, <1>3, <1>4, <1>6, <2>1, <2>2, Zenon DEF GenerateWsdl, IsConcat
  <2>4. /\ w.name = f.name /\ w.values = {} /\ w.type = <<"xs:", f.of>> /\ w.least = 0
        /\ w.many = f.many
    BY <2>3
  <2>5. Typed(w) <=> f.of # "char"
    <3>1. Typed(w) <=> <<"xs:", f.of>> \in XsTypes
      BY <2>4 DEF Typed
    <3>2. QED
      BY <1>1, <1>6, <3>1, XsTypesAre DEF NativeType
  <2>6. QED
    BY <1>6, <2>4, <2>5
<1>7. QED
  BY <1>5, <1>6

LEMMA NativeConverters ==
    ASSUME NEW f \in Fields(NativeType)
    PROVE  /\ HasScalar(f) <=> ~f.many /\ f.of \in Converted
           /\ HasVector(f) <=> f.many /\ f.of \in Converted
           /\ ~HasNested(f)
<1>1. f.of \in NativeType /\ f.many \in BOOLEAN
  BY DEF Fields
<1> DEFINE b == NativeBinding(f)
           type == IF f.of = "class" THEN <<" ", "Inner">> ELSE <<f.of>>
           full == GetFullType(b)
<1>2. PICK S : /\ "class:" \in S /\ "class" \in S /\ " " \in S /\ "Inner" \in S
               /\ "vector<" \in S /\ ">" \in S /\ NativeType \subseteq S
  <2> DEFINE R == {"class:", "class", " ", "Inner", "vector<", ">"} \cup NativeType
  <2>1. /\ "class:" \in R /\ "class" \in R /\ " " \in R /\ "Inner" \in R
        /\ "vector<" \in R /\ ">" \in R /\ NativeType \subseteq R
    OBVIOUS
  <2> HIDE DEF R
  <2>2. QED
    BY <2>1
<1>3. b.type = type /\ b.flags = (IF f.many THEN {0} ELSE {})
                                 \cup (IF f.of = "class" THEN {0, 1} ELSE {})
  <2>1. b = [name |-> f.name, type |-> type,
             flags |-> (IF f.many THEN {0} ELSE {}) \cup (IF f.of = "class" THEN {0, 1} ELSE {}),
             values |-> {}]
    BY NativeBindingOf
  <2> HIDE DEF b, type
  <2>2. QED
    BY <2>1
<1> HIDE DEF b
<1>4. /\ IsClass(b) <=> f.of = "class"
      /\ IsRepeated(b) <=> f.many \/ f.of = "class"
  <2>1. /\ 0 \in b.flags <=> f.many \/ f.of = "class"
        /\ 1 \in b.flags <=> f.of = "class"
    BY <1>1, <1>3, FlagsOf
  <2>2. QED
    BY <2>1 DEF IsClass, IsRepeated, FF_Class, FF_Repeated
<1> DEFINE plain == IF IsClass(b) THEN <<"class:">> \o b.type ELSE b.type
<1>5. full = IF IsRepeated(b) THEN <<"vector<">> \o plain \o <<">">> ELSE plain
  BY Zenon DEF GetFullType
<1> HIDE DEF full
<1>6. CASE f.of = "class"
  <2>1. /\ b.type \in Seq(S) /\ Len(b.type) >= 1 /\ b.type[1] = " "
    <3>1. <<" ", "Inner">> \in Seq(S)
      BY <1>2, ShortSeqs, Zenon
    <3>2. Len(<<" ", "Inner">>) >= 1 /\ <<" ", "Inner">>[1] = " "
      OBVIOUS
    <3>3. QED
      BY <1>3, <1>6, <3>1, <3>2, Zenon
  <2>2. PICK q \in Seq(S) : q = plain /\ Len(q) >= 1 /\ q[1] = "class:" /\ q[2] = " "
    <3>1. plain = <<"class:">> \o b.type
      BY <1>4, <1>6, Zenon
    <3>2. /\ <<"class:">> \o b.type \in Seq(S) /\ Len(<<"class:">> \o b.type) >= 1
          /\ (<<"class:">> \o b.type)[1] = "class:" /\ (<<"class:">> \o b.type)[2] = " "
      <4>1. PICK c \in S, x \in Seq(S) : c = "class:" /\ x = b.type /\ Len(x) >= 1 /\ x[1] = " "
        BY <1>2, <2>1, Zenon
      <4>2. PICK y : y = plain
        BY Zenon
      <4>3. IsConcat(y, <<c>>, x)
        BY <3>1, <4>1, <4>2, Zenon DEF IsConcat
      <4>4. y \in Seq(S) /\ Len(y) >= 1 /\ y[1] = c /\ y[2] = x[1]
        <5>1. c \in S /\ x \in Seq(S) /\ Len(x) >= 1
          BY <4>1, Zenon
        <5>2. QED
          BY <4>3, <5>1, Prefixed
      <4>5. QED
        BY <3>1, <4>1, <4>2, <4>4, Zenon
    <3>3. QED
      BY <3>1, <3>2, Zenon
  <2>3. IsConcat(full, <<"vector<">> \o q, <<">">>)
    BY <1>4, <1>5, <1>6, <2>2, Zenon DEF IsConcat
  <2>4. full[1] = "vector<" /\ full[2] = "class:"
    <3>1. "vector<" \in S /\ ">" \in S
      BY <1>2, Zenon
    <3>2. /\ full \in Seq(S) /\ Len(full) = Len(q) + 2 /\ Head(full) = "vector<"
          /\ \A i \in 1..Len(q) : full[i + 1] = q[i]
      <4>1. PICK v \in S, w \in S : v = "vector<" /\ w = ">"
        BY <3>1, Zenon
      <4>2. q \in Seq(S) /\ Len(q) >= 1 /\ IsConcat(full, <<v>> \o q, <<w>>)
        BY <2>2, <2>3, <4>1, Zenon
      <4>3. /\ full \in Seq(S) /\ Len(full) = Len(q) + 2 /\ Head(full) = v
            /\ \A i \in 1..Len(q) : full[i + 1] = q[i]
        BY <4>1, <4>2, Wrapped
      <4>4. QED
        BY <4>1, <4>3, Zenon
    <3>3. 1 \in 1..Len(q) /\ 1 + 1 = 2
      <4>1. q \in Seq(S) /\ Len(q) >= 1
        BY <2>2, Zenon
      <4>2. QED
        BY <4>1
    <3>4. Head(full) = full[1]
      BY <3>2
    <3>5. QED
      BY <2>2, <3>2, <3>3, <3>4, Zenon
  <2>5. ~HasScalar(f) /\ ~HasVector(f)
    <3>1. \A t : full = <<t>> => full[1] = t
      OBVIOUS
    <3>2. \A t : full = <<"vector<", t, ">">> => full[2] = t
      OBVIOUS
    <3>3. "vector<" \notin Converted /\ "class:" \notin Converted
      BY DEF Converted
    <3>4. QED
      BY <2>4, <3>1, <3>2, <3>3, Zenon DEF HasScalar, HasVector, full, b
  <2>6. ~HasNested(f)
    <3>1. TypeidName("class") = <<"class", " ", "Inner">>
      BY DEF TypeidName
    <3>2. PICK z \in Seq(S) : z = TypeidName("class") /\ Len(z) >= 3 /\ z[3] = "Inner"
                              /\ Head(z) = "class" /\ Len(z) = 3
      <4>1. <<"class", " ", "Inner">> \in Seq(S)
        BY <1>2, ShortSeqs, Zenon
      <4>2. /\ Len(<<"class", " ", "Inner">>) >= 3 /\ <<"class", " ", "Inner">>[3] = "Inner"
            /\ Head(<<"class", " ", "Inner">>) = "class" /\ Len(<<"class", " ", "Inner">>) = 3
        OBVIOUS
      <4>3. QED
        BY <3>1, <4>1, <4>2, Zenon
    <3>3. GetTypeName(z) = <<"class:">> \o SubSeq(z, 3, 3)
      BY <3>2, Zenon DEF GetTypeName
    <3>4. /\ SubSeq(z, 3, 3) \in Seq(S) /\ Len(SubSeq(z, 3, 3)) >= 1
          /\ SubSeq(z, 3, 3)[1] = "Inner"
      BY <3>2, ThirdOfThree, Zenon
    <3>5. (<<"class:">> \o SubSeq(z, 3, 3))[2] = "Inner"
      <4>1. PICK c \in S, x \in Seq(S) : c = "class:" /\ x = SubSeq(z, 3, 3) /\ Len(x) >= 1
                                      /\ x[1] = "Inner"
        BY <1>2, <3>4, Zenon
      <4>2. PICK y : IsConcat(y, <<c>>, x)
        BY Zenon DEF IsConcat
      <4>3. y[2] = x[1]
        <5>1. c \in S /\ x \in Seq(S) /\ Len(x) >= 1
          BY <4>1, Zenon
        <5>2. QED
          BY <4>2, <5>1, Prefixed
      <4>4. QED
        BY <4>1, <4>2, <4>3, Zenon DEF IsConcat
    <3>6. (<<"class:">> \o b.type)[2] = " "
      BY <2>2, <1>4, <1>6, Zenon
    <3>7. " " # "Inner"
      OBVIOUS
    <3>8. <<"class:">> \o b.type # GetTypeName(z)
      BY <3>3, <3>5, <3>6, <3>7, Zenon
    <3>9. QED
      BY <3>2, <3>8, Zenon DEF HasNested, HasClassBinding, b
  <2>7. QED
    BY <1>6, <2>5, <2>6 DEF Converted
<1>7. CASE f.of # "class" /\ ~f.many
  <2>1. full = <<f.of>>
    BY <1>3, <1>4, <1>5, <1>7, Zenon
  <2>2. \A t : (<<f.of>> = <<t>> <=> f.of = t) /\ <<f.of>> # <<"vector<", t, ">">>
    OBVIOUS
  <2>3. HasScalar(f) <=> f.of \in Converted
    BY <2>1, <2>2 DEF HasScalar, full, b
  <2>4. ~HasVector(f)
    BY <2>1, <2>2, Zenon DEF HasVector, full, b
  <2>5. ~HasNested(f)
    BY <1>4, <1>7, Zenon DEF HasNested, b
  <2>6. QED
    BY <1>7, <2>3, <2>4, <2>5
<1>8. CASE f.of # "class" /\ f.many
  <2>1. IsConcat(full, <<"vector<">> \o <<f.of>>, <<">">>)
    BY <1>3, <1>4, <1>5, <1>8, Zenon DEF IsConcat
  <2>2. PICK x \in Seq(S) : x = <<f.of>> /\ Len(x) = 1 /\ x[1] = f.of
    <3>1. <<f.of>> \in Seq(S) /\ Len(<<f.of>>) = 1 /\ <<f.of>>[1] = f.of
      BY <1>1, <1>2, ShortSeqs, Zenon
    <3>2. QED
      BY <3>1, Zenon
  <2>3. /\ full \in Seq(S) /\ Len(full) = 3 /\ Head(full) = "vector<" /\ Last(full) = ">"
        /\ full[2] = f.of
    <3>1. IsConcat(full, <<"vector<">> \o x, <<">">>) /\ x # << >>
      <4>1. IsConcat(full, <<"vector<">> \o x, <<">">>) /\ Len(x) = 1 /\ x \in Seq(S)
        BY <2>1, <2>2, Zenon
      <4>2. QED
        BY <4>1
    <3>2. /\ full \in Seq(S) /\ Len(full) = Len(x) + 2
          /\ Head(full) = "vector<" /\ Last(full) = ">" /\ \A i \in 1..Len(x) : full[i + 1] = x[i]
      <4>1. "vector<" \in S /\ ">" \in S /\ x \in Seq(S)
        BY <1>2, <2>2, Zenon
      <4>2. QED
        BY <3>1, <4>1, Wrapped
    <3>3. full[1 + 1] = x[1]
      BY <2>2, <3>2
    <3>4. QED
      BY <2>2, <3>2, <3>3
  <2>4. full[1] = "vector<" /\ full[3] = ">"
    BY <2>3 DEF Last
  <2>5. ASSUME NEW t \in S PROVE full = <<"vector<", t, ">">> <=> f.of = t
    <3>1. <<"vector<", t, ">">> \in Seq(S)
      BY <1>2, ShortSeqs, Zenon
    <3>2. PICK z \in Seq(S) : z = <<"vector<", t, ">">>
      BY <3>1, Zenon
    <3>3. Len(z) = 3 /\ z[1] = "vector<" /\ z[2] = t /\ z[3] = ">"
      BY <3>2
    <3>4. f.of = t => \A i \in 1..Len(full) : full[i] = z[i]
      BY <2>3, <2>4, <3>3
    <3>5. f.of = t => full = z
      BY <2>3, <3>3, <3>4, SeqEqual
    <3>6. full = z => f.of = t
      BY <2>3, <3>3
    <3>7. QED
      BY <3>2, <3>5, <3>6, Zenon
  <2>6. HasVector(f) <=> f.of \in Converted
    <3>1. Converted \subseteq S
      BY <1>2 DEF Converted, NativeType
    <3>2. QED
      BY <2>5, <3>1, Zenon DEF HasVector, full, b
  <2>7. ~HasScalar(f)
    <3>1. \A t : Len(<<t>>) = 1
      OBVIOUS
    <3>2. Len(full) # 1
      BY <2>3
    <3>3. QED
      BY <3>1, <3>2, Zenon DEF HasScalar, full, b
  <2>8. ~HasNested(f)
    BY <1>4, <1>8, Zenon DEF HasNested, b
  <2>9. QED
    BY <1>8, <2>6, <2>7, <2>8
<1>9. QED
  BY <1>1, <1>6, <1>7, <1>8

LEMMA XsNames ==
    /\ ProtobufType = {"string", "bool", "bytes", "int32", "sint32", "double", "enum", "message"}
    /\ XsName["string"] = "string" /\ XsName["bool"] = "boolean"
    /\ XsName["bytes"] = "hexBinary" /\ XsName["int32"] = "int" /\ XsName["sint32"] = "sint32"
    /\ XsName["double"] = "double" /\ XsName["enum"] = "enum" /\ XsName["message"] = "Inner"
BY DEF ProtobufType, XsName

LEMMA ProtobufWsdl ==
    ASSUME NEW f \in Fields(ProtobufType), NEW w, w = GenerateWsdl(ProtobufBinding(f))
    PROVE  /\ w.name = f.name
           /\ f.of \in {"message", "sint32"} => ~Typed(w) /\ w.values = {}
           /\ f.of = "enum" => /\ w.values = ToSet(EnumNames) /\ w.type = << >>
                               /\ ~w.many /\ w.least = 1
           /\ f.of \notin {"message", "sint32", "enum"} =>
                 /\ Typed(w) /\ w.values = {} /\ w.type = <<"xs:", XsName[f.of]>>
                 /\ w.least = 0 /\ w.many = f.many
<1>1. f.of \in ProtobufType /\ f.many \in BOOLEAN
  BY DEF Fields
<1> DEFINE b == ProtobufBinding(f)
           bits == FF_Optional \cup (IF f.many THEN FF_Repeated ELSE {})
                   \cup (IF f.of = "enum" THEN FF_Enum ELSE {})
                   \cup (IF f.of = "message" THEN FF_Class ELSE {})
           names == IF f.of = "enum" THEN ToSet(EnumNames) ELSE {}
           type == <<XsName[f.of]>>
<1>2. b.name = f.name /\ b.type = type /\ b.values = names /\ b.flags = bits
  <2>1. b = [name |-> f.name, type |-> type, flags |-> bits, values |-> names]
    BY Zenon DEF ProtobufBinding
  <2> HIDE DEF b, bits, names, type
  <2>2. QED
    BY <2>1
<1>3. w = GenerateWsdl(b)
  OBVIOUS
<1>4. /\ 0 \in bits <=> f.many \/ f.of = "message"
      /\ 1 \in bits <=> f.of \in {"enum", "message"}
  BY DEF FF_Optional, FF_Repeated, FF_Enum, FF_Class
<1> HIDE DEF b, bits
<1>5. /\ IsEnum(b) <=> f.of \in {"enum", "message"}
      /\ f.of \notin {"enum", "message"} => ~IsClass(b) /\ (IsRepeated(b) <=> f.many)
      /\ IsOptional(b)
  <2>1. /\ 0 \in b.flags <=> f.many \/ f.of = "message"
        /\ 1 \in b.flags <=> f.of \in {"enum", "message"}
    BY <1>2, <1>4, Zenon
  <2>2. QED
    BY <2>1 DEF IsEnum, IsClass, IsRepeated, IsOptional, FF_Enum, FF_Class, FF_Repeated,
                FF_Optional
<1>6. CASE f.of \in {"enum", "message"}
  <2> HIDE DEF names
  <2>1. w = [name |-> f.name, type |-> << >>, values |-> names, least |-> 1, many |-> FALSE]
    BY <1>2, <1>3, <1>5, <1>6, Zenon DEF GenerateWsdl
  <2>2. w.name = f.name /\ w.values = names /\ w.type = << >> /\ w.least = 1 /\ w.many = FALSE
    BY <2>1
  <2>3. f.of = "message" => ~Typed(w) /\ w.values = {}
    BY <2>2, EmptyIsNoType DEF Typed, names
  <2>4. f.of = "enum" => w.values = ToSet(EnumNames)
    BY <2>2 DEF names
  <2>5. QED
    BY <1>6, <2>2, <2>3, <2>4
<1>7. CASE f.of \notin {"enum", "message"}
  <2>1. IsConcat(<<"xs:", XsName[f.of]>>, <<"xs:">>, <<XsName[f.of]>>)
    <3>1. PICK S : "xs:" \in S /\ XsName[f.of] \in S
      <4>1. "xs:" \in {"xs:", XsName[f.of]} /\ XsName[f.of] \in {"xs:", XsName[f.of]}
        OBVIOUS
      <4>2. QED
        BY <4>1, Zenon
    <3>2. QED
      BY <3>1, ConcatOfTwo
  <2>2. b.values = {} /\ (IsRepeated(b) = f.many)
    BY <1>1, <1>2, <1>5, <1>7 DEF IsRepeated
  <2>3. w = [name |-> f.name, values |-> {}, type |-> <<"xs:", XsName[f.of]>>, least |-> 0,
             many |-> f.many]
    BY <1>2, <1>3, <1>5, <1>7, <2>1, <2>2, Zenon DEF GenerateWsdl, IsConcat
  <2>4. /\ w.name = f.name /\ w.values = {} /\ w.type = <<"xs:", XsName[f.of]>> /\ w.least = 0
        /\ w.many = f.many
    BY <2>3
  <2>5. Typed(w) <=> f.of # "sint32"
    <3>1. Typed(w) <=> <<"xs:", XsName[f.of]>> \in XsTypes
      BY <2>4 DEF Typed
    <3>2. XsName[f.of] \in {"int", "boolean", "string", "double", "hexBinary"} <=> f.of # "sint32"
      BY <1>1, <1>7, XsNames
    <3>3. QED
      BY <3>1, <3>2, XsTypesAre, Zenon
  <2>6. QED
    BY <1>7, <2>4, <2>5
<1>8. QED
  BY <1>6, <1>7

-----------------------------------------------------------------------------
(* Texts and words. *)

LEMMA MinOfNat ==
    ASSUME NEW S \in SUBSET Nat, S # {}
    PROVE  Min(S) \in S /\ \A y \in S : Min(S) <= y
<1>1. IsWellFoundedOn(OpToRel(<, Nat), Nat)
  BY NatLessThanWellFounded
<1>2. PICK x \in S : \A y \in S : ~ (<<y, x>> \in OpToRel(<, Nat))
  BY <1>1, WFMin
<1>3. \A y \in S : ~ (y < x)
  BY <1>2 DEF OpToRel
<1>4. \A y \in S : x <= y
  BY <1>3
<1>5. QED
  BY <1>4 DEF Min

LEMMA ParsedText ==
    ASSUME NEW text
    PROVE  /\ (\E i \in DOMAIN text : text[i] # Blank) => Parsed(text) = text
           /\ (\A i \in DOMAIN text : text[i] = Blank) => Parsed(text) = << >>
BY Zenon DEF Parsed

LEMMA OneWordText ==
    ASSUME NEW S, NEW text \in Seq(S)
    PROVE  OneWord(text) <=> text # << >> /\ \A i \in DOMAIN text : text[i] # Blank
BY DEF OneWord, ToSet

LEMMA WordIsRead ==
    ASSUME NEW S, NEW text \in Seq(S), OneWord(text)
    PROVE  text # << >> /\ Parsed(text) = text /\ FirstWord(text) = text
<1>1. PICK n \in Nat : n = Len(text) /\ n >= 1 /\ DOMAIN text = 1..n
  BY OneWordText
<1>2. \A i \in 1..n : text[i] # Blank
  BY <1>1, OneWordText
<1>3. 1 \in 1..n
  BY <1>1
<1>4. Parsed(text) = text
  BY <1>1, <1>2, <1>3, ParsedText, Zenon
<1> DEFINE start == Min({i \in DOMAIN text : text[i] # Blank})
           blanks == {i \in start..Len(text) : text[i] = Blank}
<1>5. start = 1
  <2>1. {i \in DOMAIN text : text[i] # Blank} = 1..n
    BY <1>1, <1>2
  <2>2. Min(1..n) \in 1..n /\ \A y \in 1..n : Min(1..n) <= y
    <3>1. PICK Q \in SUBSET Nat : Q = 1..n
      OBVIOUS
    <3>2. Q # {}
      BY <1>3, <3>1
    <3>3. QED
      BY <3>1, <3>2, MinOfNat
  <2>3. Min(1..n) = 1
    BY <1>3, <2>2
  <2>4. QED
    BY <2>1, <2>3, Zenon
<1> HIDE DEF start
<1>6. blanks = {}
  BY <1>1, <1>2, <1>5
<1>7. FirstWord(text) = SubSeq(text, 1, Len(text))
  BY <1>5, <1>6, Zenon DEF FirstWord, start, blanks
<1>8. SubSeq(text, 1, Len(text)) = text
  BY SubSeqFull
<1>9. QED
  BY <1>4, <1>7, <1>8, OneWordText, Zenon

LEMMA WordsAreCut ==
    ASSUME NEW S, NEW text \in Seq(S), ~OneWord(text), Parsed(text) # << >>
    PROVE  Parsed(text) = text /\ FirstWord(text) # text
<1>1. PICK n \in Nat : n = Len(text) /\ DOMAIN text = 1..n
  OBVIOUS
<1>2. PICK p \in 1..n : text[p] # Blank
  BY <1>1, ParsedText
<1>3. PICK q \in 1..n : text[q] = Blank
  <2>1. text # << >>
    BY <1>1, <1>2
  <2>2. QED
    BY <1>1, <2>1, OneWordText
<1>4. Parsed(text) = text
  BY <1>1, <1>2, ParsedText
<1> DEFINE start == Min({i \in DOMAIN text : text[i] # Blank})
           blanks == {i \in start..Len(text) : text[i] = Blank}
           end == IF blanks = {} THEN Len(text) ELSE Min(blanks) - 1
<1>5. start \in 1..n
  <2> DEFINE Q == {i \in DOMAIN text : text[i] # Blank}
  <2>1. Q \in SUBSET Nat /\ Q # {} /\ Q \subseteq 1..n
    BY <1>1, <1>2
  <2>2. Min(Q) \in Q
    BY <2>1, MinOfNat
  <2> HIDE DEF Q
  <2>3. Min(Q) \in 1..n
    BY <2>1, <2>2
  <2>4. QED
    BY <2>3 DEF Q
<1> HIDE DEF start
<1>6. end \in Int /\ end <= n /\ ~(start = 1 /\ end = n)
  <2>1. CASE blanks = {}
    <3>1. start # 1
      BY <1>1, <1>3, <2>1
    <3>2. QED
      BY <1>1, <2>1, <3>1
  <2>2. CASE blanks # {}
    <3>1. blanks \in SUBSET Nat
      BY <1>1, <1>5
    <3>2. Min(blanks) \in blanks
      BY <2>2, <3>1, MinOfNat
    <3>3. Min(blanks) \in start..n
      BY <1>1, <3>2
    <3>4. QED
      BY <1>1, <1>5, <2>2, <3>3
  <2>3. QED
    BY <2>1, <2>2
<1> HIDE DEF end
<1>7. FirstWord(text) = SubSeq(text, start, end)
  BY Zenon DEF FirstWord, start, blanks, end
<1>8. Len(SubSeq(text, start, end)) < n
  <2>1. \A i \in start..end : text[i] \in S
    BY <1>1, <1>5, <1>6
  <2>2. Len(SubSeq(text, start, end)) = IF start <= end THEN end - start + 1 ELSE 0
    BY <1>5, <1>6, <2>1, SubSeqProperties
  <2>3. QED
    BY <1>5, <1>6, <2>2
<1>9. FirstWord(text) # text
  <2>1. ~(n < n)
    BY <1>1
  <2>2. QED
    BY <1>1, <1>7, <1>8, <2>1, Zenon
<1>10. QED
  BY <1>4, <1>9

LEMMA Literals ==
    /\ \A a, b : (<<a>> = <<b>>) <=> (a = b)
    /\ \A a : <<a>> # << >> /\ DOMAIN <<a>> = {1} /\ <<a>>[1] = a /\ Len(<<a>>) = 1
    /\ DOMAIN << >> = {}
    /\ \A S : \A a \in S : <<a>> \in Seq(S)
<1>1. \A a, b : (<<a>> = <<b>>) <=> (a = b)
  OBVIOUS
<1>2. \A a : <<a>> # << >> /\ DOMAIN <<a>> = {1} /\ <<a>>[1] = a /\ Len(<<a>>) = 1
  OBVIOUS
<1>3. \A S : \A a \in S : <<a>> \in Seq(S)
  OBVIOUS
<1>4. DOMAIN << >> = {}
  OBVIOUS
<1>5. QED
  BY <1>1, <1>2, <1>3, <1>4

LEMMA OneTokenIsWord ==
    ASSUME NEW a, a # Blank
    PROVE  OneWord(<<a>>)
<1>1. ToSet(<<a>>) = {a}
  BY Literals DEF ToSet
<1>2. QED
  BY <1>1, Literals DEF OneWord

LEMMA ItemIsWord ==
    ASSUME NEW of, of \notin {"string", "bytes"}, NEW item, IsItem(of, item)
    PROVE  item \in Seq(STRING) /\ OneWord(item)
<1>1. item \in Seq(STRING)
  BY DEF IsItem
<1>2. CASE of \in {"boolean", "bool"}
  <2>1. item \in {<<"0">>, <<"1">>}
    BY <1>2 DEF IsItem
  <2>2. "0" # Blank /\ "1" # Blank
    BY DEF Blank
  <2>3. OneWord(<<"0">>) /\ OneWord(<<"1">>)
    BY <2>2, OneTokenIsWord
  <2>4. QED
    BY <1>1, <2>1, <2>3, Zenon
<1>3. CASE of \notin {"boolean", "bool"}
  <2>1. item # << >> /\ Blank \notin ToSet(item)
    <3>1. CASE of = "double"
      <4>1. Len(item) \in 1..2 /\ Blank \notin ToSet(item)
        BY <3>1 DEF IsItem
      <4>2. item # << >>
        BY <1>1, <4>1
      <4>3. QED
        BY <4>1, <4>2
    <3>2. CASE of # "double"
      BY <1>3, <3>2, Zenon DEF IsItem
    <3>3. QED
      BY <3>1, <3>2
  <2>2. QED
    BY <1>1, <2>1 DEF OneWord
<1>4. QED
  BY <1>2, <1>3

LEMMA DoubleText ==
    ASSUME NEW item, IsItem("double", item)
    PROVE  /\ ValueToString("double", item) \in Seq(STRING)
           /\ OneWord(ValueToString("double", item))
           /\ ValueToString("double", item) = item <=> Len(item) = 1
<1>1. item \in Seq(STRING) /\ Len(item) \in 1..2 /\ Blank \notin ToSet(item)
  BY DEF IsItem
<1>2. PICK a \in STRING : a = item[1]
  <2>1. 1 \in 1..Len(item)
    BY <1>1
  <2>2. item[1] \in STRING
    BY <1>1, <2>1, ElementOfSeq, Zenon
  <2>3. QED
    BY <2>2, Zenon
<1>3. ValueToString("double", item) = <<a>>
  <2>1. Head(item) = a
    BY <1>1, <1>2
  <2>2. QED
    BY <2>1, Zenon DEF ValueToString
<1>4. a # Blank
  <2>1. 1 \in DOMAIN item
    BY <1>1
  <2>2. QED
    BY <1>1, <1>2, <2>1 DEF ToSet
<1>5. <<a>> = item <=> Len(item) = 1
  <2>1. PICK t \in Seq(STRING) : t = <<a>>
    BY Literals, Zenon
  <2>2. Len(t) = 1 /\ t[1] = a
    BY <2>1, Literals, Zenon
  <2>3. Len(item) = 1 => \A i \in 1..Len(item) : t[i] = item[i]
    BY <1>2, <2>2
  <2>4. Len(item) = 1 => t = item
    BY <1>1, <2>2, <2>3, SeqEqual
  <2>5. QED
    BY <2>1, <2>2, <2>4, Zenon
<1>6. QED
  BY <1>3, <1>4, <1>5, Literals, OneTokenIsWord, Zenon

LEMMA OtherText ==
    ASSUME NEW type, type # "double", NEW item
    PROVE  ValueToString(type, item) = item
BY DEF ValueToString

LEMMA BooleanText ==
    ASSUME NEW item \in {<<"0">>, <<"1">>}
    PROVE  /\ ValueFromString("boolean", item) = item
           /\ ValueFromString("boolean", IF item = <<"1">> THEN <<"true">> ELSE <<"false">>) = item
<1>1. /\ <<"0">> # <<"1">> /\ <<"0">> # <<"true">> /\ <<"false">> # <<"true">>
      /\ <<"false">> # <<"1">>
  BY Literals
<1>2. QED
  BY <1>1, Zenon DEF ValueFromString

LEMMA WordText ==
    ASSUME NEW type, type # "boolean", NEW text
    PROVE  ValueFromString(type, text) = FirstWord(text)
BY DEF ValueFromString

(* What is made of the text of an item that is one word. *)
LEMMA WordIsReadBack ==
    ASSUME NEW type, NEW item \in Seq(STRING), OneWord(item),
           type = "boolean" => item \in {<<"0">>, <<"1">>}
    PROVE  Parsed(item) = item /\ item # << >> /\ ValueFromString(type, item) = item
<1>1. Parsed(item) = item /\ item # << >> /\ FirstWord(item) = item
  BY WordIsRead
<1>2. QED
  BY <1>1, BooleanText, WordText, Zenon

LEMMA BlankOrText ==
    ASSUME NEW text \in Seq(STRING)
    PROVE  Parsed(text) = << >> \/ (text # << >> /\ Parsed(text) = text)
<1>1. text = << >> => Parsed(text) = << >>
  BY Literals, ParsedText, Zenon
<1>2. QED
  BY <1>1, Zenon DEF Parsed

(* Elements. *)
LEMMA LeafType ==
    ASSUME NEW name \in STRING, NEW text \in Seq(STRING)
    PROVE  /\ Leaf(name, text) \in Elements /\ Leaf(name, text) \in Leaves
           /\ Leaf(name, text).name = name /\ Leaf(name, text).text = text
           /\ Leaf(name, text).kids = << >>
BY DEF Leaf, Element, Elements, Leaves

LEMMA LeafParsed ==
    ASSUME NEW name, NEW text
    PROVE  ParsedElement(Leaf(name, text)) = Leaf(name, Parsed(text))
<1>1. /\ Leaf(name, text).name = name /\ Leaf(name, text).text = text
      /\ Leaf(name, text).kids = << >>
  BY DEF Leaf, Element
<1>2. [k \in DOMAIN << >> |-> ParsedLeaf(<< >>[k])] = << >>
  OBVIOUS
<1>3. QED
  BY <1>1, <1>2, Zenon DEF ParsedElement, Leaf

-----------------------------------------------------------------------------
(* Lists of values, and their messages. *)

NewList(f) == IF class.native /\ ~f.many THEN <<DefaultOf(f)>> ELSE << >>

LEMMA Outcomes ==
    /\ \A val : Up(val).up /\ Up(val).val = val
    /\ ~Down.up
BY DEF Up, Down

LEMMA OneOfList ==
    ASSUME NEW S, NEW list \in Seq(S), Len(list) = 1
    PROVE  list = <<list[1]>> /\ list[1] \in S /\ DOMAIN list = {1}
<1>1. list[1] \in S /\ DOMAIN list = {1}
  OBVIOUS
<1>2. PICK t \in Seq(S) : t = <<list[1]>>
  BY <1>1, Literals, Zenon
<1>3. Len(t) = 1 /\ t[1] = list[1]
  BY <1>2, Literals, Zenon
<1>4. Len(t) = Len(list) /\ \A i \in 1..Len(list) : t[i] = list[i]
  BY <1>3
<1>5. t = list
  BY <1>4, SeqEqual
<1>6. QED
  BY <1>1, <1>2, <1>5, Zenon

LEMMA ListOfItems ==
    ASSUME NEW f, f.of \in NativeType \cup ProtobufType, NEW sizes \in SUBSET Nat,
           NEW list \in Lists(f, sizes)
    PROVE  /\ list \in Seq(Seq(STRING)) /\ Len(list) \in sizes
           /\ \A i \in DOMAIN list : IsItem(f.of, list[i]) /\ list[i] \in Seq(STRING)
<1>1. PICK n \in sizes : list \in [1..n -> Items[f.of]]
  BY DEF Lists
<1>2. n \in Nat /\ list \in [1..n -> Items[f.of]]
  BY <1>1
<1>3. \A item \in Items[f.of] : IsItem(f.of, item) /\ item \in Seq(STRING)
  BY ItemsAssumption DEF IsItem
<1>4. \A i \in 1..n : IsItem(f.of, list[i]) /\ list[i] \in Seq(STRING)
  BY <1>2, <1>3, Zenon
<1>5. DOMAIN list = 1..n /\ list = [i \in 1..n |-> list[i]]
  BY <1>2
<1>6. list \in Seq(Seq(STRING)) /\ Len(list) = n
  BY <1>2, <1>4, <1>5
<1>7. QED
  BY <1>1, <1>4, <1>5, <1>6, Zenon

LEMMA HeldList ==
    ASSUME NEW f, f.of \in NativeType \cup ProtobufType, f.many \in BOOLEAN,
           NEW list \in Held(f)
    PROVE  /\ list \in Seq(Seq(STRING)) /\ Len(list) \in Nat
           /\ ~f.many => Len(list) \in 0..1 /\ (class.native => Len(list) = 1)
           /\ \A i \in DOMAIN list : IsItem(f.of, list[i]) /\ list[i] \in Seq(STRING)
<1> DEFINE sizes == IF f.many THEN 0..MaxList ELSE IF class.native THEN {1} ELSE 0..1
<1>1. sizes \in SUBSET Nat /\ (~f.many => sizes \subseteq 0..1 /\ (class.native => sizes = {1}))
  BY MaxListAssumption
<1>2. list \in Lists(f, sizes)
  BY DEF Held
<1> HIDE DEF sizes
<1>3. /\ list \in Seq(Seq(STRING)) /\ Len(list) \in sizes
      /\ \A i \in DOMAIN list : IsItem(f.of, list[i]) /\ list[i] \in Seq(STRING)
  BY <1>1, <1>2, ListOfItems, Zenon
<1>4. ~f.many => Len(list) \in 0..1 /\ (class.native => Len(list) = 1)
  BY <1>1, <1>3
<1>5. QED
  BY <1>3, <1>4

LEMMA SentList ==
    ASSUME NEW f, f.of \in NativeType \cup ProtobufType, NEW list \in Sent(f)
    PROVE  /\ list \in Seq(Seq(STRING)) /\ Allowed(GenerateWsdl(Binding(f)), list)
           /\ \A i \in DOMAIN list : IsItem(f.of, list[i]) /\ list[i] \in Seq(STRING)
<1>1. PICK sizes \in SUBSET Nat : sizes = 0..MaxList
  BY MaxListAssumption
<1>2. list \in Lists(f, sizes) /\ Allowed(GenerateWsdl(Binding(f)), list)
  BY <1>1 DEF Sent
<1>3. QED
  BY <1>2, ListOfItems, Zenon

LEMMA ParseOne ==
    ASSUME NEW e
    PROVE  Parse(<<e>>) = <<ParsedElement(e)>> /\ Parse(<< >>) = << >>
<1>1. [i \in DOMAIN <<e>> |-> ParsedElement(<<e>>[i])] = <<ParsedElement(e)>>
  OBVIOUS
<1>2. [i \in DOMAIN << >> |-> ParsedElement(<< >>[i])] = << >>
  OBVIOUS
<1>3. QED
  BY <1>1, <1>2, Zenon DEF Parse

LEMMA EncodeOne ==
    ASSUME NEW w, NEW item
    PROVE  Encode(w, <<item>>) = <<Leaf(w.name, ToText(w, item))>> /\ Encode(w, << >>) = << >>
<1>1. [i \in DOMAIN <<item>> |-> Leaf(w.name, ToText(w, <<item>>[i]))]
         = <<Leaf(w.name, ToText(w, item))>>
  OBVIOUS
<1>2. [i \in DOMAIN << >> |-> Leaf(w.name, ToText(w, << >>[i]))] = << >>
  OBVIOUS
<1>3. QED
  BY <1>1, <1>2, Zenon DEF Encode

LEMMA EncodeType ==
    ASSUME NEW w, NEW list \in Seq(Seq(STRING)), w.name \in STRING,
           \A i \in DOMAIN list : ToText(w, list[i]) \in Seq(STRING)
    PROVE  /\ Encode(w, list) \in Seq(Elements) /\ Len(Encode(w, list)) = Len(list)
           /\ \A i \in 1..Len(list) : /\ Encode(w, list)[i] = Leaf(w.name, ToText(w, list[i]))
                                      /\ Encode(w, list)[i].name = w.name
<1>1. PICK n \in Nat : n = Len(list) /\ DOMAIN list = 1..n
  OBVIOUS
<1> DEFINE e(i) == Leaf(w.name, ToText(w, list[i]))
<1>2. \A i \in 1..n : e(i) \in Elements /\ e(i).name = w.name
  BY <1>1, LeafType
<1>3. Encode(w, list) = [i \in 1..n |-> e(i)]
  BY <1>1 DEF Encode
<1> HIDE DEF e
<1>4. /\ Encode(w, list) \in Seq(Elements) /\ Len(Encode(w, list)) = n
      /\ \A i \in 1..n : Encode(w, list)[i] = e(i)
  BY <1>2, <1>3
<1>5. QED
  BY <1>1, <1>2, <1>4 DEF e

-----------------------------------------------------------------------------
(* One native field. *)

LEMMA NativeScalarRead ==
    ASSUME NEW f \in Fields(NativeType), ~f.many, f.of \in Converted, NEW old, NEW name, NEW text
    PROVE  NativeToObj(f, old, Leaf(name, text))
              = IF text = << >> THEN Down ELSE Up(<<ValueFromString(f.of, text)>>)
<1>1. HasScalar(f) /\ ~HasVector(f) /\ ~HasNested(f)
  BY NativeConverters, Zenon
<1>2. Leaf(name, text).text = text
  BY DEF Leaf, Element
<1>3. NativeToObj(f, old, Leaf(name, text)) = SetValueToObjFromMem(f, Leaf(name, text))
  BY <1>1, Zenon DEF NativeToObj
<1>4. QED
  BY <1>2, <1>3, Zenon DEF SetValueToObjFromMem

LEMMA NativeVectorRead ==
    ASSUME NEW f \in Fields(NativeType), f.many, f.of \in Converted, NEW el,
           \A k \in DOMAIN el.kids : el.kids[k].name = "item"
    PROVE  NativeToObj(f, << >>, el)
              = Up(<< >> \o [k \in DOMAIN el.kids |->
                                IF el.kids[k].text = << >> THEN Default(f.of)
                                ELSE ValueFromString(f.of, el.kids[k].text)])
<1>1. HasVector(f) /\ ~HasScalar(f) /\ ~HasNested(f)
  BY NativeConverters, Zenon
<1>2. NativeToObj(f, << >>, el) = SetVectorToObjFromMem(f, << >>, el)
  BY <1>1, Zenon DEF NativeToObj
<1>3. QED
  BY <1>2, Zenon DEF SetVectorToObjFromMem

LEMMA NativeNotConverted ==
    ASSUME NEW f \in Fields(NativeType), f.of \in {"class", "char"}, NEW list, NEW el
    PROVE  NativeToObj(f, list, el) = Down /\ NativeToXml(f, list) = Down
<1>1. ~HasScalar(f) /\ ~HasVector(f) /\ ~HasNested(f)
  <2>1. f.of \notin Converted
    BY DEF Converted
  <2>2. QED
    BY <2>1, NativeConverters, Zenon
<1>2. QED
  BY <1>1, Zenon DEF NativeToObj, NativeToXml

LEMMA NativeTypes ==
    ASSUME NEW f \in Fields(NativeType)
    PROVE  /\ f.of \in {"class", "char"} \/ f.of \in Converted
           /\ f.of \in Converted <=> f.of \notin {"class", "char"}
           /\ f.of \in NativeType /\ f.name \in STRING /\ f.many \in BOOLEAN
           /\ f.of # "message" /\ f.of # "bytes"
<1>1. f.of \in NativeType /\ f.name \in STRING /\ f.many \in BOOLEAN
  BY DEF Fields
<1>2. QED
  BY <1>1 DEF NativeType, Converted

(* The text a client sends for a native field, and what is read from it. *)
LEMMA NativeTextRead ==
    ASSUME class.native, NEW f \in Fields(NativeType), f.of \in Converted,
           NEW w, w = GenerateWsdl(NativeBinding(f)), NEW item, IsItem(f.of, item),
           NEW text, text = Parsed(ToText(w, item))
    PROVE  /\ ToText(w, item) \in Seq(STRING)
           /\ f.of = "string" /\ ~OneWord(item) =>
                 text = << >> \/ (text # << >> /\ ValueFromString(f.of, text) # item)
           /\ f.of # "string" \/ OneWord(item) =>
                 text # << >> /\ ValueFromString(f.of, text) = item
<1>1. w.type = <<"xs:", f.of>> /\ w.values = {}
  BY NativeTypes, NativeWsdl, Zenon
<1>2. item \in Seq(STRING)
  BY DEF IsItem
<1>3. \A t : w.type = <<"xs:", t>> <=> f.of = t
  BY <1>1
<1>4. CASE f.of = "boolean"
  <2>1. w.type = <<"xs:", "boolean">>
    BY <1>3, <1>4
  <2>2. ToText(w, item) = IF item = <<"1">> THEN <<"true">> ELSE <<"false">>
    BY <2>1 DEF ToText
  <2>3. item \in {<<"0">>, <<"1">>}
    BY <1>4 DEF IsItem
  <2>4. "true" \in STRING /\ "false" \in STRING /\ "true" # Blank /\ "false" # Blank
    BY StringAssumption DEF Blank
  <2>5. ToText(w, item) \in Seq(STRING) /\ OneWord(ToText(w, item))
    <3>1. /\ <<"true">> \in Seq(STRING) /\ OneWord(<<"true">>)
          /\ <<"false">> \in Seq(STRING) /\ OneWord(<<"false">>)
      BY <2>4, OneTokenIsWord, Literals, Zenon
    <3>2. QED
      BY <2>2, <3>1, Zenon
  <2>6. text = ToText(w, item) /\ text # << >>
    BY <2>5, WordIsRead, Zenon
  <2>7. ValueFromString("boolean", text) = item
    BY <2>2, <2>3, <2>6, BooleanText, Zenon
  <2>8. QED
    BY <1>4, <2>5, <2>6, <2>7
<1>5. CASE f.of # "boolean"
  <2>1. f.of # "hexBinary"
    BY DEF Converted
  <2>2. w.type # <<"xs:", "boolean">> /\ w.type # <<"xs:", "hexBinary">>
    BY <1>3, <1>5, <2>1
  <2>3. ToText(w, item) = item
    BY <2>2, Zenon DEF ToText
  <2>4. OneWord(item) => text # << >> /\ ValueFromString(f.of, text) = item
    BY <1>2, <1>5, <2>3, WordIsReadBack, Zenon
  <2>5. f.of # "string" => OneWord(item)
    BY NativeTypes, ItemIsWord, Zenon
  <2>6. ~OneWord(item) => text = << >> \/ (text # << >> /\ ValueFromString(f.of, text) # item)
    BY <1>2, <1>5, <2>3, WordsAreCut, WordText
  <2>7. QED
    BY <1>2, <2>3, <2>4, <2>5, <2>6, Zenon
<1>6. QED
  BY <1>4, <1>5

LEMMA NativeRead ==
    ASSUME class.native, NEW f \in Fields(NativeType), NEW list \in Sent(f),
           NEW w, w = GenerateWsdl(NativeBinding(f)),
           NEW r, r = Taken(f, NewList(f), Parse(Encode(w, list)))
    PROVE  /\ Encode(w, list) \in Seq(Elements)
           /\ \A i \in 1..Len(Encode(w, list)) : Encode(w, list)[i].name = f.name
           /\ (r.up /\ Meaning(f, r.val) = Meaning(f, list)) <=> Understood(f, list)
<1>1. Binding(f) = NativeBinding(f) /\ DefaultOf(f) = Default(f.of)
  BY DEF Binding, DefaultOf
<1>2. /\ list \in Seq(Seq(STRING)) /\ Allowed(w, list)
      /\ \A i \in DOMAIN list : IsItem(f.of, list[i]) /\ list[i] \in Seq(STRING)
  BY <1>1, NativeTypes, SentList, Zenon
<1>3. f.of \notin {"class", "char"} /\ f.of \in Converted
  <2>1. Typed(w)
    BY <1>2 DEF Allowed
  <2>2. QED
    BY <2>1, NativeWsdl, NativeTypes, Zenon
<1>4. w.name = f.name /\ w.many = f.many
  BY <1>3, NativeWsdl, Zenon
<1>5. \A i \in DOMAIN list : ToText(w, list[i]) \in Seq(STRING)
  BY <1>2, <1>3, NativeTextRead, Zenon
<1>6. /\ Encode(w, list) \in Seq(Elements) /\ Len(Encode(w, list)) = Len(list)
      /\ \A i \in 1..Len(list) : /\ Encode(w, list)[i] = Leaf(w.name, ToText(w, list[i]))
                                 /\ Encode(w, list)[i].name = w.name
  BY <1>2, <1>4, <1>5, NativeTypes, EncodeType, Zenon
<1>7. CASE list = << >>
  <2>1. r = Up(NewList(f))
    BY <1>7, EncodeOne, ParseOne, Zenon DEF Taken
  <2>2. Meaning(f, NewList(f)) = Meaning(f, << >>)
    <3>1. ~f.many => Meaning(f, << >>) = <<DefaultOf(f)>>
      BY NativeTypes, Zenon DEF Meaning
    <3>2. ~f.many => Meaning(f, <<DefaultOf(f)>>) = <<DefaultOf(f)>>
      BY Literals, Zenon DEF Meaning
    <3>3. QED
      BY <3>1, <3>2, Zenon DEF NewList
  <2>3. Understood(f, list)
    BY <1>3, <1>7, Literals, Zenon DEF Understood
  <2>4. QED
    BY <1>4, <1>6, <1>7, <2>1, <2>2, <2>3, Outcomes, Zenon
<1>8. CASE list # << >> /\ f.many
  <2>1. /\ Parse(Encode(w, list)) # << >>
        /\ Parse(Encode(w, list))[1] = Leaf(w.name, Parsed(ToText(w, list[1])))
    <3>1. 1 \in 1..Len(list) /\ Len(list) # 0
      BY <1>2, <1>8
    <3>2. /\ Parse(Encode(w, list)) \in Seq(Elements) /\ Len(Parse(Encode(w, list))) = Len(list)
          /\ Parse(Encode(w, list))[1] = ParsedElement(Encode(w, list)[1])
      BY <1>6, <3>1, ParseType, Zenon
    <3>3. Parse(Encode(w, list)) # << >>
      BY <3>1, <3>2, EmptySeq, Zenon
    <3>4. QED
      BY <1>6, <3>1, <3>2, <3>3, LeafParsed
  <2>2. PICK el : el = Leaf(w.name, Parsed(ToText(w, list[1])))
    BY Zenon
  <2>3. el.kids = << >>
    BY <2>2 DEF Leaf, Element
  <2>4. \A k \in DOMAIN el.kids : el.kids[k].name = "item"
    BY <2>3, Literals, Zenon
  <2>5. r = NativeToObj(f, << >>, el)
    BY <1>8, <2>1, <2>2, Zenon DEF Taken, ToObj, NewList
  <2>6. r = Up(<< >> \o [k \in DOMAIN el.kids |->
                            IF el.kids[k].text = << >> THEN Default(f.of)
                            ELSE ValueFromString(f.of, el.kids[k].text)])
    BY <1>3, <1>8, <2>4, <2>5, NativeVectorRead, Zenon
  <2>7. [k \in DOMAIN << >> |->
            IF << >>[k].text = << >> THEN Default(f.of)
            ELSE ValueFromString(f.of, << >>[k].text)] = << >>
    OBVIOUS
  <2>8. << >> \o << >> = << >>
    BY ConcatEmptySeq
  <2>9. r = Up(<< >>)
    BY <2>3, <2>6, <2>7, <2>8, Zenon
  <2>10. Meaning(f, << >>) # Meaning(f, list)
    BY <1>8, Zenon DEF Meaning
  <2>11. ~Understood(f, list)
    BY <1>8, Zenon DEF Understood
  <2>12. QED
    BY <1>4, <1>6, <2>9, <2>10, <2>11, Outcomes, Zenon
<1>9. CASE list # << >> /\ ~f.many
  <2>1. Len(list) = 1
    <3>1. Len(list) <= 1
      BY <1>2, <1>4, <1>9, Zenon DEF Allowed
    <3>2. Len(list) \in Nat /\ Len(list) # 0
      BY <1>2, <1>9
    <3>3. \A n \in Nat : n <= 1 /\ n # 0 => n = 1
      OBVIOUS
    <3>4. QED
      BY <3>1, <3>2, <3>3, Zenon
  <2>2. PICK item : list = <<item>> /\ IsItem(f.of, item)
    BY <1>2, <2>1, OneOfList, Literals, Zenon
  <2>3. PICK text : text = Parsed(ToText(w, item))
    BY Zenon
  <2>4. Parse(Encode(w, list)) = <<Leaf(w.name, text)>>
    BY <2>2, <2>3, EncodeOne, ParseOne, LeafParsed
  <2>5. r = NativeToObj(f, NewList(f), Leaf(w.name, text))
    BY <2>4, Literals, Zenon DEF Taken, ToObj
  <2>6. r = IF text = << >> THEN Down ELSE Up(<<ValueFromString(f.of, text)>>)
    BY <1>3, <1>9, <2>5, NativeScalarRead, Zenon
  <2>7. Meaning(f, <<ValueFromString(f.of, text)>>) = Meaning(f, list)
            <=> ValueFromString(f.of, text) = item
    BY <2>2, Literals, Zenon DEF Meaning
  <2>8. Understood(f, list) <=> f.of # "string" \/ OneWord(item)
    <3>1. (\A k \in DOMAIN list : OneWord(list[k])) <=> OneWord(item)
      BY <2>2, Literals
    <3>2. QED
      BY <1>3, <1>9, <3>1, Zenon DEF Understood
  <2>9. /\ f.of = "string" /\ ~OneWord(item) =>
              text = << >> \/ (text # << >> /\ ValueFromString(f.of, text) # item)
        /\ f.of # "string" \/ OneWord(item) =>
              text # << >> /\ ValueFromString(f.of, text) = item
    BY <1>3, <2>2, <2>3, NativeTextRead
  <2>10. r.up /\ Meaning(f, r.val) = Meaning(f, list) <=> f.of # "string" \/ OneWord(item)
    BY <2>6, <2>7, <2>9, Outcomes, Zenon
  <2>11. QED
    BY <1>4, <1>6, <2>8, <2>10, Zenon
<1>10. QED
  BY <1>7, <1>8, <1>9
(* What a native helper reads of the text it wrote for an item. *)
LEMMA NativeItemBack ==
    ASSUME NEW of \in Converted, NEW item, IsItem(of, item),
           NEW text, text = Parsed(ValueToString(of, item))
    PROVE  /\ ValueToString(of, item) \in Seq(STRING)
           /\ (text # << >> /\ ValueFromString(of, text) = item)
                 <=> /\ of = "double" => Len(item) = 1
                     /\ of = "string" => OneWord(item)
           /\ (IF text = << >> THEN Default(of) ELSE ValueFromString(of, text)) = item
                 <=> /\ of = "double" => Len(item) = 1
                     /\ of = "string" => OneWord(item) \/ item = << >>
<1>1. item \in Seq(STRING)
  BY DEF IsItem
<1>2. CASE of = "double"
  <2>1. of # "boolean" /\ of # "string"
    BY <1>2
  <2>2. PICK t \in Seq(STRING) : t = ValueToString(of, item) /\ OneWord(t)
                                 /\ (t = item <=> Len(item) = 1)
    BY <1>2, DoubleText, Zenon
  <2>3. text = t /\ t # << >> /\ ValueFromString(of, t) = t
    BY <2>1, <2>2, WordIsRead, WordText, Zenon
  <2>4. QED
    BY <1>2, <2>1, <2>2, <2>3, Zenon
<1>3. CASE of = "string"
  <2>1. of # "boolean" /\ of # "double"
    BY <1>3
  <2>2. ValueToString(of, item) = item /\ text = Parsed(item)
    BY <2>1, OtherText, Zenon
  <2>3. Default(of) = << >>
    BY <1>3, Zenon DEF Default
  <2>4. CASE OneWord(item)
    <3>1. text = item /\ item # << >> /\ ValueFromString(of, item) = item
      BY <1>1, <2>1, <2>2, <2>4, WordIsReadBack, Zenon
    <3>2. QED
      BY <1>1, <2>1, <2>2, <2>4, <3>1, Zenon
  <2>5. CASE ~OneWord(item) /\ text = << >>
    BY <1>1, <1>3, <2>1, <2>2, <2>3, <2>5, Zenon
  <2>6. CASE ~OneWord(item) /\ text # << >>
    <3>1. text = item /\ ValueFromString(of, item) # item
      BY <1>1, <2>1, <2>2, <2>6, WordsAreCut, WordText, Zenon
    <3>2. QED
      BY <1>1, <1>3, <2>1, <2>2, <2>6, <3>1, Zenon
  <2>7. QED
    BY <2>4, <2>5, <2>6, Zenon
<1>4. CASE of # "double" /\ of # "string"
  <2>1. of \notin {"string", "bytes"}
    BY <1>4 DEF Converted
  <2>2. OneWord(item)
    BY <2>1, ItemIsWord, Zenon
  <2>3. of = "boolean" => item \in {<<"0">>, <<"1">>}
    BY DEF IsItem
  <2>4. Parsed(item) = item /\ item # << >> /\ ValueFromString(of, item) = item
    BY <1>1, <2>2, <2>3, WordIsReadBack, Zenon
  <2>5. ValueToString(of, item) = item
    BY <1>4, OtherText, Zenon
  <2>6. QED
    BY <1>1, <1>4, <2>4, <2>5, Zenon
<1>5. QED
  BY <1>2, <1>3, <1>4, Zenon

LEMMA DecodeOne ==
    ASSUME NEW w, NEW els, NEW e, Named(els, w.name) = <<e>>
    PROVE  Decode(w, els) = IF Allowed(w, <<e>>) /\ Valid(w, e) THEN <<FromText(w, e.text)>>
                            ELSE Unreadable
<1>1. (\A i \in DOMAIN <<e>> : Valid(w, <<e>>[i])) <=> Valid(w, e)
  BY Literals
<1>2. [i \in DOMAIN <<e>> |-> FromText(w, <<e>>[i].text)] = <<FromText(w, e.text)>>
  OBVIOUS
<1>3. QED
  BY <1>1, <1>2, Zenon DEF Decode

(* No field's list is Unreadable. *)
LEMMA NeverUnreadable ==
    ASSUME NEW of, NEW list, \A i \in DOMAIN list : IsItem(of, list[i])
    PROVE  list # Unreadable
<1>1. 1 \in DOMAIN Unreadable /\ Unreadable[1] = <<"unreadable">>
  BY Literals DEF Unreadable
<1>2. ~IsItem(of, <<"unreadable">>)
  BY Zenon DEF IsItem
<1>3. QED
  BY <1>1, <1>2, Zenon

LEMMA NativeScalarWritten ==
    ASSUME NEW f \in Fields(NativeType), ~f.many, f.of \in Converted, NEW list
    PROVE  NativeToXml(f, list) = Up(<<Leaf(f.name, ValueToString(f.of, list[1]))>>)
<1>1. HasScalar(f) /\ ~HasVector(f) /\ ~HasNested(f)
  BY NativeConverters, Zenon
<1>2. QED
  BY <1>1, Zenon DEF NativeToXml, SetValueToXmlFromMem

(* The elements of a vector. *)
ItemKids(f, list) == [i \in DOMAIN list |-> Leaf("item", ValueToString(f.of, list[i]))]

LEMMA NativeVectorWritten ==
    ASSUME NEW f \in Fields(NativeType), f.many, f.of \in Converted, NEW list
    PROVE  NativeToXml(f, list) = Up(<<Element(f.name, << >>, ItemKids(f, list))>>)
<1>1. HasVector(f) /\ ~HasScalar(f) /\ ~HasNested(f)
  BY NativeConverters, Zenon
<1>2. QED
  BY <1>1, Zenon DEF NativeToXml, SetVectorToXmlFromMem, ItemKids

LEMMA ItemKidsType ==
    ASSUME NEW f, NEW list \in Seq(Seq(STRING)),
           \A i \in DOMAIN list : ValueToString(f.of, list[i]) \in Seq(STRING)
    PROVE  /\ ItemKids(f, list) \in Seq(Leaves) /\ DOMAIN ItemKids(f, list) = DOMAIN list
           /\ Len(ItemKids(f, list)) = Len(list)
           /\ \A i \in DOMAIN list :
                 /\ ItemKids(f, list)[i].name = "item"
                 /\ ItemKids(f, list)[i].text = ValueToString(f.of, list[i])
<1>1. PICK n \in Nat : n = Len(list) /\ DOMAIN list = 1..n
  OBVIOUS
<1> DEFINE e(i) == Leaf("item", ValueToString(f.of, list[i]))
<1>2. \A i \in 1..n : e(i) \in Leaves /\ e(i).name = "item"
                      /\ e(i).text = ValueToString(f.of, list[i])
  <2>1. "item" \in STRING
    BY StringAssumption
  <2>2. QED
    BY <1>1, <2>1, LeafType
<1>3. ItemKids(f, list) = [i \in 1..n |-> e(i)]
  BY <1>1, Zenon DEF ItemKids
<1> HIDE DEF e
<1>4. /\ ItemKids(f, list) \in Seq(Leaves) /\ DOMAIN ItemKids(f, list) = 1..n
      /\ Len(ItemKids(f, list)) = n
      /\ \A i \in 1..n : ItemKids(f, list)[i] = e(i)
  BY <1>2, <1>3
<1>5. QED
  BY <1>1, <1>2, <1>4, Zenon

LEMMA NativeHeld ==
    ASSUME class.native, NEW f \in Fields(NativeType), NEW list \in Held(f)
    PROVE  /\ list \in Seq(Seq(STRING))
           /\ \A i \in DOMAIN list : IsItem(f.of, list[i])
           /\ ~f.many => \E item : list = <<item>> /\ IsItem(f.of, item)
<1>1. /\ list \in Seq(Seq(STRING)) /\ Len(list) \in Nat
      /\ ~f.many => Len(list) = 1
      /\ \A i \in DOMAIN list : IsItem(f.of, list[i]) /\ list[i] \in Seq(STRING)
  BY NativeTypes, HeldList, Zenon
<1>2. ASSUME ~f.many PROVE \E item : list = <<item>> /\ IsItem(f.of, item)
  <2>1. Len(list) = 1
    BY <1>1, <1>2, Zenon
  <2>2. list = <<list[1]>> /\ 1 \in DOMAIN list
    BY <1>1, <2>1, OneOfList
  <2>3. QED
    BY <1>1, <2>2, Zenon
<1>3. QED
  BY <1>1, <1>2, Zenon

(* What a native field is written as. *)
LEMMA NativeMessage ==
    ASSUME class.native, NEW f \in Fields(NativeType), NEW list \in Held(f),
           NEW m, m = NativeToXml(f, list)
    PROVE  /\ m.up <=> f.of \in Converted
           /\ m.val \in Seq(Elements)
           /\ \A i \in DOMAIN m.val : m.val[i].name = f.name
<1>1. f.name \in STRING /\ f.many \in BOOLEAN
  BY NativeTypes
<1>2. CASE f.of \notin Converted
  <2>1. m = Down
    BY <1>2, NativeTypes, NativeNotConverted, Zenon
  <2>2. ~Down.up /\ Down.val = << >>
    BY DEF Down
  <2>3. << >> \in Seq(Elements)
    OBVIOUS
  <2>4. QED
    BY <1>2, <2>1, <2>2, <2>3, Literals, Zenon
<1>3. CASE f.of \in Converted
  <2>1. /\ list \in Seq(Seq(STRING))
        /\ \A i \in DOMAIN list : ValueToString(f.of, list[i]) \in Seq(STRING)
    BY <1>3, NativeHeld, NativeItemBack, Zenon
  <2>2. PICK e \in Elements : m = Up(<<e>>) /\ e.name = f.name
    <3>1. CASE ~f.many
      <4>1. 1 \in DOMAIN list
        BY <3>1, NativeHeld, Literals
      <4>2. Leaf(f.name, ValueToString(f.of, list[1])) \in Elements
            /\ Leaf(f.name, ValueToString(f.of, list[1])).name = f.name
        BY <1>1, <2>1, <4>1, LeafType, Zenon
      <4>3. QED
        BY <1>3, <3>1, <4>2, NativeScalarWritten, Zenon
    <3>2. CASE f.many
      <4>1. ItemKids(f, list) \in Seq(Leaves) /\ << >> \in Seq(STRING)
        BY <2>1, ItemKidsType
      <4>2. Element(f.name, << >>, ItemKids(f, list)) \in Elements
            /\ Element(f.name, << >>, ItemKids(f, list)).name = f.name
        BY <1>1, <4>1 DEF Element, Elements
      <4>3. QED
        BY <1>3, <3>2, <4>2, NativeVectorWritten, Zenon
    <3>3. QED
      BY <1>1, <3>1, <3>2
  <2>3. m.up /\ m.val = <<e>>
    BY <2>2, Outcomes, Zenon
  <2>4. <<e>> \in Seq(Elements) /\ \A i \in DOMAIN <<e>> : <<e>>[i] = e
    BY Literals
  <2>5. QED
    BY <1>3, <2>2, <2>3, <2>4, Zenon
<1>4. QED
  BY <1>2, <1>3

LEMMA NativeWritten ==
    ASSUME class.native, NEW f \in Fields(NativeType), NEW list \in Held(f),
           NEW w, w = GenerateWsdl(NativeBinding(f)), NEW m, m = NativeToXml(f, list),
           NEW els, m.up => Named(els, w.name) = m.val
    PROVE  (m.up /\ Meaning(f, Decode(w, els)) = Meaning(f, list)) <=> Written(f, list)
<1>1. /\ f.of \in NativeType /\ f.many \in BOOLEAN /\ f.of # "message" /\ f.of # "bytes"
      /\ f.of \in Converted <=> f.of \notin {"class", "char"}
  BY NativeTypes, Zenon
<1>2. m.up <=> f.of \in Converted
  BY NativeMessage, Zenon
<1>3. list \in Seq(Seq(STRING)) /\ \A i \in DOMAIN list : IsItem(f.of, list[i])
  BY NativeHeld, Zenon
<1>4. list # Unreadable
  BY <1>3, NeverUnreadable, Zenon
<1>5. CASE f.of \notin Converted
  <2>1. ~Written(f, list)
    BY <1>1, <1>5 DEF Written
  <2>2. QED
    BY <1>2, <1>5, <2>1, Zenon
<1>6. CASE f.of \in Converted /\ f.many
  <2>1. PICK kids : kids = ItemKids(f, list)
    BY Zenon
  <2>2. DOMAIN kids = DOMAIN list
    BY <2>1, Zenon DEF ItemKids
  <2>3. PICK e : e = Element(f.name, << >>, kids)
    BY Zenon
  <2>4. e.kids = kids
    BY <2>3 DEF Element
  <2>5. Named(els, w.name) = <<e>>
    BY <1>2, <1>6, <2>1, <2>3, NativeVectorWritten, Outcomes, Zenon
  <2>6. Decode(w, els) # list
    <3>1. CASE Valid(w, e)
      <4>1. DOMAIN list = {}
        BY <2>2, <2>4, <3>1, Literals, Zenon DEF Valid
      <4>2. <<FromText(w, e.text)>> # list
        BY <4>1, Literals
      <4>3. QED
        BY <1>4, <2>5, <4>2, DecodeOne, Zenon
    <3>2. CASE ~Valid(w, e)
      BY <1>4, <2>5, <3>2, DecodeOne, Zenon
    <3>3. QED
      BY <3>1, <3>2
  <2>7. ~Written(f, list)
    BY <1>6, Zenon DEF Written
  <2>8. QED
    BY <1>6, <2>6, <2>7, Zenon DEF Meaning
<1>7. CASE f.of \in Converted /\ ~f.many
  <2>1. PICK item : list = <<item>> /\ IsItem(f.of, item)
    BY <1>7, NativeHeld, Zenon
  <2>2. item \in Seq(STRING)
    BY <2>1 DEF IsItem
  <2>3. PICK text : text = ValueToString(f.of, item)
    BY Zenon
  <2>4. PICK e : e = Leaf(f.name, text)
    BY Zenon
  <2>5. e.text = text /\ e.kids = << >>
    BY <2>4 DEF Leaf, Element
  <2>6. Named(els, w.name) = <<e>>
    <3>1. list[1] = item
      BY <2>1, Literals
    <3>2. m = Up(<<e>>)
      BY <1>7, <2>3, <2>4, <3>1, NativeScalarWritten, Zenon
    <3>3. QED
      BY <1>2, <1>7, <3>2, Outcomes, Zenon
  <2>7. /\ Typed(w) /\ w.type = <<"xs:", f.of>> /\ w.least = 0 /\ w.many = f.many
        /\ w.values = {}
    BY <1>1, <1>7, NativeWsdl, Zenon
  <2>8. \A t : w.type = <<"xs:", t>> <=> f.of = t
    BY <2>7
  <2>9. Allowed(w, <<e>>)
    <3>1. PICK n \in Nat : n = Len(<<e>>) /\ n = 1
      BY Literals
    <3>2. n >= 0 /\ n <= 1
      BY <3>1
    <3>3. QED
      BY <2>7, <3>1, <3>2, Zenon DEF Allowed
  <2>10. f.of # "hexBinary"
    BY <1>7 DEF Converted
  <2>11. text # << >> \/ f.of = "string"
    <3>1. CASE f.of = "double"
      BY <2>1, <2>3, <3>1, DoubleText DEF OneWord
    <3>2. CASE f.of # "double" /\ f.of # "string"
      <4>1. OneWord(item)
        BY <1>1, <2>1, <3>2, ItemIsWord
      <4>2. QED
        BY <2>3, <3>2, <4>1, OtherText DEF OneWord
    <3>3. QED
      BY <3>1, <3>2
  <2>12. Valid(w, e)
    <3>1. CASE f.of = "string"
      <4>1. w.type = <<"xs:", "string">> /\ w.type # <<"xs:", "hexBinary">>
        BY <2>8, <3>1
      <4>2. ~(w.values # {})
        BY <2>7
      <4>3. QED
        BY <2>5, <4>1, <4>2, Zenon DEF Valid
    <3>2. CASE f.of # "string"
      <4>1. w.type # <<"xs:", "string">> /\ w.type # <<"xs:", "hexBinary">>
        BY <2>8, <2>10, <3>2
      <4>2. ~(w.values # {})
        BY <2>7
      <4>3. QED
        BY <2>5, <2>11, <3>2, <4>1, <4>2, Zenon DEF Valid
    <3>3. QED
      BY <3>1, <3>2
  <2>13. FromText(w, text) = item <=> (f.of = "double" => Len(item) = 1)
    <3>1. CASE f.of = "boolean"
      <4>1. w.type = <<"xs:", "boolean">> /\ w.type # <<"xs:", "hexBinary">>
        BY <2>8, <3>1
      <4>2. item \in {<<"0">>, <<"1">>}
        BY <2>1, <3>1 DEF IsItem
      <4>3. text = item
        BY <2>3, <3>1, OtherText
      <4>4. FromText(w, text) = ValueFromString("boolean", item)
        BY <4>1, <4>3, Zenon DEF FromText, ValueFromString
      <4>5. FromText(w, text) = item
        BY <4>2, <4>4, BooleanText, Zenon
      <4>6. QED
        BY <3>1, <4>5
    <3>2. CASE f.of # "boolean"
      <4>1. w.type # <<"xs:", "boolean">> /\ w.type # <<"xs:", "hexBinary">>
        BY <2>8, <2>10, <3>2
      <4>2. FromText(w, text) = text
        BY <4>1, Zenon DEF FromText
      <4>3. f.of = "double" => (text = item <=> Len(item) = 1)
        BY <2>1, <2>3, DoubleText
      <4>4. f.of # "double" => text = item
        BY <2>3, OtherText
      <4>5. QED
        BY <4>2, <4>3, <4>4
    <3>3. QED
      BY <3>1, <3>2
  <2>14. Decode(w, els) = <<FromText(w, text)>>
    BY <2>5, <2>6, <2>9, <2>12, DecodeOne, Zenon
  <2>15. Meaning(f, Decode(w, els)) = Meaning(f, list) <=> FromText(w, text) = item
    BY <2>1, <2>14, Literals, Zenon DEF Meaning
  <2>16. Written(f, list) <=> (f.of = "double" => Len(item) = 1)
    <3>1. AllSixDecimals(list) <=> Len(item) = 1
      <4>1. DOMAIN list = {1} /\ list[1] = item
        BY <2>1, Literals
      <4>2. QED
        BY <4>1, Zenon DEF AllSixDecimals
    <3>2. f.of \notin {"class", "char", "enum", "message", "sint32"} /\ f.of # "bytes"
      BY <1>1, <1>7 DEF NativeType
    <3>3. QED
      BY <1>7, <3>1, <3>2, Zenon DEF Written
  <2>17. QED
    BY <1>2, <1>7, <2>13, <2>15, <2>16, Zenon
<1>8. QED
  BY <1>1, <1>5, <1>6, <1>7, Zenon

LEMMA NativeBack ==
    ASSUME class.native, NEW f \in Fields(NativeType), NEW list \in Held(f),
           NEW m, m = NativeToXml(f, list), NEW r, r = Taken(f, NewList(f), Parse(m.val))
    PROVE  (m.up /\ r.up /\ Meaning(f, r.val) = Meaning(f, list)) <=> ReadsItself(f, list)
<1>1. /\ f.of \in NativeType /\ f.many \in BOOLEAN /\ f.of # "message" /\ f.of # "bytes"
      /\ f.of \in Converted <=> f.of \notin {"class", "char"} /\ f.of # "enum"
  <2>1. f.of \in NativeType => f.of # "enum"
    BY DEF NativeType
  <2>2. QED
    BY <2>1, NativeTypes, Zenon
<1>2. m.up <=> f.of \in Converted
  BY NativeMessage, Zenon
<1>3. list \in Seq(Seq(STRING)) /\ \A i \in DOMAIN list : IsItem(f.of, list[i])
  BY NativeHeld, Zenon
<1>4. CASE f.of \notin Converted
  <2>1. ~ReadsItself(f, list)
    BY <1>1, <1>4 DEF ReadsItself
  <2>2. QED
    BY <1>2, <1>4, <2>1, Zenon
<1>5. CASE f.of \in Converted /\ ~f.many
  <2>1. PICK item : list = <<item>> /\ IsItem(f.of, item)
    BY <1>5, NativeHeld, Zenon
  <2>2. list[1] = item /\ DOMAIN list = {1}
    BY <2>1, Literals
  <2>3. PICK text : text = Parsed(ValueToString(f.of, item))
    BY Zenon
  <2>4. m.val = <<Leaf(f.name, ValueToString(f.of, item))>>
    BY <1>5, <2>2, NativeScalarWritten, Outcomes, Zenon
  <2>5. Parse(m.val) = <<Leaf(f.name, text)>>
    BY <2>3, <2>4, ParseOne, LeafParsed
  <2>6. r = NativeToObj(f, NewList(f), Leaf(f.name, text))
    BY <2>5, Literals, Zenon DEF Taken, ToObj
  <2>7. r = IF text = << >> THEN Down ELSE Up(<<ValueFromString(f.of, text)>>)
    BY <1>5, <2>6, NativeScalarRead, Zenon
  <2>8. Meaning(f, <<ValueFromString(f.of, text)>>) = Meaning(f, list)
            <=> ValueFromString(f.of, text) = item
    BY <2>1, Literals, Zenon DEF Meaning
  <2>9. (text # << >> /\ ValueFromString(f.of, text) = item)
            <=> /\ f.of = "double" => Len(item) = 1
                /\ f.of = "string" => OneWord(item)
    BY <1>5, <2>1, <2>3, NativeItemBack, Zenon
  <2>10. ReadsItself(f, list) <=> /\ f.of = "double" => Len(item) = 1
                                  /\ f.of = "string" => OneWord(item)
    <3>1. AllSixDecimals(list) <=> Len(item) = 1
      BY <2>2, Zenon DEF AllSixDecimals
    <3>2. (\A k \in DOMAIN list : OneWord(list[k]) \/ (f.many /\ list[k] = << >>))
             <=> OneWord(item)
      BY <1>5, <2>2, Zenon
    <3>3. f.of \notin {"class", "char", "enum"}
      BY <1>1, <1>5
    <3>4. QED
      BY <3>1, <3>2, <3>3, Zenon DEF ReadsItself
  <2>11. QED
    BY <1>2, <1>5, <2>7, <2>8, <2>9, <2>10, Outcomes, Zenon
<1>6. CASE f.of \in Converted /\ f.many
  <2> DEFINE kids == ItemKids(f, list)
             got(i) == IF Parsed(ValueToString(f.of, list[i])) = << >> THEN Default(f.of)
                       ELSE ValueFromString(f.of, Parsed(ValueToString(f.of, list[i])))
             good(i) == /\ f.of = "double" => Len(list[i]) = 1
                        /\ f.of = "string" => OneWord(list[i]) \/ list[i] = << >>
  <2>1. /\ DOMAIN kids = DOMAIN list
        /\ \A i \in DOMAIN list : kids[i] = Leaf("item", ValueToString(f.of, list[i]))
    BY DEF ItemKids
  <2>2. \A i \in DOMAIN list : got(i) = list[i] <=> good(i)
    BY <1>3, <1>6, NativeItemBack, Zenon
  <2> DEFINE seen == [i \in DOMAIN kids |-> ParsedLeaf(kids[i])]
             el == Element(f.name, Parsed(<< >>), seen)
  <2>3. /\ DOMAIN seen = DOMAIN list
        /\ \A i \in DOMAIN list :
              seen[i].name = "item" /\ seen[i].text = Parsed(ValueToString(f.of, list[i]))
    <3>1. \A i \in DOMAIN list :
             kids[i].name = "item" /\ kids[i].text = ValueToString(f.of, list[i])
      BY <2>1 DEF Leaf, Element
    <3>2. DOMAIN seen = DOMAIN list /\ \A i \in DOMAIN list : seen[i] = ParsedLeaf(kids[i])
      BY <2>1
    <3>3. \A n, t : Leaf(n, t).name = n /\ Leaf(n, t).text = t
      BY DEF Leaf, Element
    <3> HIDE DEF kids, seen
    <3>4. ASSUME NEW i \in DOMAIN list
          PROVE  seen[i].name = "item" /\ seen[i].text = Parsed(ValueToString(f.of, list[i]))
      <4>1. seen[i] = Leaf("item", Parsed(ValueToString(f.of, list[i])))
        BY <3>1, <3>2, Zenon DEF ParsedLeaf
      <4>2. PICK t : t = Parsed(ValueToString(f.of, list[i]))
        BY Zenon
      <4>3. Leaf("item", t).name = "item" /\ Leaf("item", t).text = t
        BY <3>3
      <4>4. QED
        BY <4>1, <4>2, <4>3, Zenon
    <3>5. QED
      BY <3>2, <3>4, Zenon
  <2>4. Parse(m.val) = <<el>>
    <3>1. m.val = <<Element(f.name, << >>, kids)>>
      BY <1>6, NativeVectorWritten, Outcomes, Zenon
    <3>2. \A e : e = Element(f.name, << >>, kids) =>
              e.name = f.name /\ e.text = << >> /\ e.kids = kids
      BY DEF Element
    <3> HIDE DEF kids
    <3>3. ParsedElement(Element(f.name, << >>, kids)) = el
      BY <3>2, Zenon DEF ParsedElement
    <3> HIDE DEF el
    <3>4. QED
      BY <3>1, <3>3, ParseOne, Zenon
  <2>5. el.kids = seen
    BY DEF Element
  <2> HIDE DEF kids, seen, el
  <2>6. r = NativeToObj(f, << >>, el)
    BY <1>6, <2>4, Literals, Zenon DEF Taken, ToObj, NewList
  <2>7. r = Up(<< >> \o [k \in DOMAIN el.kids |->
                            IF el.kids[k].text = << >> THEN Default(f.of)
                            ELSE ValueFromString(f.of, el.kids[k].text)])
    BY <1>6, <2>3, <2>5, <2>6, NativeVectorRead, Zenon
  <2>8. [k \in DOMAIN el.kids |-> IF el.kids[k].text = << >> THEN Default(f.of)
                                  ELSE ValueFromString(f.of, el.kids[k].text)]
           = [k \in DOMAIN list |-> got(k)]
    BY <2>3, <2>5, Zenon
  <2> HIDE DEF got
  <2>9. r.up /\ r.val = << >> \o [k \in DOMAIN list |-> got(k)]
    BY <2>7, <2>8, Outcomes, Zenon
  <2>10. r.val = list <=> \A i \in DOMAIN list : got(i) = list[i]
    <3>1. PICK n \in Nat : DOMAIN list = 1..n
      BY <1>3
    <3>2. << >> \o [k \in DOMAIN list |-> got(k)] = [k \in 1..n |-> got(k)]
      BY <3>1
    <3>3. list = [k \in 1..n |-> list[k]]
      BY <1>3, <3>1
    <3>4. QED
      BY <2>9, <3>1, <3>2, <3>3
  <2>11. ReadsItself(f, list) <=> \A i \in DOMAIN list : good(i)
    <3>1. f.of \notin {"class", "char", "enum"}
      BY <1>1, <1>6
    <3>2. QED
      BY <1>6, <3>1, Zenon DEF ReadsItself, AllSixDecimals
  <2>12. Meaning(f, r.val) = r.val /\ Meaning(f, list) = list
    BY <1>6, Zenon DEF Meaning
  <2> HIDE DEF good
  <2>13. QED
    BY <1>2, <1>6, <2>2, <2>9, <2>10, <2>11, <2>12, Zenon
<1>7. QED
  BY <1>1, <1>4, <1>5, <1>6, Zenon

-----------------------------------------------------------------------------
(* One protobuf field. *)

(* A client reads item of the text. *)
FromHex(text, item) ==
    [i \in DOMAIN text |-> CHOOSE c \in DOMAIN Hex : Hex[c] = text[i]] = item

LEMMA HexText ==
    ASSUME NEW item \in Seq(STRING), ToSet(item) \subseteq DOMAIN Hex,
           NEW text, text = ConvertToHex(item)
    PROVE  /\ text \in Seq(STRING) /\ ToSet(text) \subseteq {Hex[c] : c \in DOMAIN Hex}
           /\ FromHex(text, item)
           /\ Parsed(text) = << >> \/ (Parsed(text) # << >> /\ Parsed(text) # item)
           /\ item # << >> =>
                 \E i \in DOMAIN item : item[i] \notin {Hex[c] : c \in DOMAIN Hex}
<1>1. PICK n \in Nat : DOMAIN item = 1..n /\ n = Len(item)
  OBVIOUS
<1>2. \A i \in 1..n : item[i] \in DOMAIN Hex
  BY <1>1 DEF ToSet
<1>3. \A i \in 1..n : Hex[item[i]] \in STRING
  BY <1>2, HexAssumption
<1>4. DOMAIN text = 1..n /\ \A i \in 1..n : text[i] = Hex[item[i]]
  BY <1>1 DEF ConvertToHex
<1>5. text \in Seq(STRING)
  BY <1>1, <1>3 DEF ConvertToHex
<1>6. ToSet(text) \subseteq {Hex[c] : c \in DOMAIN Hex}
  BY <1>2, <1>4 DEF ToSet
<1>7. FromHex(text, item)
  <2>1. \A i \in 1..n : (CHOOSE c \in DOMAIN Hex : Hex[c] = text[i]) = item[i]
    <3>1. ASSUME NEW i \in 1..n
          PROVE  (CHOOSE c \in DOMAIN Hex : Hex[c] = text[i]) = item[i]
      <4>1. item[i] \in DOMAIN Hex /\ Hex[item[i]] = text[i]
        BY <1>2, <1>4
      <4>2. \A b, c \in DOMAIN Hex : Hex[b] = Hex[c] => b = c
        BY HexAssumption
      <4>3. QED
        BY <4>1, <4>2
    <3>2. QED
      BY <3>1
  <2>2. item = [i \in 1..n |-> item[i]]
    BY <1>1
  <2> DEFINE g(i) == CHOOSE c \in DOMAIN Hex : Hex[c] = text[i]
  <2>3. [i \in 1..n |-> g(i)] = [i \in 1..n |-> item[i]]
    <3>1. \A i \in 1..n : g(i) = item[i]
      BY <2>1
    <3> HIDE DEF g
    <3>2. QED
      BY <3>1
  <2>4. QED
    BY <1>4, <2>2, <2>3, Zenon DEF FromHex
<1>8. item # << >> =>
        \E i \in DOMAIN item : item[i] \notin {Hex[c] : c \in DOMAIN Hex}
  <2>1. ASSUME item # << >> PROVE 1 \in 1..n
    BY <1>1, <2>1
  <2>2. \A b, c \in DOMAIN Hex : Hex[c] # b
    BY HexAssumption
  <2>3. QED
    BY <1>1, <1>2, <2>1, <2>2
<1>9. Parsed(text) = << >> \/ (Parsed(text) # << >> /\ Parsed(text) # item)
  <2>1. CASE item = << >>
    BY <2>1, Zenon
  <2>2. CASE item # << >>
    <3>1. PICK i \in 1..n : item[i] \notin {Hex[c] : c \in DOMAIN Hex}
      BY <1>1, <1>8, <2>2
    <3>2. text[i] # item[i]
      BY <1>2, <1>4, <3>1
    <3>3. text # item
      BY <3>2
    <3>4. QED
      BY <1>5, <3>3, BlankOrText, Zenon
  <2>3. QED
    BY <2>1, <2>2
<1>10. QED
  BY <1>5, <1>6, <1>7, <1>8, <1>9

LEMMA ProtobufTypes ==
    ASSUME NEW f \in Fields(ProtobufType)
    PROVE  /\ f.of \in ProtobufType /\ f.name \in STRING /\ f.many \in BOOLEAN
           /\ f.of \in {"message", "enum", "sint32", "string", "bytes", "bool", "int32", "double"}
           /\ f.of \notin {"class", "char"}
           /\ CppType(f) = "double" <=> f.of = "double"
           /\ CppType(f) = "boolean" <=> f.of = "bool"
           /\ CppType(f) \in {"string", "hexBinary"} <=> f.of \in {"string", "bytes"}
           /\ CppType(f) = "enum" <=> f.of = "enum"
           /\ XsName[f.of] = "boolean" <=> f.of = "bool"
           /\ XsName[f.of] = "hexBinary" <=> f.of = "bytes"
           /\ XsName[f.of] = "string" <=> f.of = "string"
<1>1. f.of \in ProtobufType /\ f.name \in STRING /\ f.many \in BOOLEAN
  BY DEF Fields
<1>2. QED
  BY <1>1, XsNames DEF CppType

LEMMA ProtobufBindingOf ==
    ASSUME ~class.native, NEW f
    PROVE  /\ Binding(f) = ProtobufBinding(f) /\ DefaultOf(f) = Default(CppType(f))
           /\ NewList(f) = << >>
           /\ \A list, el : ToObj(f, list, el) = ProtobufToObj(f, list, el)
           /\ \A list : ToXml(f, list) = ProtobufToXml(f, list)
BY Zenon DEF Binding, DefaultOf, NewList, ToObj, ToXml

(* A single value that is no string, no bytes and no message: the text of  *)
(* what is written, and what is read of it.                                *)
LEMMA ProtobufItemBack ==
    ASSUME NEW f \in Fields(ProtobufType), f.of \in {"bool", "int32", "sint32", "double"},
           NEW item, IsItem(f.of, item), NEW text, text = ValueToString(CppType(f), item)
    PROVE  /\ text \in Seq(STRING) /\ text # << >> /\ Parsed(text) = text
           /\ ValueFromString(CppType(f), text) = item <=> (f.of = "double" => Len(item) = 1)
           /\ text = item <=> (f.of = "double" => Len(item) = 1)
<1>1. CASE f.of = "double"
  <2>1. CppType(f) = "double"
    BY <1>1, ProtobufTypes
  <2>2. text \in Seq(STRING) /\ OneWord(text) /\ (text = item <=> Len(item) = 1)
    BY <1>1, <2>1, DoubleText, Zenon
  <2>3. text # << >> /\ Parsed(text) = text /\ FirstWord(text) = text
    BY <2>2, WordIsRead, Zenon
  <2>4. ValueFromString("double", text) = FirstWord(text)
    BY WordText
  <2>5. QED
    BY <1>1, <2>1, <2>2, <2>3, <2>4, Zenon
<1>2. CASE f.of # "double"
  <2>1. CppType(f) # "double"
    BY <1>2, ProtobufTypes
  <2>2. text = item
    BY <2>1, OtherText, Zenon
  <2>3. f.of \notin {"string", "bytes"}
    OBVIOUS
  <2>4. item \in Seq(STRING) /\ OneWord(item)
    BY <2>3, ItemIsWord, Zenon
  <2>5. CppType(f) = "boolean" => item \in {<<"0">>, <<"1">>}
    <3>1. CppType(f) = "boolean" => f.of \in {"boolean", "bool"}
      BY ProtobufTypes
    <3>2. QED
      BY <3>1, Zenon DEF IsItem
  <2>6. Parsed(item) = item /\ item # << >> /\ ValueFromString(CppType(f), item) = item
    BY <2>4, <2>5, WordIsReadBack, Zenon
  <2>7. QED
    BY <1>2, <2>2, <2>4, <2>6, Zenon
<1>3. QED
  BY <1>1, <1>2

LEMMA ProtobufRead ==
    ASSUME ~class.native, NEW f \in Fields(ProtobufType), NEW list \in Sent(f),
           NEW w, w = GenerateWsdl(ProtobufBinding(f)),
           NEW r, r = Taken(f, NewList(f), Parse(Encode(w, list)))
    PROVE  /\ Encode(w, list) \in Seq(Elements)
           /\ \A i \in 1..Len(Encode(w, list)) : Encode(w, list)[i].name = f.name
           /\ (r.up /\ Meaning(f, r.val) = Meaning(f, list)) <=> Understood(f, list)
<1>1. /\ list \in Seq(Seq(STRING)) /\ Allowed(w, list)
      /\ \A i \in DOMAIN list : IsItem(f.of, list[i]) /\ list[i] \in Seq(STRING)
  BY ProtobufBindingOf, ProtobufTypes, SentList, Zenon
<1>2. /\ w.name = f.name /\ f.name \in STRING /\ f.many \in BOOLEAN
      /\ f.of \in {"enum", "string", "bytes", "bool", "int32", "double"}
  <2>1. Typed(w)
    BY <1>1 DEF Allowed
  <2>2. w.name = f.name /\ f.of \notin {"message", "sint32"}
    BY <2>1, ProtobufWsdl, Zenon
  <2>3. QED
    BY <2>2, ProtobufTypes
<1>3. /\ w.type = <<"xs:", "boolean">> <=> f.of = "bool"
      /\ w.type = <<"xs:", "hexBinary">> <=> f.of = "bytes"
  <2>1. CASE f.of = "enum"
    <3>1. w.type = << >>
      BY <2>1, ProtobufWsdl, Zenon
    <3>2. <<"xs:", "boolean">> # << >> /\ <<"xs:", "hexBinary">> # << >>
      OBVIOUS
    <3>3. QED
      BY <2>1, <3>1, <3>2, Zenon
  <2>2. CASE f.of # "enum"
    <3>1. f.of \notin {"message", "sint32", "enum"}
      BY <1>2, <2>2
    <3>2. w.type = <<"xs:", XsName[f.of]>>
      BY <3>1, ProtobufWsdl, Zenon
    <3>3. \A t, u : <<"xs:", t>> = <<"xs:", u>> <=> t = u
      OBVIOUS
    <3>4. QED
      BY <3>2, <3>3, ProtobufTypes, Zenon
  <2>3. QED
    BY <2>1, <2>2
<1>4. ASSUME NEW item, IsItem(f.of, item), item \in Seq(STRING)
      PROVE  /\ ToText(w, item) \in Seq(STRING)
             /\ f.of = "bool" => /\ OneWord(ToText(w, item))
                                 /\ ValueFromString("boolean", ToText(w, item)) = item
             /\ f.of = "bytes" => \/ Parsed(ToText(w, item)) = << >>
                                  \/ /\ Parsed(ToText(w, item)) # << >>
                                     /\ Parsed(ToText(w, item)) # item
             /\ f.of \notin {"bool", "bytes"} => ToText(w, item) = item
  <2>1. CASE f.of = "bool"
    <3>1. w.type = <<"xs:", "boolean">> /\ w.type # <<"xs:", "hexBinary">>
      BY <1>3, <2>1
    <3>2. ToText(w, item) = IF item = <<"1">> THEN <<"true">> ELSE <<"false">>
      BY <3>1, Zenon DEF ToText
    <3>3. item \in {<<"0">>, <<"1">>}
      BY <1>4, <2>1 DEF IsItem
    <3>4. "true" \in STRING /\ "false" \in STRING /\ "true" # Blank /\ "false" # Blank
      BY StringAssumption DEF Blank
    <3>5. /\ <<"true">> \in Seq(STRING) /\ OneWord(<<"true">>)
          /\ <<"false">> \in Seq(STRING) /\ OneWord(<<"false">>)
      BY <3>4, OneTokenIsWord, Literals, Zenon
    <3>6. ToText(w, item) \in Seq(STRING) /\ OneWord(ToText(w, item))
      BY <3>2, <3>5, Zenon
    <3>7. ValueFromString("boolean", ToText(w, item)) = item
      BY <3>2, <3>3, BooleanText, Zenon
    <3>8. f.of # "bytes"
      BY <2>1
    <3>9. QED
      BY <2>1, <3>6, <3>7, <3>8, Zenon
  <2>2. CASE f.of = "bytes"
    <3>1. w.type = <<"xs:", "hexBinary">> /\ w.type # <<"xs:", "boolean">>
      BY <1>3, <2>2
    <3>2. ToText(w, item) = ConvertToHex(item)
      BY <3>1, Zenon DEF ToText, ConvertToHex
    <3>3. ToSet(item) \subseteq DOMAIN Hex
      BY <1>4, <2>2 DEF IsItem
    <3>4. /\ ToText(w, item) \in Seq(STRING)
          /\ Parsed(ToText(w, item)) = << >> \/ (/\ Parsed(ToText(w, item)) # << >>
                                                 /\ Parsed(ToText(w, item)) # item)
      BY <1>4, <3>2, <3>3, HexText, Zenon
    <3>5. f.of # "bool"
      BY <2>2
    <3>6. QED
      BY <2>2, <3>4, <3>5, Zenon
  <2>3. CASE f.of \notin {"bool", "bytes"}
    <3>1. w.type # <<"xs:", "boolean">> /\ w.type # <<"xs:", "hexBinary">>
      BY <1>3, <2>3
    <3>2. ToText(w, item) = item
      BY <3>1, Zenon DEF ToText
    <3>3. f.of # "bool" /\ f.of # "bytes"
      BY <2>3
    <3>4. QED
      BY <1>4, <3>2, <3>3, Zenon
  <2>4. QED
    BY <2>1, <2>2, <2>3
<1>5. /\ Encode(w, list) \in Seq(Elements) /\ Len(Encode(w, list)) = Len(list)
      /\ \A i \in 1..Len(list) : /\ Encode(w, list)[i] = Leaf(w.name, ToText(w, list[i]))
                                 /\ Encode(w, list)[i].name = w.name
  <2>1. \A i \in DOMAIN list : ToText(w, list[i]) \in Seq(STRING)
    BY <1>1, <1>4, Zenon
  <2>2. QED
    BY <1>1, <1>2, <2>1, EncodeType, Zenon
<1>6. CASE list = << >>
  <2>1. f.of # "enum"
    <3>1. PICK n \in Nat : n = Len(list) /\ n = 0
      BY <1>6
    <3>2. f.of = "enum" => w.least = 1
      BY ProtobufWsdl
    <3>3. n >= w.least
      BY <1>1, <3>1 DEF Allowed
    <3>4. QED
      BY <3>1, <3>2, <3>3
  <2>2. r = Up(<< >>)
    BY <1>6, EncodeOne, ParseOne, ProtobufBindingOf, Zenon DEF Taken
  <2>3. Understood(f, list)
    <3>1. f.of \notin {"enum", "message", "sint32"}
      BY <1>2, <2>1
    <3>2. QED
      BY <1>6, <3>1, Literals, Zenon DEF Understood
  <2>4. QED
    BY <1>2, <1>5, <1>6, <2>2, <2>3, Outcomes, Zenon
<1>7. CASE list # << >> /\ (f.many \/ f.of = "enum")
  <2>1. Parse(Encode(w, list)) # << >>
    <3>1. Len(list) # 0
      BY <1>1, <1>7
    <3>2. Parse(Encode(w, list)) \in Seq(Elements) /\ Len(Parse(Encode(w, list))) = Len(list)
      BY <1>5, ParseType, Zenon
    <3>3. QED
      BY <3>1, <3>2, EmptySeq, Zenon
  <2>2. r = Down
    BY <1>7, <2>1, ProtobufBindingOf, Zenon DEF Taken, ProtobufToObj
  <2>3. ~Understood(f, list)
    <3>1. CASE f.many
      BY <1>7, <3>1, Zenon DEF Understood
    <3>2. CASE f.of = "enum"
      BY <3>2, Zenon DEF Understood
    <3>3. QED
      BY <1>7, <3>1, <3>2
  <2>4. QED
    BY <1>2, <1>5, <2>2, <2>3, Outcomes, Zenon
<1>8. CASE list # << >> /\ ~f.many /\ f.of # "enum"
  <2>1. f.of \in {"string", "bytes", "bool", "int32", "double"} /\ f.of # "message"
    BY <1>2, <1>8
  <2>2. PICK item : list = <<item>> /\ IsItem(f.of, item) /\ item \in Seq(STRING)
    <3>1. Len(list) <= 1
      <4>1. f.of \notin {"message", "sint32", "enum"}
        BY <2>1
      <4>2. w.many = f.many
        BY <4>1, ProtobufWsdl, Zenon
      <4>3. QED
        BY <1>1, <1>8, <4>2, Zenon DEF Allowed
    <3>2. Len(list) \in Nat /\ Len(list) # 0
      BY <1>1, <1>8
    <3>3. \A n \in Nat : n <= 1 /\ n # 0 => n = 1
      OBVIOUS
    <3>4. Len(list) = 1
      BY <3>1, <3>2, <3>3, Zenon
    <3>5. list = <<list[1]>> /\ 1 \in DOMAIN list
      BY <1>1, <3>4, OneOfList
    <3>6. QED
      BY <1>1, <3>5, Zenon
  <2>3. PICK text : text = Parsed(ToText(w, item))
    BY Zenon
  <2>4. Parse(Encode(w, list)) = <<Leaf(w.name, text)>>
    BY <2>2, <2>3, EncodeOne, ParseOne, LeafParsed
  <2>5. r = ProtobufToObj(f, << >>, Leaf(w.name, text))
    <3>1. PICK e : e = Leaf(w.name, text)
      BY Zenon
    <3>2. <<e>> # << >> /\ <<e>>[1] = e
      BY Literals
    <3>3. r = ToObj(f, NewList(f), e)
      BY <2>4, <3>1, <3>2, Zenon DEF Taken
    <3>4. QED
      BY <3>1, <3>3, ProtobufBindingOf, Zenon
  <2>6. r = IF text = << >> THEN Down
            ELSE Up(<<IF f.of \in {"string", "bytes"} THEN text
                      ELSE ValueFromString(CppType(f), text)>>)
    <3>1. Leaf(w.name, text).text = text
      BY DEF Leaf, Element
    <3>2. QED
      BY <1>8, <2>1, <2>5, <3>1, Zenon DEF ProtobufToObj
  <2>7. \A v : Meaning(f, <<v>>) = Meaning(f, list) <=> v = item
    BY <2>2, Literals, Zenon DEF Meaning
  <2>8. Understood(f, list) <=> /\ f.of # "bytes"
                                /\ f.of = "string" => Parsed(item) # << >>
    <3>1. (\A k \in DOMAIN list : Parsed(list[k]) # << >>) <=> Parsed(item) # << >>
      <4>1. DOMAIN list = {1} /\ list[1] = item
        BY <2>2, Literals
      <4>2. QED
        BY <4>1, Zenon
    <3>2. f.of \notin {"enum", "message", "sint32"}
      BY <2>1
    <3>3. QED
      BY <1>8, <3>1, <3>2, Zenon DEF Understood
  <2>9. (text # << >> /\ (IF f.of \in {"string", "bytes"} THEN text
                          ELSE ValueFromString(CppType(f), text)) = item)
           <=> /\ f.of # "bytes"
               /\ f.of = "string" => Parsed(item) # << >>
    <3>1. CASE f.of = "bytes"
      <4>1. text = << >> \/ (text # << >> /\ text # item)
        BY <1>4, <2>2, <2>3, <3>1, Zenon
      <4>2. QED
        BY <3>1, <4>1
    <3>2. CASE f.of = "string"
      <4>1. f.of \notin {"bool", "bytes"} /\ f.of # "bytes"
        BY <3>2
      <4>2. text = Parsed(item)
        BY <1>4, <2>2, <2>3, <4>1, Zenon
      <4>3. text = << >> \/ text = item
        BY <2>2, <4>2, BlankOrText, Zenon
      <4>4. QED
        BY <3>2, <4>1, <4>2, <4>3, Zenon
    <3>3. CASE f.of = "bool"
      <4>1. OneWord(ToText(w, item)) /\ ToText(w, item) \in Seq(STRING)
            /\ ValueFromString("boolean", ToText(w, item)) = item
        BY <1>4, <2>2, <3>3, Zenon
      <4>2. text = ToText(w, item) /\ text # << >>
        BY <2>3, <4>1, WordIsRead, Zenon
      <4>3. CppType(f) = "boolean" /\ f.of \notin {"string", "bytes"}
        BY <3>3, ProtobufTypes
      <4>4. f.of # "string" /\ f.of # "bytes"
        BY <3>3
      <4>5. QED
        BY <4>1, <4>2, <4>3, <4>4, Zenon
    <3>4. CASE f.of \in {"int32", "double"}
      <4>1. f.of \notin {"bool", "bytes"} /\ f.of \notin {"string", "bytes"}
            /\ f.of # "string" /\ f.of # "bytes"
        BY <3>4
      <4>2. text = Parsed(item)
        BY <1>4, <2>2, <2>3, <4>1, Zenon
      <4>3. OneWord(item)
        BY <2>2, <4>1, ItemIsWord, Zenon
      <4>4. CppType(f) # "boolean"
        BY <4>1, ProtobufTypes
      <4>5. Parsed(item) = item /\ item # << >> /\ ValueFromString(CppType(f), item) = item
        BY <2>2, <4>3, <4>4, WordIsReadBack, Zenon
      <4>6. QED
        BY <4>1, <4>2, <4>5, Zenon
    <3>5. QED
      BY <2>1, <3>1, <3>2, <3>3, <3>4
  <2>10. r.up /\ Meaning(f, r.val) = Meaning(f, list) <=> Understood(f, list)
    <3>1. CASE text = << >>
      BY <2>6, <2>8, <2>9, <3>1, Outcomes, Zenon
    <3>2. CASE text # << >>
      <4>1. PICK v : v = IF f.of \in {"string", "bytes"} THEN text
                         ELSE ValueFromString(CppType(f), text)
        BY Zenon
      <4>2. r.up /\ r.val = <<v>>
        BY <2>6, <3>2, <4>1, Outcomes, Zenon
      <4>3. v = item <=> Understood(f, list)
        BY <2>8, <2>9, <3>2, <4>1, Zenon
      <4>4. QED
        BY <2>7, <4>2, <4>3, Zenon
    <3>3. QED
      BY <3>1, <3>2, Zenon
  <2>11. QED
    BY <1>2, <1>5, <2>10, Zenon
<1>9. QED
  BY <1>2, <1>6, <1>7, <1>8, Zenon

(* The item that a single field shows, and its text. *)
Shown(f, list) == IF list = << >> THEN Default(CppType(f)) ELSE list[1]
SingleText(f, item) ==
    IF f.of = "bytes" THEN ConvertToHex(item) ELSE ValueToString(CppType(f), item)

LEMMA DefaultIsItem ==
    ASSUME NEW f \in Fields(ProtobufType), f.of \notin {"enum", "message"}
    PROVE  /\ IsItem(f.of, Default(CppType(f)))
           /\ f.of = "double" => Len(Default(CppType(f))) = 1
<1>1. CASE f.of \in {"string", "bytes"}
  <2>1. CppType(f) \in {"string", "hexBinary"} /\ CppType(f) # "enum"
    BY <1>1, ProtobufTypes
  <2>2. Default(CppType(f)) = << >>
    BY <2>1, Zenon DEF Default
  <2>3. << >> \in Seq(STRING) /\ << >> # <<"unreadable">> /\ ToSet(<< >>) \subseteq DOMAIN Hex
    BY DEF ToSet
  <2>4. f.of \notin {"boolean", "bool"} /\ f.of # "double"
    BY <1>1
  <2>5. (f.of = "string" /\ f.of # "bytes") \/ (f.of = "bytes" /\ f.of # "string")
    BY <1>1
  <2>6. QED
    BY <2>2, <2>3, <2>4, <2>5, Zenon DEF IsItem
<1>2. CASE f.of \notin {"string", "bytes"}
  <2>1. CppType(f) \notin {"string", "hexBinary"} /\ CppType(f) # "enum"
    BY <1>2, ProtobufTypes
  <2>2. Default(CppType(f)) = <<"0">>
    BY <2>1, Zenon DEF Default
  <2>3. /\ <<"0">> \in Seq(STRING) /\ <<"0">> # <<"unreadable">> /\ <<"0">> # << >>
        /\ Blank \notin ToSet(<<"0">>)
    <3>1. "0" \in STRING /\ "0" # "unreadable"
      BY StringAssumption
    <3>2. OneWord(<<"0">>)
      BY OneTokenIsWord DEF Blank
    <3>3. Blank \notin ToSet(<<"0">>)
      BY <3>2 DEF OneWord
    <3>4. QED
      BY <3>1, <3>3, Literals, Zenon
  <2>4. Len(<<"0">>) = 1 /\ Len(<<"0">>) \in 1..2
    OBVIOUS
  <2>5. f.of # "string" /\ f.of # "bytes"
    BY <1>2
  <2>6. CASE f.of \in {"boolean", "bool"}
    <3>1. f.of # "double" /\ <<"0">> \in {<<"0">>, <<"1">>}
      BY <2>6
    <3>2. QED
      BY <2>2, <2>3, <2>5, <2>6, <3>1, Zenon DEF IsItem
  <2>7. CASE f.of \notin {"boolean", "bool"}
    BY <2>2, <2>3, <2>4, <2>5, <2>7, Zenon DEF IsItem
  <2>8. QED
    BY <2>6, <2>7
<1>3. QED
  BY <1>1, <1>2

LEMMA ProtobufHeld ==
    ASSUME ~class.native, NEW f \in Fields(ProtobufType), NEW list \in Held(f)
    PROVE  /\ list \in Seq(Seq(STRING))
           /\ \A i \in DOMAIN list : IsItem(f.of, list[i])
           /\ ~f.many => \/ list = << >>
                         \/ list # << >> /\ list = <<list[1]>> /\ DOMAIN list = {1}
<1>1. /\ list \in Seq(Seq(STRING)) /\ Len(list) \in Nat
      /\ ~f.many => Len(list) \in 0..1
      /\ \A i \in DOMAIN list : IsItem(f.of, list[i]) /\ list[i] \in Seq(STRING)
  BY ProtobufTypes, HeldList, Zenon
<1>2. ASSUME ~f.many, list # << >> PROVE list = <<list[1]>> /\ DOMAIN list = {1}
  <2>1. Len(list) # 0 /\ Len(list) \in 0..1
    BY <1>1, <1>2
  <2>2. \A n \in 0..1 : n # 0 => n = 1
    OBVIOUS
  <2>3. Len(list) = 1
    BY <2>1, <2>2, Zenon
  <2>4. QED
    BY <1>1, <2>3, OneOfList
<1>3. QED
  BY <1>1, <1>2, Zenon

LEMMA ShownItem ==
    ASSUME ~class.native, NEW f \in Fields(ProtobufType), f.of \notin {"enum", "message"},
           ~f.many, NEW list \in Held(f), NEW item, item = Shown(f, list)
    PROVE  /\ IsItem(f.of, item) /\ Meaning(f, list) = <<item>>
           /\ list = << >> \/ (list = <<item>> /\ DOMAIN list = {1} /\ list[1] = item)
           /\ list = << >> => /\ item = Default(CppType(f))
                              /\ f.of = "double" => Len(item) = 1
<1>1. f.of # "message"
  OBVIOUS
<1>2. CASE list = << >>
  <2>1. item = Default(CppType(f))
    BY <1>2, Zenon DEF Shown
  <2>2. IsItem(f.of, item) /\ (f.of = "double" => Len(item) = 1)
    BY <2>1, DefaultIsItem, Zenon
  <2>3. Meaning(f, list) = <<item>>
    BY <1>1, <1>2, <2>1, ProtobufBindingOf, Zenon DEF Meaning
  <2>4. QED
    BY <1>2, <2>1, <2>2, <2>3, Zenon
<1>3. CASE list # << >>
  <2>1. item = list[1]
    BY <1>3, Zenon DEF Shown
  <2>2. list = <<item>> /\ DOMAIN list = {1} /\ 1 \in DOMAIN list
    BY <1>3, <2>1, ProtobufHeld
  <2>3. IsItem(f.of, item)
    BY <2>1, <2>2, ProtobufHeld, Zenon
  <2>4. Meaning(f, list) = <<item>>
    BY <1>3, <2>2, Zenon DEF Meaning
  <2>5. QED
    BY <1>3, <2>1, <2>2, <2>3, <2>4, Zenon
<1>4. QED
  BY <1>2, <1>3

LEMMA SingleTextOf ==
    ASSUME NEW f \in Fields(ProtobufType), f.of \notin {"enum", "message"},
           NEW item, IsItem(f.of, item), NEW text, text = SingleText(f, item)
    PROVE  /\ text \in Seq(STRING)
           /\ f.of = "string" => text = item
           /\ f.of = "bytes" => /\ text = ConvertToHex(item)
                                /\ item \in Seq(STRING) /\ ToSet(item) \subseteq DOMAIN Hex
           /\ f.of \notin {"string", "bytes"} =>
                 /\ text = ValueToString(CppType(f), item)
                 /\ f.of \in {"bool", "int32", "sint32", "double"}
<1>1. item \in Seq(STRING)
  BY DEF IsItem
<1>2. CASE f.of = "bytes"
  <2>1. text = ConvertToHex(item)
    BY <1>2, Zenon DEF SingleText
  <2>2. ToSet(item) \subseteq DOMAIN Hex
    BY <1>2 DEF IsItem
  <2>3. text \in Seq(STRING)
    BY <1>1, <2>1, <2>2, HexText, Zenon
  <2>4. f.of # "string" /\ f.of \in {"string", "bytes"}
    BY <1>2
  <2>5. QED
    BY <1>1, <1>2, <2>1, <2>2, <2>3, <2>4, Zenon
<1>3. CASE f.of = "string"
  <2>1. f.of # "bytes" /\ CppType(f) # "double"
    BY <1>3, ProtobufTypes
  <2>2. text = item
    BY <2>1, OtherText, Zenon DEF SingleText
  <2>3. f.of \in {"string", "bytes"}
    BY <1>3
  <2>4. QED
    BY <1>1, <2>1, <2>2, <2>3, Zenon
<1>4. CASE f.of \notin {"string", "bytes"}
  <2>1. f.of \in {"bool", "int32", "sint32", "double"} /\ f.of # "bytes" /\ f.of # "string"
    BY <1>4, ProtobufTypes
  <2>2. text = ValueToString(CppType(f), item)
    BY <2>1, Zenon DEF SingleText
  <2>3. text \in Seq(STRING)
    BY <2>1, <2>2, ProtobufItemBack, Zenon
  <2>4. QED
    BY <2>1, <2>2, <2>3, Zenon
<1>5. QED
  BY <1>2, <1>3, <1>4

LEMMA SingleWritten ==
    ASSUME NEW f \in Fields(ProtobufType), f.of \notin {"enum", "message"}, ~f.many, NEW list
    PROVE  ProtobufToXml(f, list) = Up(<<Leaf(f.name, SingleText(f, Shown(f, list)))>>)
<1>1. PICK item : item = IF list = << >> THEN Default(CppType(f)) ELSE list[1]
  BY Zenon
<1>2. Shown(f, list) = item
  BY <1>1, Zenon DEF Shown
<1>3. f.of # "enum" /\ f.of # "message"
  OBVIOUS
<1>4. SetSingleValueToXml(f, list) = Leaf(f.name, SingleText(f, item))
  <2>1. CASE f.of = "bytes"
    <3>1. f.of # "string"
      BY <2>1
    <3>2. QED
      BY <1>1, <1>3, <2>1, <3>1, Zenon DEF SetSingleValueToXml, SingleText
  <2>2. CASE f.of = "string"
    <3>1. f.of # "bytes" /\ CppType(f) # "double"
      BY <2>2, ProtobufTypes
    <3>2. SingleText(f, item) = item
      BY <3>1, OtherText, Zenon DEF SingleText
    <3>3. QED
      BY <1>1, <1>3, <2>2, <3>1, <3>2, Zenon DEF SetSingleValueToXml
  <2>3. CASE f.of # "string" /\ f.of # "bytes"
    BY <1>1, <1>3, <2>3, Zenon DEF SetSingleValueToXml, SingleText
  <2>4. QED
    BY <2>1, <2>2, <2>3, Zenon
<1>5. QED
  BY <1>2, <1>3, <1>4, Zenon DEF ProtobufToXml

LEMMA MessageWritten ==
    ASSUME NEW f \in Fields(ProtobufType), f.of = "message", ~f.many, NEW list
    PROVE  ProtobufToXml(f, list)
              = Up(<<IF list = << >> THEN Leaf(f.name, << >>) ELSE Nested(f, list[1])>>)
<1>1. f.of # "enum" /\ f.of # "bytes" /\ f.of # "string"
  OBVIOUS
<1>2. QED
  BY <1>1, Zenon DEF ProtobufToXml, SetSingleValueToXml

LEMMA NestedType ==
    ASSUME NEW f, f.name \in STRING, NEW item \in Seq(STRING)
    PROVE  /\ Nested(f, item) \in Elements /\ Nested(f, item).name = f.name
           /\ Nested(f, item).kids = <<Leaf("n", item)>> /\ Nested(f, item).text = << >>
<1>1. ValueToString("int", item) = item
  BY OtherText
<1>2. Leaf("n", item) \in Leaves
  BY StringAssumption, LeafType
<1>3. PICK kids \in Seq(Leaves) : kids = <<Leaf("n", item)>>
  BY <1>2, Literals, Zenon
<1>4. Nested(f, item) = Element(f.name, << >>, kids)
  BY <1>1, <1>3, Zenon DEF Nested
<1>5. << >> \in Seq(STRING)
  OBVIOUS
<1>6. /\ Element(f.name, << >>, kids) \in Elements /\ Element(f.name, << >>, kids).name = f.name
      /\ Element(f.name, << >>, kids).kids = kids /\ Element(f.name, << >>, kids).text = << >>
  BY <1>5 DEF Element, Elements
<1>7. QED
  BY <1>3, <1>4, <1>6, Zenon

LEMMA RepeatedWritten ==
    ASSUME ~class.native, NEW f \in Fields(ProtobufType), f.of # "enum", f.many,
           NEW list \in Held(f), NEW m, m = ProtobufToXml(f, list)
    PROVE  /\ m.up /\ m.val \in Seq(Elements) /\ DOMAIN m.val = DOMAIN list
           /\ Len(m.val) = Len(list)
           /\ \A i \in DOMAIN list :
                 /\ m.val[i].name = f.name
                 /\ f.of # "message" =>
                       m.val[i] = Leaf(f.name, ValueToString(CppType(f), list[i]))
<1>1. list \in Seq(Seq(STRING)) /\ \A i \in DOMAIN list : IsItem(f.of, list[i])
  BY ProtobufHeld, Zenon
<1>2. f.name \in STRING /\ (CppType(f) = "double" <=> f.of = "double")
  BY ProtobufTypes
<1>3. PICK n \in Nat : n = Len(list) /\ DOMAIN list = 1..n
  BY <1>1
<1> DEFINE e(i) == IF f.of = "message" THEN Nested(f, list[i])
                   ELSE Leaf(f.name, ValueToString(CppType(f), list[i]))
<1>4. ASSUME NEW i \in 1..n
      PROVE  e(i) \in Elements /\ e(i).name = f.name
  <2>1. list[i] \in Seq(STRING) /\ IsItem(f.of, list[i])
    BY <1>1, <1>3
  <2>2. ValueToString(CppType(f), list[i]) \in Seq(STRING)
    <3>1. CASE f.of = "double"
      BY <1>2, <2>1, <3>1, DoubleText, Zenon
    <3>2. CASE f.of # "double"
      BY <1>2, <2>1, <3>2, OtherText, Zenon
    <3>3. QED
      BY <3>1, <3>2
  <2>3. CASE f.of = "message"
    BY <1>2, <2>1, <2>3, NestedType, Zenon
  <2>4. CASE f.of # "message"
    BY <1>2, <2>2, <2>4, LeafType, Zenon
  <2>5. QED
    BY <2>3, <2>4
<1>5. m = Up(SetRepeatedValueToXml(f, list))
  BY Zenon DEF ProtobufToXml
<1>6. SetRepeatedValueToXml(f, list) = [i \in 1..n |-> e(i)]
  BY <1>3, Zenon DEF SetRepeatedValueToXml
<1> HIDE DEF e
<1>7. PICK s : s = SetRepeatedValueToXml(f, list)
  BY Zenon
<1>8. s \in Seq(Elements) /\ DOMAIN s = 1..n /\ Len(s) = n /\ \A i \in 1..n : s[i] = e(i)
  BY <1>4, <1>6, <1>7
<1>9. m.up /\ m.val = s
  BY <1>5, <1>7, Outcomes, Zenon
<1>10. \A i \in 1..n : s[i].name = f.name
  BY <1>4, <1>8, Zenon
<1>11. \A i \in 1..n : f.of # "message" =>
                          s[i] = Leaf(f.name, ValueToString(CppType(f), list[i]))
  BY <1>8, Zenon DEF e
<1>12. QED
  BY <1>3, <1>8, <1>9, <1>10, <1>11, Zenon

(* What a protobuf field is written as. *)
LEMMA ProtobufMessage ==
    ASSUME ~class.native, NEW f \in Fields(ProtobufType), NEW list \in Held(f),
           NEW m, m = ProtobufToXml(f, list)
    PROVE  /\ m.up <=> f.of # "enum"
           /\ m.val \in Seq(Elements)
           /\ \A i \in DOMAIN m.val : m.val[i].name = f.name
<1>1. f.name \in STRING /\ f.many \in BOOLEAN
  BY ProtobufTypes
<1>2. CASE f.of = "enum"
  <2>1. m = Down
    BY <1>2, Zenon DEF ProtobufToXml
  <2>2. ~Down.up /\ Down.val = << >>
    BY DEF Down
  <2>3. << >> \in Seq(Elements)
    OBVIOUS
  <2>4. QED
    BY <1>2, <2>1, <2>2, <2>3, Literals, Zenon
<1>3. CASE f.of # "enum" /\ f.many
  <2>1. /\ m.up /\ m.val \in Seq(Elements) /\ DOMAIN m.val = DOMAIN list
        /\ \A i \in DOMAIN list : m.val[i].name = f.name
    <3>1. f.of # "enum" /\ f.many
      BY <1>3, Zenon
    <3>2. QED
      BY <3>1, RepeatedWritten
  <2>2. QED
    BY <1>3, <2>1, Zenon
<1>4. CASE f.of # "enum" /\ ~f.many
  <2>1. PICK e \in Elements : m = Up(<<e>>) /\ e.name = f.name
    <3>1. CASE f.of = "message"
      <4>1. << >> \in Seq(STRING)
        OBVIOUS
      <4>2. Leaf(f.name, << >>) \in Elements /\ Leaf(f.name, << >>).name = f.name
        BY <1>1, <4>1, LeafType, Zenon
      <4>3. list # << >> => Nested(f, list[1]) \in Elements /\ Nested(f, list[1]).name = f.name
        <5>1. ASSUME list # << >> PROVE list[1] \in Seq(STRING)
          <6>1. 1 \in DOMAIN list /\ list \in Seq(Seq(STRING))
            BY <1>4, <5>1, ProtobufHeld
          <6>2. QED
            BY <6>1
        <5>2. QED
          BY <1>1, <5>1, NestedType, Zenon
      <4>4. QED
        BY <1>4, <3>1, <4>2, <4>3, MessageWritten, Zenon
    <3>2. CASE f.of # "message"
      <4>1. f.of \notin {"enum", "message"}
        BY <1>4, <3>2
      <4>2. PICK item : item = Shown(f, list) /\ IsItem(f.of, item)
        BY <1>4, <4>1, ShownItem, Zenon
      <4>3. SingleText(f, item) \in Seq(STRING)
        BY <4>1, <4>2, SingleTextOf, Zenon
      <4>4. Leaf(f.name, SingleText(f, item)) \in Elements
            /\ Leaf(f.name, SingleText(f, item)).name = f.name
        BY <1>1, <4>3, LeafType, Zenon
      <4>5. QED
        BY <1>4, <4>1, <4>2, <4>4, SingleWritten, Zenon
    <3>3. QED
      BY <3>1, <3>2
  <2>2. m.up /\ m.val = <<e>>
    BY <2>1, Outcomes, Zenon
  <2>3. <<e>> \in Seq(Elements) /\ \A i \in DOMAIN <<e>> : <<e>>[i] = e
    BY Literals
  <2>4. QED
    BY <1>4, <2>1, <2>2, <2>3, Zenon
<1>5. QED
  BY <1>1, <1>2, <1>3, <1>4

(* What a client makes of the text of an item. *)
LEMMA WrittenItem ==
    ASSUME NEW f \in Fields(ProtobufType), f.of \notin {"enum", "message", "sint32"},
           NEW w, w = GenerateWsdl(ProtobufBinding(f)),
           NEW item, IsItem(f.of, item), NEW text, text = SingleText(f, item)
    PROVE  /\ Valid(w, Leaf(f.name, text))
           /\ FromText(w, text) = item <=> (f.of = "double" => Len(item) = 1)
<1>1. w.type = <<"xs:", XsName[f.of]>> /\ ~(w.values # {})
  <2>1. w.type = <<"xs:", XsName[f.of]>> /\ w.values = {}
    BY ProtobufWsdl, Zenon
  <2>2. QED
    BY <2>1
<1>2. /\ w.type = <<"xs:", "boolean">> <=> f.of = "bool"
      /\ w.type = <<"xs:", "hexBinary">> <=> f.of = "bytes"
      /\ w.type = <<"xs:", "string">> <=> f.of = "string"
  <2>1. \A t, u : <<"xs:", t>> = <<"xs:", u>> <=> t = u
    OBVIOUS
  <2>2. PICK x : x = XsName[f.of]
    BY Zenon
  <2>3. /\ x = "boolean" <=> f.of = "bool"
        /\ x = "hexBinary" <=> f.of = "bytes"
        /\ x = "string" <=> f.of = "string"
    BY <2>2, ProtobufTypes
  <2>4. w.type = <<"xs:", x>>
    BY <1>1, <2>2, Zenon
  <2>5. QED
    BY <2>1, <2>3, <2>4, Zenon
<1>3. PICK e : e = Leaf(f.name, text)
  BY Zenon
<1>4. e.text = text /\ e.kids = << >>
  BY <1>3 DEF Leaf, Element
<1>5. f.of \notin {"enum", "message"}
  OBVIOUS
<1>6. CASE f.of = "bytes"
  <2>1. /\ text = ConvertToHex(item)
        /\ item \in Seq(STRING) /\ ToSet(item) \subseteq DOMAIN Hex
    BY <1>5, <1>6, SingleTextOf, Zenon
  <2>2. ToSet(text) \subseteq {Hex[c] : c \in DOMAIN Hex} /\ FromHex(text, item)
    BY <2>1, HexText, Zenon
  <2>3. /\ w.type = <<"xs:", "hexBinary">> /\ w.type # <<"xs:", "string">>
        /\ w.type # <<"xs:", "boolean">> /\ f.of # "double"
    BY <1>2, <1>6
  <2>4. Valid(w, e)
    BY <1>1, <1>4, <2>2, <2>3, Zenon DEF Valid
  <2>5. FromText(w, text) = item
    BY <2>2, <2>3, Zenon DEF FromText, FromHex
  <2>6. QED
    BY <1>3, <2>3, <2>4, <2>5, Zenon
<1>7. CASE f.of = "string"
  <2>1. text = item
    BY <1>5, <1>7, SingleTextOf, Zenon
  <2>2. /\ w.type # <<"xs:", "hexBinary">> /\ w.type = <<"xs:", "string">>
        /\ w.type # <<"xs:", "boolean">> /\ f.of # "double"
    BY <1>2, <1>7
  <2>3. Valid(w, e)
    BY <1>1, <1>4, <2>2, Zenon DEF Valid
  <2>4. FromText(w, text) = text
    BY <2>2, Zenon DEF FromText
  <2>5. QED
    BY <1>3, <2>1, <2>2, <2>3, <2>4, Zenon
<1>8. CASE f.of \notin {"string", "bytes"}
  <2>1. f.of \in {"bool", "int32", "sint32", "double"} /\ text = ValueToString(CppType(f), item)
    BY <1>5, <1>8, SingleTextOf, Zenon
  <2>2. text # << >> /\ (text = item <=> (f.of = "double" => Len(item) = 1))
    BY <2>1, ProtobufItemBack, Zenon
  <2>3. w.type # <<"xs:", "hexBinary">> /\ w.type # <<"xs:", "string">>
    BY <1>2, <1>8
  <2>4. Valid(w, e)
    BY <1>1, <1>4, <2>2, <2>3, Zenon DEF Valid
  <2>5. CASE f.of = "bool"
    <3>1. w.type = <<"xs:", "boolean">> /\ f.of # "double"
      BY <1>2, <2>5
    <3>2. text = item
      BY <2>2, <3>1, Zenon
    <3>3. item \in {<<"0">>, <<"1">>}
      BY <2>5 DEF IsItem
    <3>4. FromText(w, text) = ValueFromString("boolean", item)
      BY <2>3, <3>1, <3>2, Zenon DEF FromText, ValueFromString
    <3>5. FromText(w, text) = item
      BY <3>3, <3>4, BooleanText, Zenon
    <3>6. QED
      BY <1>3, <2>4, <3>1, <3>5, Zenon
  <2>6. CASE f.of # "bool"
    <3>1. w.type # <<"xs:", "boolean">>
      BY <1>2, <2>6
    <3>2. FromText(w, text) = text
      BY <2>3, <3>1, Zenon DEF FromText
    <3>3. QED
      BY <1>3, <2>2, <2>4, <3>2, Zenon
  <2>7. QED
    BY <2>5, <2>6
<1>9. QED
  BY <1>6, <1>7, <1>8

(* A list of no, or of one item, or of as many as the field has. *)
LEMMA IsAllowed ==
    ASSUME NEW w, Typed(w), w.least = 0, NEW els \in Seq(Elements), w.many \/ Len(els) <= 1
    PROVE  Allowed(w, els)
<1>1. Len(els) >= 0
  OBVIOUS
<1>2. QED
  BY <1>1, Zenon DEF Allowed

LEMMA ProtobufUntyped ==
    ASSUME ~class.native, NEW f \in Fields(ProtobufType), f.of \in {"message", "sint32"},
           NEW list \in Held(f), NEW w, w = GenerateWsdl(ProtobufBinding(f)), NEW els
    PROVE  Meaning(f, Decode(w, els)) # Meaning(f, list)
<1>1. ~Typed(w)
  BY ProtobufWsdl, Zenon
<1>2. Decode(w, els) = Unreadable
  BY <1>1, Zenon DEF Decode, Allowed
<1>3. Meaning(f, Unreadable) = Unreadable
  <2>1. Unreadable # << >>
    BY DEF Unreadable
  <2>2. QED
    BY <2>1, Zenon DEF Meaning
<1>4. CASE f.many \/ f.of = "message"
  <2>1. Meaning(f, list) = list
    BY <1>4, Zenon DEF Meaning
  <2>2. \A i \in DOMAIN list : IsItem(f.of, list[i])
    BY ProtobufHeld, Zenon
  <2>3. QED
    BY <1>2, <1>3, <2>1, <2>2, NeverUnreadable, Zenon
<1>5. CASE ~f.many /\ f.of # "message"
  <2>1. f.of \notin {"enum", "message"}
    BY <1>5
  <2>2. PICK item : item = Shown(f, list)
    BY Zenon
  <2>3. IsItem(f.of, item) /\ Meaning(f, list) = <<item>>
    BY <1>5, <2>1, <2>2, ShownItem
  <2>4. DOMAIN <<item>> = {1} /\ <<item>>[1] = item
    OBVIOUS
  <2>5. <<item>> # Unreadable
    BY <2>3, <2>4, NeverUnreadable, Zenon
  <2>6. QED
    BY <1>2, <1>3, <2>3, <2>5, Zenon
<1>6. QED
  BY <1>4, <1>5

(* The elements of a repeated field, as a client decodes them. *)
ReadsList(w, mine, list) == \A i \in DOMAIN list : FromText(w, mine[i].text) = list[i]

LEMMA DecodeMany ==
    ASSUME NEW w, NEW els, NEW mine, mine = Named(els, w.name), Allowed(w, mine),
           NEW list \in Seq(Seq(STRING)), DOMAIN mine = DOMAIN list
    PROVE  /\ (\A i \in DOMAIN list : Valid(w, mine[i])) =>
                 (Decode(w, els) = list <=> ReadsList(w, mine, list))
           /\ (\E i \in DOMAIN list : ~Valid(w, mine[i])) => Decode(w, els) = Unreadable
<1> DEFINE g(i) == FromText(w, mine[i].text)
<1>1. /\ (\A i \in DOMAIN list : Valid(w, mine[i])) =>
             Decode(w, els) = [i \in DOMAIN list |-> g(i)]
      /\ (\E i \in DOMAIN list : ~Valid(w, mine[i])) => Decode(w, els) = Unreadable
  BY Zenon DEF Decode
<1>2. [i \in DOMAIN list |-> g(i)] = list <=> \A i \in DOMAIN list : g(i) = list[i]
  <2> HIDE DEF g
  <2>1. PICK n \in Nat : DOMAIN list = 1..n /\ list = [i \in 1..n |-> list[i]]
    OBVIOUS
  <2>2. QED
    BY <2>1
<1>3. QED
  BY <1>1, <1>2, Zenon DEF ReadsList

LEMMA ProtobufWritten ==
    ASSUME ~class.native, NEW f \in Fields(ProtobufType), NEW list \in Held(f),
           NEW w, w = GenerateWsdl(ProtobufBinding(f)), NEW m, m = ProtobufToXml(f, list),
           NEW els, m.up => Named(els, w.name) = m.val
    PROVE  (m.up /\ Meaning(f, Decode(w, els)) = Meaning(f, list)) <=> Written(f, list)
<1>1. /\ f.many \in BOOLEAN /\ f.of \notin {"class", "char"}
      /\ f.of \in {"message", "enum", "sint32", "string", "bytes", "bool", "int32", "double"}
  BY ProtobufTypes, Zenon
<1>2. list \in Seq(Seq(STRING)) /\ \A i \in DOMAIN list : IsItem(f.of, list[i])
  BY ProtobufHeld, Zenon
<1>3. (m.up <=> f.of # "enum") /\ m.val \in Seq(Elements)
  BY ProtobufMessage, Zenon
<1>4. CASE f.of = "enum"
  <2>1. ~Written(f, list)
    BY <1>4, Zenon DEF Written
  <2>2. QED
    BY <1>3, <1>4, <2>1, Zenon
<1>5. CASE f.of \in {"message", "sint32"}
  <2>1. ~Written(f, list)
    BY <1>5 DEF Written
  <2>2. QED
    BY <1>5, <2>1, ProtobufUntyped, Zenon
<1>6. CASE f.of \notin {"enum", "message", "sint32"}
  <2>1. f.of \notin {"enum", "message"} /\ f.of # "enum" /\ f.of # "message" /\ m.up
    BY <1>3, <1>6
  <2>2. Named(els, w.name) = m.val
    BY <2>1
  <2>3. Typed(w) /\ w.least = 0 /\ w.many = f.many
    BY <1>6, ProtobufWsdl, Zenon
  <2>4. Written(f, list) <=> /\ f.of = "double" => AllSixDecimals(list)
                             /\ f.of = "bytes" /\ f.many => \A k \in DOMAIN list : list[k] = << >>
    <3>1. f.of \notin {"class", "char", "enum", "message", "sint32"}
      BY <1>1, <1>6
    <3>2. QED
      BY <3>1, Zenon DEF Written
  <2>5. CASE ~f.many
    <3>1. PICK item : item = Shown(f, list)
      BY Zenon
    <3>2. /\ IsItem(f.of, item) /\ Meaning(f, list) = <<item>>
          /\ list = << >> \/ (list = <<item>> /\ DOMAIN list = {1} /\ list[1] = item)
          /\ list = << >> => (f.of = "double" => Len(item) = 1)
      BY <2>1, <2>5, <3>1, ShownItem
    <3>3. PICK text : text = SingleText(f, item)
      BY Zenon
    <3>4. PICK e : e = Leaf(f.name, text)
      BY Zenon
    <3>5. e.text = text
      BY <3>4 DEF Leaf, Element
    <3>6. Named(els, w.name) = <<e>>
      BY <2>1, <2>2, <2>5, <3>1, <3>3, <3>4, SingleWritten, Outcomes, Zenon
    <3>7. Valid(w, e) /\ (FromText(w, text) = item <=> (f.of = "double" => Len(item) = 1))
      BY <1>6, <3>2, <3>3, <3>4, WrittenItem
    <3>8. Allowed(w, <<e>>)
      <4>1. PICK s \in Seq(Elements) : s = <<e>>
        BY <1>3, <2>2, <3>6, Zenon
      <4>2. Len(s) <= 1
        BY <4>1
      <4>3. QED
        BY <2>3, <4>1, <4>2, IsAllowed, Zenon
    <3>9. Decode(w, els) = <<FromText(w, text)>>
      BY <3>5, <3>6, <3>7, <3>8, DecodeOne, Zenon
    <3>10. Meaning(f, Decode(w, els)) = Meaning(f, list) <=> FromText(w, text) = item
      BY <3>2, <3>9, Literals, Zenon DEF Meaning
    <3>11. AllSixDecimals(list) <=> list = << >> \/ Len(item) = 1
      <4>1. CASE list = << >>
        BY <4>1, Literals, Zenon DEF AllSixDecimals
      <4>2. CASE list # << >>
        BY <3>2, <4>2, Zenon DEF AllSixDecimals
      <4>3. QED
        BY <4>1, <4>2
    <3>12. QED
      BY <2>1, <2>4, <2>5, <3>2, <3>7, <3>10, <3>11, Zenon
  <2>6. CASE f.many
    <3>1. PICK mine : mine = m.val
      BY Zenon
    <3>2. /\ mine \in Seq(Elements) /\ DOMAIN mine = DOMAIN list
          /\ \A i \in DOMAIN list :
                mine[i] = Leaf(f.name, ValueToString(CppType(f), list[i]))
      BY <2>1, <2>6, <3>1, RepeatedWritten
    <3>3. mine = Named(els, w.name) /\ Allowed(w, mine)
      BY <2>2, <2>3, <2>6, <3>1, <3>2, IsAllowed, Zenon
    <3>4. Meaning(f, list) = list /\ Meaning(f, Decode(w, els)) = Decode(w, els)
      BY <2>6, Zenon DEF Meaning
    <3>5. list # Unreadable
      BY <1>2, NeverUnreadable, Zenon
    <3>6. \A n, t : Leaf(n, t).text = t /\ Leaf(n, t).kids = << >>
      BY DEF Leaf, Element
    <3>7. CASE f.of # "bytes"
      <4>1. ASSUME NEW i \in DOMAIN list
            PROVE  /\ Valid(w, mine[i])
                   /\ FromText(w, mine[i].text) = list[i]
                         <=> (f.of = "double" => Len(list[i]) = 1)
        <5>1. PICK item : item = list[i] /\ IsItem(f.of, item)
          BY <1>2, Zenon
        <5>2. PICK text : text = SingleText(f, item) /\ mine[i] = Leaf(f.name, text)
          BY <3>2, <3>7, <5>1, Zenon DEF SingleText
        <5>3. Valid(w, Leaf(f.name, text))
              /\ (FromText(w, text) = item <=> (f.of = "double" => Len(item) = 1))
          BY <1>6, <5>1, <5>2, WrittenItem
        <5>4. mine[i].text = text
          BY <3>6, <5>2
        <5>5. QED
          BY <5>1, <5>2, <5>3, <5>4, Zenon
      <4>2. Decode(w, els) = list <=> ReadsList(w, mine, list)
        <5>1. /\ \A i \in DOMAIN list : Valid(w, mine[i])
              /\ list \in Seq(Seq(STRING)) /\ DOMAIN mine = DOMAIN list
              /\ mine = Named(els, w.name) /\ Allowed(w, mine)
          BY <1>2, <3>2, <3>3, <4>1, Zenon
        <5>2. QED
          BY <5>1, DecodeMany
      <4>3. Written(f, list) <=> (f.of = "double" => AllSixDecimals(list))
        BY <2>4, <3>7, Zenon
      <4>4. (f.of = "double" => AllSixDecimals(list))
               <=> \A i \in DOMAIN list : f.of = "double" => Len(list[i]) = 1
        BY Zenon DEF AllSixDecimals
      <4>5. QED
        BY <2>1, <3>4, <4>1, <4>2, <4>3, <4>4, Zenon DEF ReadsList
    <3>8. CASE f.of = "bytes"
      <4>1. w.type = <<"xs:", "hexBinary">> /\ ~(w.values # {})
        <5>1. w.values = {} /\ w.type = <<"xs:", XsName["bytes"]>>
          BY <1>6, <3>8, ProtobufWsdl, Zenon
        <5>2. QED
          BY <5>1, XsNames
      <4>2. w.type # <<"xs:", "string">> /\ w.type # <<"xs:", "boolean">>
        BY <4>1
      <4>3. ASSUME NEW i \in DOMAIN list
            PROVE  /\ Valid(w, mine[i]) <=> list[i] = << >>
                   /\ Valid(w, mine[i]) => FromText(w, mine[i].text) = list[i]
        <5>1. PICK item \in Seq(STRING) :
                 item = list[i] /\ IsItem(f.of, item) /\ ToSet(item) \subseteq DOMAIN Hex
          <6>1. IsItem(f.of, list[i])
            BY <1>2, Zenon
          <6>2. QED
            BY <3>8, <6>1 DEF IsItem
        <5>2. mine[i].text = item /\ mine[i].kids = << >>
          <6>1. CppType(f) # "double"
            BY <3>8, ProtobufTypes
          <6>2. mine[i] = Leaf(f.name, item)
            BY <3>2, <5>1, <6>1, OtherText, Zenon
          <6>3. QED
            BY <3>6, <6>2
        <5>3. Valid(w, mine[i]) <=> ToSet(item) \subseteq {Hex[c] : c \in DOMAIN Hex}
          BY <4>1, <4>2, <5>2, Zenon DEF Valid
        <5>4. ToSet(item) \subseteq {Hex[c] : c \in DOMAIN Hex} <=> item = << >>
          <6>1. item # << >> =>
                   \E k \in DOMAIN item : item[k] \notin {Hex[c] : c \in DOMAIN Hex}
            BY <5>1, HexText
          <6>2. ToSet(<< >>) = {}
            BY DEF ToSet
          <6>3. ASSUME NEW k \in DOMAIN item PROVE item[k] \in ToSet(item)
            BY DEF ToSet
          <6>4. QED
            BY <6>1, <6>2, <6>3, Zenon
        <5>5. FromText(w, << >>) = << >>
          <6>1. FromText(w, << >>)
                   = [k \in DOMAIN << >> |-> CHOOSE c \in DOMAIN Hex : Hex[c] = << >>[k]]
            BY <4>1, <4>2, Zenon DEF FromText
          <6> DEFINE g(k) == CHOOSE c \in DOMAIN Hex : Hex[c] = << >>[k]
          <6>2. [k \in DOMAIN << >> |-> g(k)] = << >>
            <7> HIDE DEF g
            <7>1. QED
              OBVIOUS
          <6>3. QED
            BY <6>1, <6>2, Zenon
        <5>6. QED
          BY <5>1, <5>2, <5>3, <5>4, <5>5, Zenon
      <4>4. Written(f, list) <=> \A k \in DOMAIN list : list[k] = << >>
        <5>1. f.of # "double"
          BY <3>8
        <5>2. QED
          BY <2>4, <2>6, <3>8, <5>1, Zenon
      <4>5. CASE \A k \in DOMAIN list : list[k] = << >>
        <5>1. Decode(w, els) = list
          <6>1. ReadsList(w, mine, list)
            BY <4>3, <4>5, Zenon DEF ReadsList
          <6>2. QED
            BY <1>2, <3>2, <3>3, <4>3, <4>5, <6>1, DecodeMany, Zenon
        <5>2. QED
          BY <2>1, <3>4, <4>4, <4>5, <5>1, Zenon
      <4>6. CASE ~\A k \in DOMAIN list : list[k] = << >>
        <5>1. Decode(w, els) = Unreadable
          BY <1>2, <3>2, <3>3, <4>3, <4>6, DecodeMany, Zenon
        <5>2. QED
          BY <3>4, <3>5, <4>4, <4>6, <5>1, Zenon
      <4>7. QED
        BY <4>5, <4>6
    <3>9. QED
      BY <3>7, <3>8
  <2>7. QED
    BY <1>1, <2>5, <2>6
<1>7. QED
  BY <1>1, <1>4, <1>5, <1>6

LEMMA ProtobufBack ==
    ASSUME ~class.native, NEW f \in Fields(ProtobufType), NEW list \in Held(f),
           NEW m, m = ProtobufToXml(f, list), NEW r, r = Taken(f, NewList(f), Parse(m.val))
    PROVE  (m.up /\ r.up /\ Meaning(f, r.val) = Meaning(f, list)) <=> ReadsItself(f, list)
<1>1. /\ f.many \in BOOLEAN /\ f.of \notin {"class", "char"} /\ f.name \in STRING
      /\ f.of \in {"message", "enum", "sint32", "string", "bytes", "bool", "int32", "double"}
  BY ProtobufTypes, Zenon
<1>2. list \in Seq(Seq(STRING)) /\ \A i \in DOMAIN list : IsItem(f.of, list[i])
  BY ProtobufHeld, Zenon
<1>3. (m.up <=> f.of # "enum") /\ m.val \in Seq(Elements)
  BY ProtobufMessage, Zenon
<1>5. CASE f.of = "enum"
  <2>1. ~ReadsItself(f, list)
    BY <1>5 DEF ReadsItself
  <2>2. QED
    BY <1>3, <1>5, <2>1, Zenon
<1>6. CASE f.of # "enum" /\ f.many
  <2>1. f.of \notin {"class", "char", "enum"} /\ f.of # "enum"
    BY <1>1, <1>6
  <2>2. Len(m.val) = Len(list) /\ m.val \in Seq(Elements)
    <3>1. f.of # "enum" /\ f.many
      BY <1>6
    <3>2. QED
      BY <3>1, RepeatedWritten
  <2>3. CASE list = << >>
    <3>1. m.val = << >>
      <4>1. Len(list) = 0
        BY <2>3
      <4>2. QED
        BY <2>2, <4>1, EmptySeq, Zenon
    <3>2. r = Up(<< >>)
      BY <3>1, ParseOne, ProtobufBindingOf, Zenon DEF Taken
    <3>3. ReadsItself(f, list)
      BY <1>6, <2>1, <2>3, Literals, Zenon DEF ReadsItself, AllSixDecimals
    <3>4. QED
      BY <1>3, <2>1, <2>3, <3>2, <3>3, Outcomes, Zenon
  <2>4. CASE list # << >>
    <3>1. Parse(m.val) # << >>
      <4>1. Len(list) # 0
        BY <1>2, <2>4
      <4>2. Parse(m.val) \in Seq(Elements) /\ Len(Parse(m.val)) = Len(list)
        BY <2>2, ParseType, Zenon
      <4>3. QED
        BY <4>1, <4>2, EmptySeq, Zenon
    <3>2. r = Down
      BY <1>6, <3>1, ProtobufBindingOf, Zenon DEF Taken, ProtobufToObj
    <3>3. ~ReadsItself(f, list)
      BY <1>6, <2>4, Zenon DEF ReadsItself
    <3>4. QED
      BY <3>2, <3>3, Outcomes, Zenon
  <2>5. QED
    BY <2>3, <2>4
<1>7. CASE f.of = "message" /\ ~f.many
  <2>1. f.of # "enum" /\ f.of # "double" /\ f.of # "bytes" /\ f.of # "string"
        /\ f.of \notin {"class", "char", "enum"}
    BY <1>7
  <2>2. ReadsItself(f, list) <=> list = << >>
    BY <1>7, <2>1, Zenon DEF ReadsItself
  <2>3. Meaning(f, list) = list /\ Meaning(f, << >>) = << >>
    BY <1>7, Zenon DEF Meaning
  <2>4. PICK e : /\ m.val = <<e>> /\ Named(ParsedElement(e).kids, "Inner") = << >>
    <3>1. CASE list = << >>
      <4>1. m.val = <<Leaf(f.name, << >>)>>
        BY <1>7, <3>1, MessageWritten, Outcomes, Zenon
      <4>2. ParsedElement(Leaf(f.name, << >>)).kids = << >>
        <5>1. \A n, t : Leaf(n, t).kids = << >>
          BY DEF Leaf, Element
        <5>2. ParsedElement(Leaf(f.name, << >>)) = Leaf(f.name, Parsed(<< >>))
          BY LeafParsed
        <5>3. QED
          BY <5>1, <5>2, Zenon
      <4>3. Named(<< >>, "Inner") = << >>
        <5>1. << >> \in Seq(Leaves) /\ \A i \in 1..Len(<< >>) : << >>[i].name # "Inner"
          OBVIOUS
        <5>2. PICK s \in Seq(Leaves), name \in {"Inner"} :
                 s = << >> /\ name = "Inner" /\ \A i \in 1..Len(s) : s[i].name # name
          BY <5>1, Zenon
        <5>3. Named(s, name) = << >>
          BY <5>2, NamedNone, Zenon
        <5>4. QED
          BY <5>2, <5>3, Zenon
      <4>4. QED
        BY <4>1, <4>2, <4>3, Zenon
    <3>2. CASE list # << >>
      <4>1. m.val = <<Nested(f, list[1])>>
        BY <1>7, <3>2, MessageWritten, Outcomes, Zenon
      <4>2. list[1] \in Seq(STRING)
        <5>1. 1 \in DOMAIN list
          BY <1>7, <3>2, ProtobufHeld
        <5>2. QED
          BY <1>2, <5>1
      <4>3. Nested(f, list[1]).kids = <<Leaf("n", list[1])>>
        BY <1>1, <4>2, NestedType, Zenon
      <4>4. PICK leaf \in Leaves : leaf = ParsedLeaf(Leaf("n", list[1])) /\ leaf.name = "n"
        <5>1. Leaf("n", list[1]) \in Leaves /\ Leaf("n", list[1]).name = "n"
              /\ Leaf("n", list[1]).text = list[1]
          BY <4>2, StringAssumption, LeafType
        <5>2. ParsedLeaf(Leaf("n", list[1])) = Leaf("n", Parsed(list[1]))
          BY <5>1, Zenon DEF ParsedLeaf
        <5>3. Parsed(list[1]) \in Seq(STRING)
          <6>1. << >> \in Seq(STRING)
            OBVIOUS
          <6>2. QED
            BY <4>2, <6>1, BlankOrText, Zenon
        <5>4. Leaf("n", Parsed(list[1])) \in Leaves /\ Leaf("n", Parsed(list[1])).name = "n"
          BY <5>3, StringAssumption, LeafType
        <5>5. QED
          BY <5>2, <5>4, Zenon
      <4>5. ParsedElement(Nested(f, list[1])).kids = <<leaf>>
        <5>1. PICK kids : kids = Nested(f, list[1]).kids
          BY Zenon
        <5>2. ParsedElement(Nested(f, list[1])).kids
                 = [k \in DOMAIN kids |-> ParsedLeaf(kids[k])]
          BY <5>1 DEF ParsedElement, Element
        <5>3. \A x : [k \in DOMAIN <<x>> |-> ParsedLeaf(<<x>>[k])] = <<ParsedLeaf(x)>>
          OBVIOUS
        <5>4. QED
          BY <4>3, <4>4, <5>1, <5>2, <5>3, Zenon
      <4>6. Named(<<leaf>>, "Inner") = << >>
        <5>1. <<leaf>> \in Seq(Leaves) /\ \A i \in 1..Len(<<leaf>>) : <<leaf>>[i] = leaf
          BY Literals
        <5>2. "n" # "Inner"
          OBVIOUS
        <5>3. PICK s \in Seq(Leaves), name \in {"Inner"} :
                 s = <<leaf>> /\ name = "Inner" /\ \A i \in 1..Len(s) : s[i].name # name
          BY <4>4, <5>1, <5>2, Zenon
        <5>4. Named(s, name) = << >>
          BY <5>3, NamedNone, Zenon
        <5>5. QED
          BY <5>3, <5>4, Zenon
      <4>7. QED
        BY <4>1, <4>5, <4>6, Zenon
    <3>3. QED
      BY <3>1, <3>2
  <2>5. PICK p : p = ParsedElement(e) /\ Parse(m.val) = <<p>>
    BY <2>4, ParseOne, Zenon
  <2>6. <<p>> # << >> /\ <<p>>[1] = p
    BY Literals
  <2>7. r = ProtobufToObj(f, << >>, p)
    BY <2>5, <2>6, ProtobufBindingOf, Zenon DEF Taken
  <2>8. r = NestedToObj(<< >>, p)
    BY <1>7, <2>1, <2>7, Zenon DEF ProtobufToObj
  <2>9. r = Up(<< >>)
    BY <2>4, <2>5, <2>8, Zenon DEF NestedToObj
  <2>10. QED
    BY <1>3, <2>1, <2>2, <2>3, <2>9, Outcomes, Zenon
<1>8. CASE f.of # "enum" /\ f.of # "message" /\ ~f.many
  <2>1. f.of \notin {"enum", "message"} /\ f.of \notin {"class", "char", "enum"}
    BY <1>1, <1>8
  <2>2. PICK item : item = Shown(f, list)
    BY Zenon
  <2>3. /\ IsItem(f.of, item) /\ Meaning(f, list) = <<item>>
        /\ list = << >> \/ (list = <<item>> /\ DOMAIN list = {1} /\ list[1] = item)
        /\ list = << >> => /\ item = Default(CppType(f))
                           /\ f.of = "double" => Len(item) = 1
    BY <1>8, <2>1, <2>2, ShownItem
  <2>4. PICK text : text = SingleText(f, item)
    BY Zenon
  <2>5. PICK seen : seen = Parsed(text)
    BY Zenon
  <2>6. Parse(m.val) = <<Leaf(f.name, seen)>>
    <3>1. m.val = <<Leaf(f.name, text)>>
      BY <1>8, <2>1, <2>2, <2>4, SingleWritten, Outcomes, Zenon
    <3>2. QED
      BY <2>5, <3>1, ParseOne, LeafParsed, Zenon
  <2>7. r = ProtobufToObj(f, << >>, Leaf(f.name, seen))
    <3>1. PICK e : e = Leaf(f.name, seen)
      BY Zenon
    <3>2. <<e>> # << >> /\ <<e>>[1] = e
      BY Literals
    <3>3. r = ToObj(f, NewList(f), e)
      BY <2>6, <3>1, <3>2, Zenon DEF Taken
    <3>4. QED
      BY <3>1, <3>3, ProtobufBindingOf, Zenon
  <2>8. r = IF seen = << >> THEN Down
            ELSE Up(<<IF f.of \in {"string", "bytes"} THEN seen
                      ELSE ValueFromString(CppType(f), seen)>>)
    <3>1. Leaf(f.name, seen).text = seen
      BY DEF Leaf, Element
    <3>2. QED
      BY <1>8, <2>7, <3>1, Zenon DEF ProtobufToObj
  <2>9. \A v : Meaning(f, <<v>>) = Meaning(f, list) <=> v = item
    BY <2>3, Literals, Zenon DEF Meaning
  <2>10. (seen # << >> /\ (IF f.of \in {"string", "bytes"} THEN seen
                           ELSE ValueFromString(CppType(f), seen)) = item)
            <=> ReadsItself(f, list)
    <3>1. CASE f.of = "bytes"
      <4>1. ~ReadsItself(f, list)
        BY <1>8, <3>1, Zenon DEF ReadsItself
      <4>2. text = ConvertToHex(item) /\ item \in Seq(STRING) /\ ToSet(item) \subseteq DOMAIN Hex
        BY <2>1, <2>3, <2>4, <3>1, SingleTextOf, Zenon
      <4>3. seen = << >> \/ seen # item
        BY <2>5, <4>2, HexText, Zenon
      <4>4. f.of \in {"string", "bytes"}
        BY <3>1
      <4>5. QED
        BY <4>1, <4>3, <4>4, Zenon
    <3>2. CASE f.of = "string"
      <4>1. f.of # "double" /\ f.of # "bytes" /\ f.of # "message" /\ f.of \in {"string", "bytes"}
        BY <3>2
      <4>2. ReadsItself(f, list) <=> list # << >> /\ Parsed(list[1]) # << >>
        BY <1>8, <2>1, <3>2, <4>1, Zenon DEF ReadsItself
      <4>3. text = item
        BY <2>1, <2>3, <2>4, <3>2, SingleTextOf, Zenon
      <4>4. CASE list = << >>
        <5>1. CppType(f) \in {"string", "hexBinary"} /\ CppType(f) # "enum"
          BY <3>2, ProtobufTypes
        <5>2. item = << >>
          BY <2>3, <4>4, <5>1, Zenon DEF Default
        <5>3. seen = << >>
          BY <2>5, <4>3, <5>2, Literals, Zenon DEF Parsed
        <5>4. QED
          BY <4>2, <4>4, <5>3, Zenon
      <4>5. CASE list # << >>
        <5>1. seen = << >> \/ seen = item
          BY <2>5, <4>3, Zenon DEF Parsed
        <5>2. ReadsItself(f, list) <=> seen # << >>
          BY <2>3, <2>5, <4>2, <4>3, <4>5, Zenon
        <5>3. QED
          BY <4>1, <5>1, <5>2, Zenon
      <4>6. QED
        BY <4>4, <4>5
    <3>3. CASE f.of \notin {"string", "bytes"}
      <4>1. f.of \in {"bool", "int32", "sint32", "double"} /\ text = ValueToString(CppType(f), item)
        BY <2>1, <2>3, <2>4, <3>3, SingleTextOf, Zenon
      <4>2. /\ seen # << >>
            /\ ValueFromString(CppType(f), seen) = item <=> (f.of = "double" => Len(item) = 1)
        <5>1. /\ text # << >> /\ Parsed(text) = text
              /\ ValueFromString(CppType(f), text) = item <=> (f.of = "double" => Len(item) = 1)
          BY <2>3, <4>1, ProtobufItemBack
        <5>2. QED
          BY <2>5, <5>1, Zenon
      <4>3. ReadsItself(f, list) <=> (f.of = "double" => AllSixDecimals(list))
        <5>1. f.of # "string" /\ f.of # "bytes" /\ f.of # "message"
          BY <1>8, <3>3
        <5>2. QED
          BY <1>8, <2>1, <5>1, Zenon DEF ReadsItself
      <4>4. AllSixDecimals(list) <=> list = << >> \/ Len(item) = 1
        <5>1. CASE list = << >>
          BY <5>1, Literals, Zenon DEF AllSixDecimals
        <5>2. CASE list # << >>
          BY <2>3, <5>2, Zenon DEF AllSixDecimals
        <5>3. QED
          BY <5>1, <5>2
      <4>5. QED
        BY <2>3, <3>3, <4>2, <4>3, <4>4, Zenon
    <3>4. QED
      BY <3>1, <3>2, <3>3
  <2>11. QED
    <3>1. CASE seen = << >>
      BY <2>8, <2>10, <3>1, Outcomes, Zenon
    <3>2. CASE seen # << >>
      <4>1. PICK v : v = IF f.of \in {"string", "bytes"} THEN seen
                         ELSE ValueFromString(CppType(f), seen)
        BY Zenon
      <4>2. r.up /\ r.val = <<v>>
        BY <2>8, <3>2, <4>1, Outcomes, Zenon
      <4>3. v = item <=> ReadsItself(f, list)
        BY <2>10, <3>2, <4>1, Zenon
      <4>4. QED
        BY <1>3, <1>8, <2>9, <4>2, <4>3, Zenon
    <3>3. QED
      BY <3>1, <3>2, Zenon
<1>9. QED
  BY <1>1, <1>5, <1>6, <1>7, <1>8

-----------------------------------------------------------------------------
(* The fields of the class. *)

LEMMA ClassOf ==
    ASSUME class \in Classes
    PROVE  /\ class.native \in BOOLEAN /\ N \in Nat
           /\ class.fields \in Seq(Fields(IF class.native THEN NativeType ELSE ProtobufType))
           /\ \A i \in 1..N : /\ class.fields[i] \in Fields(IF class.native THEN NativeType
                                                         ELSE ProtobufType)
                              /\ class.fields[i].name \in STRING
           /\ \A i, k \in 1..N : class.fields[i].name = class.fields[k].name => i = k
<1>1. /\ class \in [native : BOOLEAN, named : BOOLEAN,
                    fields : Seq(Fields(IF class.native THEN NativeType ELSE ProtobufType))]
      /\ \A i, k \in DOMAIN class.fields :
            class.fields[i].name = class.fields[k].name => i = k
  BY ClassesAssumption
<1>2. PICK F : F = Fields(IF class.native THEN NativeType ELSE ProtobufType)
  BY Zenon
<1>3. \A f \in F : f.name \in STRING
  BY <1>2 DEF Fields
<1>4. class.native \in BOOLEAN /\ class.fields \in Seq(F)
  BY <1>1, <1>2
<1>5. N \in Nat /\ DOMAIN class.fields = 1..N /\ \A i \in 1..N : class.fields[i] \in F
  BY <1>4 DEF N
<1>6. QED
  BY <1>1, <1>2, <1>3, <1>4, <1>5, Zenon

(* The facts about one field on which the properties rest. *)
LEMMA FieldSent ==
    ASSUME class \in Classes, NEW i \in 1..N, NEW list \in Sent(class.fields[i]),
           NEW els, els = Encode(ClassWsdl[i], list)
    PROVE  els \in Seq(Elements) /\ \A m \in 1..Len(els) : els[m].name = class.fields[i].name
<1>1. PICK f : f = class.fields[i]
  BY Zenon
<1>2. PICK w : w = GenerateWsdl(Binding(f))
  BY Zenon
<1>3. ClassWsdl[i] = w
  BY <1>1, <1>2 DEF ClassWsdl
<1>4. els = Encode(w, list)
  BY <1>1, <1>3, Zenon
<1>5. list \in Sent(f)
  BY <1>1, Zenon
<1>6. /\ Encode(w, list) \in Seq(Elements)
      /\ \A m \in 1..Len(Encode(w, list)) : Encode(w, list)[m].name = f.name
  <2> PICK r : r = Taken(f, NewList(f), Parse(Encode(w, list)))
    BY Zenon
  <2>1. CASE class.native
    <3>1. f \in Fields(NativeType)
      BY <1>1, <2>1, ClassOf, Zenon
    <3>2. w = GenerateWsdl(NativeBinding(f))
      BY <1>2, <2>1, Zenon DEF Binding
    <3>3. QED
      BY <1>4, <1>5, <2>1, <3>1, <3>2, NativeRead
  <2>2. CASE ~class.native
    <3>1. f \in Fields(ProtobufType)
      BY <1>1, <2>2, ClassOf, Zenon
    <3>2. w = GenerateWsdl(ProtobufBinding(f))
      BY <1>2, <2>2, Zenon DEF Binding
    <3>3. QED
      BY <1>4, <1>5, <2>2, <3>1, <3>2, ProtobufRead
  <2>3. QED
    BY <2>1, <2>2
<1>7. QED
  BY <1>1, <1>4, <1>6, Zenon

LEMMA FieldRead ==
    ASSUME class \in Classes, NEW i \in 1..N, NEW list \in Sent(class.fields[i]),
           NEW els, els = Encode(ClassWsdl[i], list),
           NEW r, r = Taken(class.fields[i], CreateObject[i], Parse(els))
    PROVE  (r.up /\ Meaning(class.fields[i], r.val) = Meaning(class.fields[i], list))
               <=> Understood(class.fields[i], list)
<1>1. PICK f : f = class.fields[i]
  BY Zenon
<1>2. PICK w : w = GenerateWsdl(Binding(f))
  BY Zenon
<1>3. ClassWsdl[i] = w /\ CreateObject[i] = NewList(f)
  BY <1>1, <1>2 DEF ClassWsdl, CreateObject, NewList
<1>4. els = Encode(w, list) /\ r = Taken(f, NewList(f), Parse(Encode(w, list)))
  BY <1>1, <1>3, Zenon
<1>5. list \in Sent(f)
  BY <1>1, Zenon
<1>6. (r.up /\ Meaning(f, r.val) = Meaning(f, list)) <=> Understood(f, list)
  <2>1. CASE class.native
    <3>1. f \in Fields(NativeType)
      BY <1>1, <2>1, ClassOf, Zenon
    <3>2. w = GenerateWsdl(NativeBinding(f))
      BY <1>2, <2>1, Zenon DEF Binding
    <3>3. QED
      BY <1>4, <1>5, <2>1, <3>1, <3>2, NativeRead
  <2>2. CASE ~class.native
    <3>1. f \in Fields(ProtobufType)
      BY <1>1, <2>2, ClassOf, Zenon
    <3>2. w = GenerateWsdl(ProtobufBinding(f))
      BY <1>2, <2>2, Zenon DEF Binding
    <3>3. QED
      BY <1>4, <1>5, <2>2, <3>1, <3>2, ProtobufRead
  <2>3. QED
    BY <2>1, <2>2
<1>7. QED
  BY <1>1, <1>4, <1>6, Zenon

LEMMA WsdlName ==
    ASSUME class \in Classes, NEW i \in 1..N
    PROVE  ClassWsdl[i].name = class.fields[i].name
<1>1. PICK f : f = class.fields[i]
  BY Zenon
<1>2. PICK w : w = GenerateWsdl(Binding(f))
  BY Zenon
<1>3. ClassWsdl[i] = w
  BY <1>1, <1>2 DEF ClassWsdl
<1>4. w.name = f.name
  <2>1. CASE class.native
    <3>1. f \in Fields(NativeType)
      BY <1>1, <2>1, ClassOf, Zenon
    <3>2. w = GenerateWsdl(NativeBinding(f))
      BY <1>2, <2>1, Zenon DEF Binding
    <3>3. QED
      BY <3>1, <3>2, NativeWsdl, Zenon
  <2>2. CASE ~class.native
    <3>1. f \in Fields(ProtobufType)
      BY <1>1, <2>2, ClassOf, Zenon
    <3>2. w = GenerateWsdl(ProtobufBinding(f))
      BY <1>2, <2>2, Zenon DEF Binding
    <3>3. QED
      BY <3>1, <3>2, ProtobufWsdl, Zenon
  <2>3. QED
    BY <2>1, <2>2
<1>5. QED
  BY <1>1, <1>3, <1>4, Zenon

LEMMA FieldWritten ==
    ASSUME class \in Classes, NEW i \in 1..N, NEW list \in Held(class.fields[i]),
           NEW m, m = ToXml(class.fields[i], list), NEW els
    PROVE  /\ m.val \in Seq(Elements)
           /\ \A k \in DOMAIN m.val : m.val[k].name = class.fields[i].name
           /\ (m.up => Named(els, class.fields[i].name) = m.val) =>
                 (m.up /\ Meaning(class.fields[i], Decode(ClassWsdl[i], els))
                             = Meaning(class.fields[i], list)
                     <=> Written(class.fields[i], list))
<1>1. PICK f : f = class.fields[i]
  BY Zenon
<1>2. PICK w : w = GenerateWsdl(Binding(f))
  BY Zenon
<1>3. ClassWsdl[i] = w
  BY <1>1, <1>2 DEF ClassWsdl
<1>4. w.name = f.name
  BY <1>1, <1>3, WsdlName, Zenon
<1>5. list \in Held(f)
  BY <1>1, Zenon
<1>6. /\ m.val \in Seq(Elements) /\ \A k \in DOMAIN m.val : m.val[k].name = f.name
      /\ (m.up => Named(els, w.name) = m.val) =>
            ((m.up /\ Meaning(f, Decode(w, els)) = Meaning(f, list)) <=> Written(f, list))
  <2>1. CASE class.native
    <3>1. f \in Fields(NativeType)
      BY <1>1, <2>1, ClassOf, Zenon
    <3>2. w = GenerateWsdl(NativeBinding(f)) /\ m = NativeToXml(f, list)
      BY <1>1, <1>2, <2>1, Zenon DEF Binding, ToXml
    <3>3. m.val \in Seq(Elements) /\ \A k \in DOMAIN m.val : m.val[k].name = f.name
      BY <1>5, <2>1, <3>1, <3>2, NativeMessage
    <3>4. QED
      BY <1>5, <2>1, <3>1, <3>2, <3>3, NativeWritten
  <2>2. CASE ~class.native
    <3>1. f \in Fields(ProtobufType)
      BY <1>1, <2>2, ClassOf, Zenon
    <3>2. w = GenerateWsdl(ProtobufBinding(f)) /\ m = ProtobufToXml(f, list)
      BY <1>1, <1>2, <2>2, Zenon DEF Binding, ToXml
    <3>3. m.val \in Seq(Elements) /\ \A k \in DOMAIN m.val : m.val[k].name = f.name
      BY <1>5, <2>2, <3>1, <3>2, ProtobufMessage
    <3>4. QED
      BY <1>5, <2>2, <3>1, <3>2, <3>3, ProtobufWritten
  <2>3. QED
    BY <2>1, <2>2
<1>7. QED
  BY <1>1, <1>3, <1>4, <1>6, Zenon

LEMMA FieldBack ==
    ASSUME class \in Classes, NEW i \in 1..N, NEW list \in Held(class.fields[i]),
           NEW m, m = ToXml(class.fields[i], list),
           NEW r, r = Taken(class.fields[i], CreateObject[i], Parse(m.val))
    PROVE  (m.up /\ r.up /\ Meaning(class.fields[i], r.val) = Meaning(class.fields[i], list))
               <=> ReadsItself(class.fields[i], list)
<1>1. PICK f : f = class.fields[i]
  BY Zenon
<1>2. CreateObject[i] = NewList(f)
  BY <1>1 DEF CreateObject, NewList
<1>3. list \in Held(f) /\ r = Taken(f, NewList(f), Parse(m.val))
  BY <1>1, <1>2, Zenon
<1>4. (m.up /\ r.up /\ Meaning(f, r.val) = Meaning(f, list)) <=> ReadsItself(f, list)
  <2>1. CASE class.native
    <3>1. f \in Fields(NativeType) /\ m = NativeToXml(f, list)
      BY <1>1, <2>1, ClassOf, Zenon DEF ToXml
    <3>2. QED
      BY <1>3, <2>1, <3>1, NativeBack, Zenon
  <2>2. CASE ~class.native
    <3>1. f \in Fields(ProtobufType) /\ m = ProtobufToXml(f, list)
      BY <1>1, <2>2, ClassOf, Zenon DEF ToXml
    <3>2. QED
      BY <1>3, <2>2, <3>1, ProtobufBack, Zenon
  <2>3. QED
    BY <2>1, <2>2
<1>5. QED
  BY <1>1, <1>4, Zenon

-----------------------------------------------------------------------------
(* The class never changes, nor does what is made of it. *)

LEMMA SameClass ==
    ASSUME UNCHANGED class
    PROVE  /\ N' = N /\ AllFields' = AllFields /\ ClassWsdl' = ClassWsdl
           /\ CreateObject' = CreateObject
           /\ \A f : Held(f)' = Held(f) /\ Sent(f)' = Sent(f)
           /\ \A f, list : ToXml(f, list)' = ToXml(f, list)
           /\ \A f, list, els : Taken(f, list, els)' = Taken(f, list, els)
<1>1. N' = N
  BY DEF N
<1>2. AllFields' = AllFields
  BY <1>1 DEF AllFields
<1>3. \A f : Binding(f)' = Binding(f) /\ DefaultOf(f)' = DefaultOf(f)
  BY Zenon DEF Binding, DefaultOf
<1>4. ClassWsdl' = ClassWsdl
  BY <1>1, <1>3, Zenon DEF ClassWsdl
<1>5. CreateObject' = CreateObject
  BY <1>1, <1>3, Zenon DEF CreateObject
<1>6. \A f : Held(f)' = Held(f)
  BY Zenon DEF Held
<1>7. \A f : Sent(f)' = Sent(f)
  BY <1>3, Zenon DEF Sent
<1>8. \A f, list : ToXml(f, list)' = ToXml(f, list)
  BY Zenon DEF ToXml
<1>9. \A f, list, els : Taken(f, list, els)' = Taken(f, list, els)
  BY Zenon DEF Taken, ToObj
<1>10. QED
  BY <1>1, <1>2, <1>4, <1>5, <1>6, <1>7, <1>8, <1>9, Zenon

LEMMA SameWork ==
    ASSUME UNCHANGED class
    PROVE  /\ \A j, k : Message(j, k)' = Message(j, k) /\ Result(j, k)' = Result(j, k)
           /\ \A j : Converts(j)' <=> Converts(j)
<1>1. \A j, k : Message(j, k)' = Message(j, k)
  BY SameClass, Zenon DEF Message
<1>2. \A j, k : Result(j, k)' = Result(j, k)
  BY <1>1, SameClass, Zenon DEF Result
<1>3. \A j, n : WrittenTo(j, n)' <=> WrittenTo(j, n)
  BY <1>1, SameClass, Zenon DEF WrittenTo
<1>4. \A j, n : ReadTo(j, n)' <=> ReadTo(j, n)
  BY <1>1, <1>2, SameClass, Zenon DEF ReadTo
<1>5. \A j : Failed(j)' <=> Failed(j)
  BY <1>1, <1>2, SameClass, Zenon DEF Failed
<1>6. \A j : Converts(j)' <=> Converts(j)
  BY <1>3, <1>4, <1>5, SameClass, Zenon DEF Converts, Place
<1>7. QED
  BY <1>1, <1>2, <1>6, Zenon

-----------------------------------------------------------------------------
(* The steps: what a job becomes. *)

IsJob(r, pc, op, walk, x, i, els, obj) ==
    /\ DOMAIN r = DOMAIN NoJob /\ r.pc = pc /\ r.op = op /\ r.walk = walk /\ r.x = x
    /\ r.i = i /\ r.els = els /\ r.obj = obj

LEMMA JobMoves ==
    ASSUME NEW j, DOMAIN j = DOMAIN NoJob, NEW p, NEW c, NEW walk, NEW els, NEW obj
    PROVE  /\ IsJob(j, j.pc, j.op, j.walk, j.x, j.i, j.els, j.obj)
           /\ IsJob([j EXCEPT !.pc = p], p, j.op, j.walk, j.x, j.i, j.els, j.obj)
           /\ IsJob([j EXCEPT !.pc = p, !.i = c], p, j.op, j.walk, j.x, c, j.els, j.obj)
           /\ IsJob([j EXCEPT !.pc = p, !.walk = walk, !.i = 1],
                    p, j.op, walk, j.x, 1, j.els, j.obj)
           /\ IsJob([j EXCEPT !.i = c, !.els = els],
                    j.pc, j.op, j.walk, j.x, c, els, j.obj)
           /\ IsJob([j EXCEPT !.i = c, !.obj = obj],
                    j.pc, j.op, j.walk, j.x, c, j.els, obj)
           /\ IsJob([j EXCEPT !.els = els, !.obj = obj],
                    j.pc, j.op, j.walk, j.x, j.i, els, obj)
<1>1. DOMAIN j = {"pc", "op", "walk", "x", "i", "els", "obj"}
  BY DEF NoJob
<1>2. QED
  BY <1>1 DEF IsJob

LEMMA NewJob ==
    ASSUME NEW op, NEW x, NEW obj, NEW els
    PROVE  /\ IsJob([NoJob EXCEPT !.op = op, !.x = x, !.obj = obj, !.els = els],
                    "idle", op, "none", x, 0, els, obj)
           /\ IsJob([NoJob EXCEPT !.op = op, !.x = x], "idle", op, "none", x, 0, << >>, << >>)
BY DEF IsJob, NoJob

LEMMA EnteredIs ==
    ASSUME NEW j, NEW pc, NEW op, NEW w, NEW x, NEW i, NEW els, NEW obj,
           IsJob(j, pc, op, w, x, i, els, obj), NEW walk
    PROVE  IsJob(Entered(j, walk), IF class.native THEN "setup" ELSE walk, op, walk, x, 1, els, obj)
<1>1. PICK p : p = IF class.native THEN "setup" ELSE walk
  BY Zenon
<1>2. Entered(j, walk) = [j EXCEPT !.pc = p, !.walk = walk, !.i = 1]
  BY <1>1, Zenon DEF Entered
<1>3. /\ DOMAIN j = DOMAIN NoJob /\ j.op = op /\ j.x = x /\ j.els = els /\ j.obj = obj
  BY DEF IsJob
<1>4. IsJob([j EXCEPT !.pc = p, !.walk = walk, !.i = 1], p, j.op, walk, j.x, 1, j.els, j.obj)
  BY <1>3, JobMoves, Zenon
<1>5. QED
  BY <1>1, <1>2, <1>3, <1>4, Zenon

(* What TypeOK and Walking say of a job. *)
Fits(j) ==
    /\ DOMAIN j = DOMAIN NoJob /\ j.i \in Nat
    /\ j.pc \in {"idle", "setup", "fill", "push", "write", "read", "done", "crashed"}
    /\ j.op \in {"none", "read", "write", "echo", "reply"}
    /\ j.walk \in {"none", "write", "read"}
    /\ j.pc = "idle" <=> j.op = "none"
    /\ j.pc = "setup" => j.i = 1
    /\ j.pc \in {"write", "read"} => j.pc = j.walk /\ j.i > 0
    /\ j.walk \in IF j.op \in {"none", "read", "write"} THEN {j.op}
                  ELSE IF j.pc = "done" THEN {"read"} ELSE {"write", "read"}

LEMMA JobsFit ==
    ASSUME TypeOK, Walking
    PROVE  \A t \in Thread : Fits(job[t])
BY Zenon DEF TypeOK, Walking, Fits

LEMMA GoesTo ==
    ASSUME TypeOK, NEW t \in Thread, NEW rec, Goes(t, rec)
    PROVE  /\ DOMAIN job' = Thread /\ job'[t] = rec
           /\ \A u \in Thread \ {t} : job'[u] = job[u]
BY DEF TypeOK, Goes

LEMMA FitsStep ==
    ASSUME TypeOK, Walking, UNCHANGED class, NEW t \in Thread, NEW rec, Goes(t, rec), Fits(rec),
           fields' \in Seq(1..N), raced' \in BOOLEAN, up' \in BOOLEAN
    PROVE  TypeOK' /\ Walking'
<1>1. /\ DOMAIN job' = Thread /\ job'[t] = rec
      /\ \A u \in Thread \ {t} : job'[u] = job[u]
  BY GoesTo, Zenon
<1>2. \A u \in Thread : Fits(job'[u])
  BY <1>1, JobsFit
<1>3. fields' \in Seq(1..N') /\ class' \in Classes
  BY SameClass DEF TypeOK
<1>4. TypeOK'
  BY <1>1, <1>2, <1>3, Zenon DEF TypeOK, Fits
<1>5. Walking'
  BY <1>2, Zenon DEF Walking, Fits
<1>6. QED
  BY <1>4, <1>5

LEMMA ConvertsStep ==
    ASSUME TypeOK, FieldByField, UNCHANGED class, NEW t \in Thread, NEW rec, Goes(t, rec),
           raced => raced', raced' \/ (rec.op # "none" => Converts(rec))
    PROVE  FieldByField'
<1>1. job'[t] = rec /\ \A u \in Thread \ {t} : job'[u] = job[u]
  BY GoesTo, Zenon
<1>2. ASSUME ~raced', NEW u \in Thread, job'[u].op # "none" PROVE Converts(job[u])'
  <2>1. Converts(job'[u])
    BY <1>1, <1>2 DEF FieldByField
  <2>2. QED
    BY <2>1, SameWork
<1>3. QED
  BY <1>2 DEF FieldByField

LEMMA SomeFields ==
    ASSUME class \in Classes
    PROVE  /\ AllFields \in Seq(1..N) /\ Len(AllFields) = N /\ N \in Nat
           /\ \A i \in 1..N : AllFields[i] = i
           /\ SubSeq(AllFields, 1, 1 - 1) = << >> /\ SubSeq(AllFields, 1, N) = AllFields
           /\ \A i \in 1..N : /\ Len(SubSeq(AllFields, 1, i - 1)) = i - 1
                              /\ Append(SubSeq(AllFields, 1, i - 1), i)
                                    = SubSeq(AllFields, 1, (i + 1) - 1)
           /\ AllFields = << >> <=> N = 0
<1>1. N \in Nat
  BY ClassOf, Zenon
<1>2. AllFields \in Seq(1..N) /\ Len(AllFields) = N /\ \A i \in 1..N : AllFields[i] = i
  BY <1>1 DEF AllFields
<1>3. SubSeq(AllFields, 1, 1 - 1) = << >> /\ SubSeq(AllFields, 1, N) = AllFields
  BY <1>1, <1>2
<1>4. ASSUME NEW i \in 1..N
      PROVE  /\ Len(SubSeq(AllFields, 1, i - 1)) = i - 1
             /\ Append(SubSeq(AllFields, 1, i - 1), i) = SubSeq(AllFields, 1, (i + 1) - 1)
  <2>1. PICK n \in Nat : n = i - 1 /\ n + 1 = i /\ n <= N /\ i <= N
    BY <1>1
  <2>2. SubSeq(AllFields, 1, n) = [k \in 1..n |-> k] /\ SubSeq(AllFields, 1, i) = [k \in 1..i |-> k]
    BY <1>1, <1>2, <2>1 DEF AllFields
  <2>3. Append([k \in 1..n |-> k], i) = [k \in 1..i |-> k] /\ Len([k \in 1..n |-> k]) = n
    BY <2>1
  <2>4. i - 1 = n /\ (i + 1) - 1 = i
    BY <2>1
  <2>5. QED
    BY <2>2, <2>3, <2>4, Zenon
<1>5. AllFields = << >> <=> N = 0
  BY <1>1, <1>2
<1>6. QED
  BY <1>1, <1>2, <1>3, <1>4, <1>5, Zenon

(* A step of a thread that neither is nor begins to be in SetupFields'     *)
(* loop.                                                                   *)
LEMMA QuietStep ==
    ASSUME TypeOK, FilledByOne, WholeUnlessRaced, UNCHANGED <<class, fields, raced>>,
           NEW t \in Thread, NEW rec, Goes(t, rec), ~Filling(t), rec.pc \notin {"fill", "push"},
           rec.pc = "setup" => class.native,
           rec.pc \in {"write", "read"} => raced \/ fields = AllFields
    PROVE  FilledByOne' /\ WholeUnlessRaced'
<1>1. job'[t] = rec /\ \A u \in Thread \ {t} : job'[u] = job[u]
  BY GoesTo, Zenon
<1>2. /\ class' = class /\ fields' = fields /\ raced' = raced
      /\ N' = N /\ AllFields' = AllFields
  BY SameClass
<1>3. \A u \in Thread : /\ Filling(u)' <=> Filling(u)
                        /\ Pushing(u)' <=> Pushing(u)
                        /\ Filling(u) => job'[u] = job[u]
  BY <1>1 DEF Filling, Pushing
<1>4. ~class.native => \A u \in Thread : job'[u].pc # "setup" /\ ~Filling(u)'
  BY <1>1, <1>3 DEF FilledByOne
<1>5. \A u \in Thread : Filling(u)' => job'[u].i \in 1..IF Pushing(u)' THEN N ELSE N + 1
  BY <1>3 DEF FilledByOne
<1>6. ~raced => /\ \A u \in Thread : Filling(u)' =>
                      /\ fields = SubSeq(AllFields, 1, job'[u].i - 1)
                      /\ \A v \in Thread \ {u} : ~Filling(v)'
                /\ (\A u \in Thread : ~Filling(u)') => fields \in {<< >>, AllFields}
  BY <1>3 DEF FilledByOne
<1>7. FilledByOne'
  BY <1>2, <1>4, <1>5, <1>6 DEF FilledByOne
<1>8. WholeUnlessRaced'
  BY <1>1, <1>2 DEF WholeUnlessRaced
<1>9. QED
  BY <1>7, <1>8

LEMMA MessageTyped ==
    ASSUME class \in Classes, NEW i \in 1..N, NEW list \in Held(class.fields[i]),
           NEW m, m = ToXml(class.fields[i], list)
    PROVE  m.val \in Seq(Elements) /\ \A k \in 1..Len(m.val) : m.val[k].name = class.fields[i].name
<1>1. PICK f : f = class.fields[i] /\ list \in Held(f)
  BY Zenon
<1>2. m.val \in Seq(Elements) /\ \A k \in DOMAIN m.val : m.val[k].name = f.name
  <2>1. CASE class.native
    <3>1. f \in Fields(NativeType) /\ m = NativeToXml(f, list)
      BY <1>1, <2>1, ClassOf, Zenon DEF ToXml
    <3>2. QED
      BY <1>1, <2>1, <3>1, NativeMessage
  <2>2. CASE ~class.native
    <3>1. f \in Fields(ProtobufType) /\ m = ProtobufToXml(f, list)
      BY <1>1, <2>2, ClassOf, Zenon DEF ToXml
    <3>2. QED
      BY <1>1, <2>2, <3>1, ProtobufMessage
  <2>3. QED
    BY <2>1, <2>2
<1>3. PICK val \in Seq(Elements) : val = m.val
  BY <1>2, Zenon
<1>4. DOMAIN val = 1..Len(val)
  BY <1>3
<1>5. QED
  BY <1>1, <1>2, <1>3, <1>4, Zenon

LEMMA Relocates ==
    ASSUME NEW j, NEW rec, Converts(j), rec.op = j.op, rec.walk = j.walk, rec.x = j.x,
           rec.els = j.els, rec.obj = j.obj, j.pc # "crashed", rec.pc # "crashed",
           Place(rec) = Place(j)
    PROVE  Converts(rec)
<1>1. \A k \in 1..N : Message(rec, k) = Message(j, k) /\ Result(rec, k) = Result(j, k)
  BY Zenon DEF Message, Result
<1>2. \A n : WrittenTo(j, n) => WrittenTo(rec, n)
  BY <1>1, Zenon DEF WrittenTo
<1>3. \A n : ReadTo(j, n) => ReadTo(rec, n)
  BY <1>1, Zenon DEF ReadTo
<1>4. QED
  BY <1>2, <1>3, Zenon DEF Converts

LEMMA StepHolds ==
    ASSUME HelperInv, UNCHANGED <<class, fields, raced>>, up' \in BOOLEAN,
           NEW t \in Thread, NEW rec, Goes(t, rec), Fits(rec), ~Filling(t),
           rec.pc \notin {"fill", "push"}, rec.pc = "setup" => class.native,
           rec.pc \in {"write", "read"} => raced \/ fields = AllFields,
           raced \/ Converts(rec)
    PROVE  HelperInv'
<1>1. TypeOK /\ Walking /\ FilledByOne /\ WholeUnlessRaced /\ FieldByField
  BY DEF HelperInv
<1>2. TypeOK' /\ Walking'
  BY <1>1, FitsStep DEF TypeOK
<1>3. FilledByOne' /\ WholeUnlessRaced'
  BY <1>1, QuietStep
<1>4. FieldByField'
  BY <1>1, ConvertsStep
<1>5. QED
  BY <1>2, <1>3, <1>4 DEF HelperInv

LEMMA WriteStep ==
    ASSUME HelperInv, NEW t \in Thread, Write(t)
    PROVE  HelperInv'
<1>1. TypeOK /\ WholeUnlessRaced /\ class \in Classes
  BY DEF HelperInv, TypeOK
<1>2. PICK x \in [1..N -> UNION {Held(class.fields[i]) : i \in 1..N}],
           op \in {"write", "echo", "reply"} :
         /\ \A i \in 1..N : x[i] \in Held(class.fields[i])
         /\ Goes(t, Entered([NoJob EXCEPT !.op = op, !.x = x], "write"))
  BY DEF Write
<1>3. /\ UNCHANGED <<class, fields, raced, up>> /\ ~raced /\ job[t].pc \in {"idle", "done"}
  BY DEF Write, Free
<1>4. PICK rec : rec = Entered([NoJob EXCEPT !.op = op, !.x = x], "write")
  BY Zenon
<1>5. Goes(t, rec)
  BY <1>2, <1>4, Zenon
<1>6. PICK p : p = IF class.native THEN "setup" ELSE "write"
  BY Zenon
<1>7. IsJob(rec, p, op, "write", x, 1, << >>, << >>)
  <2>1. PICK j : j = [NoJob EXCEPT !.op = op, !.x = x]
    BY Zenon
  <2>2. IsJob(j, "idle", op, "none", x, 0, << >>, << >>)
    BY <2>1, NewJob, Zenon
  <2>3. QED
    BY <1>4, <1>6, <2>1, <2>2, EnteredIs
<1>8. Fits(rec)
  BY <1>6, <1>7 DEF IsJob, Fits
<1>9. ~Filling(t) /\ rec.pc \notin {"fill", "push"} /\ (rec.pc = "setup" => class.native)
  BY <1>3, <1>6, <1>7 DEF IsJob, Filling
<1>10. rec.pc \in {"write", "read"} => fields = AllFields
  BY <1>1, <1>6, <1>7 DEF IsJob, WholeUnlessRaced
<1>11. Converts(rec)
  <2>1. /\ rec.op = op /\ rec.walk = "write" /\ rec.x = x /\ rec.i = 1 /\ rec.els = << >>
        /\ rec.pc \in {"setup", "write"} /\ rec.op # "read"
    BY <1>6, <1>7 DEF IsJob
  <2>2. Place(rec) = 1
    BY <2>1 DEF Place
  <2>3. << >> \in Seq(Elements) /\ \A k \in 1..N : ~(k < 1)
    BY <1>1, ClassOf
  <2>4. \A name : Named(<< >>, name) = << >>
    <3>1. ASSUME NEW name PROVE Named(<< >>, name) = << >>
      <4>1. PICK none \in Seq(Elements) : none = << >>
        BY <2>3
      <4>2. \A i \in 1..Len(none) : none[i].name # name
        BY <4>1
      <4>3. QED
        BY <4>1, <4>2, NamedNone
    <3>2. QED
      BY <3>1
  <2>5. WrittenTo(rec, 1)
    BY <2>1, <2>3, <2>4, Zenon DEF WrittenTo
  <2>6. DOMAIN x = 1..N /\ rec.pc # "crashed"
    BY <2>1
  <2>7. QED
    BY <1>2, <2>1, <2>2, <2>5, <2>6, Zenon DEF Converts
<1>12. QED
  BY <1>1, <1>3, <1>5, <1>8, <1>9, <1>10, <1>11, StepHolds DEF TypeOK

(* A walk that no race disturbs. *)
LEMMA Undisturbed ==
    ASSUME HelperInv, ~raced, NEW t \in Thread
    PROVE  /\ job[t].pc \in {"write", "read"} => fields = AllFields /\ Len(fields) = N
           /\ job[t].op # "none" => Converts(job[t])
           /\ \A u \in Thread : Pushing(u) => Len(fields) < N
<1>1. TypeOK /\ FilledByOne /\ WholeUnlessRaced /\ FieldByField /\ class \in Classes
  BY DEF HelperInv, TypeOK
<1>2. Len(AllFields) = N /\ N \in Nat
  BY <1>1, SomeFields
<1>3. job[t].pc \in {"write", "read"} => fields = AllFields
  BY <1>1 DEF WholeUnlessRaced
<1>4. ASSUME NEW u \in Thread, Pushing(u) PROVE Len(fields) < N
  <2>1. Filling(u)
    BY <1>4 DEF Filling, Pushing
  <2>2. job[u].i \in 1..N /\ fields = SubSeq(AllFields, 1, job[u].i - 1)
    BY <1>1, <1>4, <2>1 DEF FilledByOne
  <2>3. Len(fields) = job[u].i - 1
    BY <1>1, <2>2, SomeFields
  <2>4. QED
    BY <1>2, <2>2, <2>3
<1>5. QED
  BY <1>1, <1>2, <1>3, <1>4 DEF FieldByField

LEMMA MovedStep ==
    ASSUME HelperInv, NEW t \in Thread, Moved(t)
    PROVE  HelperInv'
<1>1. /\ job[t].pc \in {"write", "read"} /\ UNCHANGED <<class, fields, raced>> /\ up' = FALSE
      /\ \E u \in Thread \ {t} : Pushing(u)
      /\ Goes(t, [job[t] EXCEPT !.pc = "crashed"])
  BY DEF Moved, Crash
<1>2. raced
  BY <1>1, Undisturbed
<1>3. PICK rec : rec = [job[t] EXCEPT !.pc = "crashed"]
  BY Zenon
<1>4. Fits(job[t])
  BY JobsFit DEF HelperInv
<1>5. /\ DOMAIN job[t] = DOMAIN NoJob
      /\ IsJob(rec, "crashed", job[t].op, job[t].walk, job[t].x, job[t].i, job[t].els, job[t].obj)
  BY <1>3, <1>4, JobMoves DEF Fits
<1>6. Fits(rec) /\ rec.pc = "crashed"
  BY <1>1, <1>4, <1>5 DEF IsJob, Fits
<1>7. ~Filling(t)
  BY <1>1 DEF Filling
<1>8. QED
  BY <1>1, <1>2, <1>3, <1>6, <1>7, StepHolds

LEMMA ReadStep ==
    ASSUME HelperInv, NEW t \in Thread, Read(t)
    PROVE  HelperInv'
<1>1. TypeOK /\ Walking /\ FilledByOne /\ WholeUnlessRaced /\ FieldByField /\ class \in Classes
  BY DEF HelperInv, TypeOK
<1>2. PICK x \in [1..N -> UNION {Sent(class.fields[i]) : i \in 1..N}] :
         /\ \A i \in 1..N : x[i] \in Sent(class.fields[i])
         /\ Goes(t, Entered([NoJob EXCEPT !.op = "read", !.x = x, !.obj = CreateObject,
                                          !.els = Parse(FlattenSeq(Asked(x)))], "read"))
  BY DEF Read
<1>3. /\ UNCHANGED <<class, fields, raced, up>> /\ ~raced /\ job[t].pc \in {"idle", "done"}
  BY DEF Read, Free
<1>4. PICK els : els = Parse(FlattenSeq(Asked(x)))
  BY Zenon
<1>5. PICK rec : rec = Entered([NoJob EXCEPT !.op = "read", !.x = x, !.obj = CreateObject,
                                             !.els = els], "read")
  BY Zenon
<1>6. Goes(t, rec)
  BY <1>2, <1>4, <1>5, Zenon
<1>7. PICK p : p = IF class.native THEN "setup" ELSE "read"
  BY Zenon
<1>8. IsJob(rec, p, "read", "read", x, 1, els, CreateObject)
  <2>1. PICK j : j = [NoJob EXCEPT !.op = "read", !.x = x, !.obj = CreateObject, !.els = els]
    BY Zenon
  <2>2. IsJob(j, "idle", "read", "none", x, 0, els, CreateObject)
    BY <2>1, NewJob, Zenon
  <2>3. QED
    BY <1>5, <1>7, <2>1, <2>2, EnteredIs
<1>9. Fits(rec)
  BY <1>7, <1>8 DEF IsJob, Fits
<1>10. TypeOK' /\ Walking'
  BY <1>1, <1>3, <1>6, <1>9, FitsStep DEF TypeOK
<1>11. FilledByOne' /\ WholeUnlessRaced'
  <2>1. ~Filling(t)
    BY <1>3 DEF Filling
  <2>2. rec.pc \notin {"fill", "push"} /\ (rec.pc = "setup" => class.native)
    BY <1>7, <1>8 DEF IsJob
  <2>3. rec.pc \in {"write", "read"} => fields = AllFields
    BY <1>1, <1>7, <1>8 DEF IsJob, WholeUnlessRaced
  <2>4. QED
    BY <1>1, <1>3, <1>6, <2>1, <2>2, <2>3, QuietStep
<1>12. Converts(rec)
  <2>1. /\ rec.op = "read" /\ rec.walk = "read" /\ rec.x = x /\ rec.i = 1 /\ rec.els = els
        /\ rec.obj = CreateObject /\ rec.pc \in {"setup", "read"}
    BY <1>7, <1>8 DEF IsJob
  <2>2. Place(rec) = 1
    BY <2>1 DEF Place
  <2>3. PICK seqs : seqs = Asked(x)
    BY Zenon
  <2>4. N \in Nat /\ \A k \in 1..N : seqs[k] = Encode(ClassWsdl[k], x[k])
    BY <1>1, <2>3, ClassOf DEF Asked
  <2>5. \A k \in 1..N : /\ seqs[k] \in Seq(Elements)
                        /\ \A m \in 1..Len(seqs[k]) : seqs[k][m].name = class.fields[k].name
    <3>1. ASSUME NEW k \in 1..N
          PROVE  /\ seqs[k] \in Seq(Elements)
                 /\ \A m \in 1..Len(seqs[k]) : seqs[k][m].name = class.fields[k].name
      <4>1. x[k] \in Sent(class.fields[k]) /\ seqs[k] = Encode(ClassWsdl[k], x[k])
        BY <1>2, <2>4, Zenon
      <4>2. QED
        BY <1>1, <4>1, FieldSent, Zenon
    <3>2. QED
      BY <3>1, Zenon
  <2>6. seqs \in Seq(Seq(Elements)) /\ Len(seqs) = N
    <3> PICK S : S = Seq(Elements)
      BY Zenon
    <3>1. PICK n \in Nat : n = N
      BY <2>4
    <3>2. seqs = [k \in 1..n |-> seqs[k]] /\ \A k \in 1..n : seqs[k] \in S
      BY <2>3, <2>5, <3>1 DEF Asked
    <3>3. seqs \in Seq(S) /\ Len(seqs) = n
      BY <3>2
    <3>4. QED
      BY <3>1, <3>3, Zenon
  <2>7. PICK names : \A k \in 1..N : names[k] = class.fields[k].name
    <3>1. \A k \in 1..N : [i \in 1..N |-> class.fields[i].name][k] = class.fields[k].name
      OBVIOUS
    <3>2. QED
      BY <3>1, Zenon
  <2>8. /\ FlattenSeq(seqs) \in Seq(Elements)
        /\ \A k \in 1..N : Named(FlattenSeq(seqs), names[k]) = seqs[k]
    <3>1. \A i, k \in 1..Len(seqs) : names[i] = names[k] => i = k
      BY <1>1, <2>6, <2>7, ClassOf, Zenon
    <3>2. \A k \in 1..Len(seqs) : \A m \in 1..Len(seqs[k]) : seqs[k][m].name = names[k]
      BY <2>5, <2>6, <2>7, Zenon
    <3>3. PICK s \in Seq(Seq(Elements)) : s = seqs
      BY <2>6, Zenon
    <3>4. ByName(s, names)
      BY <3>1, <3>2, <3>3, Zenon DEF ByName
    <3>5. Gathers(FlattenSeq(s), s, names, Elements)
      BY <3>3, <3>4, FlattenNamed, Zenon
    <3>6. QED
      BY <2>6, <3>3, <3>5, Zenon DEF Gathers
  <2>9. \A k \in 1..N : Named(els, class.fields[k].name) = Parse(seqs[k])
    <3>1. ASSUME NEW k \in 1..N PROVE Named(els, class.fields[k].name) = Parse(seqs[k])
      <4>1. PICK flat \in Seq(Elements) : flat = FlattenSeq(seqs) /\ els = Parse(flat)
        BY <1>4, <2>3, <2>8, Zenon
      <4>2. Named(Parse(flat), names[k]) = Parse(Named(flat, names[k]))
        BY NamedParse
      <4>3. QED
        BY <2>7, <2>8, <4>1, <4>2, Zenon
    <3>2. QED
      BY <3>1
  <2>10. \A k \in 1..N : Message(rec, k).up /\ Message(rec, k).val = seqs[k]
    BY <2>1, <2>4, Outcomes, Zenon DEF Message
  <2>11. \A k \in 1..N : ~(k < 1)
    BY <2>4
  <2>12. DOMAIN CreateObject = 1..N /\ DOMAIN x = 1..N
    BY DEF CreateObject
  <2>13. ReadTo(rec, 1)
    BY <2>1, <2>9, <2>10, <2>11, <2>12, Zenon DEF ReadTo
  <2>14. rec.pc # "crashed" /\ rec.walk # "write"
    BY <2>1
  <2>15. QED
    BY <1>2, <2>1, <2>2, <2>12, <2>13, <2>14, Zenon DEF Converts
<1>13. FieldByField'
  BY <1>1, <1>3, <1>6, <1>12, ConvertsStep
<1>14. QED
  BY <1>10, <1>11, <1>13 DEF HelperInv

(* The steps of SetupFields: the operation has not passed a field yet. *)
LEMMA PreparingStep ==
    ASSUME HelperInv, UNCHANGED class, fields' \in Seq(1..N), up' \in BOOLEAN,
           NEW t \in Thread, NEW rec, Goes(t, rec), Fits(rec),
           raced' \in BOOLEAN, raced => raced',
           raced' \/ (/\ job[t].pc \in {"setup", "fill", "push"}
                      /\ rec.pc \in {"fill", "push", "write", "read"}
                      /\ rec.pc \in {"write", "read"} => rec.i = 1
                      /\ rec.op = job[t].op /\ rec.walk = job[t].walk /\ rec.x = job[t].x
                      /\ rec.els = job[t].els /\ rec.obj = job[t].obj)
    PROVE  TypeOK' /\ Walking' /\ FieldByField'
<1>1. TypeOK /\ Walking /\ FieldByField
  BY DEF HelperInv
<1>2. TypeOK' /\ Walking'
  BY <1>1, FitsStep DEF TypeOK
<1>3. ASSUME ~raced', rec.op # "none" PROVE Converts(rec)
  <2>1. /\ job[t].pc \in {"setup", "fill", "push"} /\ job[t].pc # "crashed"
        /\ rec.pc # "crashed" /\ rec.pc # "done"
    BY <1>3
  <2>2. Place(job[t]) = 1 /\ Place(rec) = 1
    BY <1>3, <2>1 DEF Place
  <2>3. Converts(job[t])
    BY <1>1, <1>3 DEF FieldByField
  <2>4. QED
    BY <1>3, <2>1, <2>2, <2>3, Relocates
<1>4. FieldByField'
  BY <1>1, <1>3, ConvertsStep
<1>5. QED
  BY <1>2, <1>4

LEMMA SetupFieldsStep ==
    ASSUME HelperInv, NEW t \in Thread, SetupFields(t)
    PROVE  HelperInv'
<1>1. TypeOK /\ Walking /\ FilledByOne /\ WholeUnlessRaced /\ class \in Classes
  BY DEF HelperInv, TypeOK
<1>2. /\ job[t].pc = "setup" /\ UNCHANGED <<class, fields, up>>
      /\ raced' = (raced \/ \E u \in Thread \ {t} : Filling(u))
      /\ Goes(t, IF fields # << >> THEN Walk(job[t]) ELSE [job[t] EXCEPT !.pc = "fill"])
  BY DEF SetupFields
<1>3. PICK rec : rec = IF fields # << >> THEN Walk(job[t]) ELSE [job[t] EXCEPT !.pc = "fill"]
  BY Zenon
<1>4. Goes(t, rec)
  BY <1>2, <1>3, Zenon
<1>5. Fits(job[t]) /\ DOMAIN job[t] = DOMAIN NoJob
  BY <1>1, JobsFit DEF Fits
<1>6. PICK p : p = IF fields # << >> THEN job[t].walk ELSE "fill"
  BY Zenon
<1>7. IsJob(rec, p, job[t].op, job[t].walk, job[t].x, 1, job[t].els, job[t].obj)
  <2>1. job[t].i = 1
    BY <1>2, <1>5 DEF Fits
  <2>2. QED
    BY <1>3, <1>5, <1>6, <2>1, JobMoves, Zenon DEF Walk
<1>8. job[t].op # "none" /\ job[t].walk \in {"write", "read"}
  BY <1>2, <1>5 DEF Fits
<1>9. /\ Fits(rec) /\ rec.i = 1 /\ rec.pc \in {"fill", "write", "read"}
      /\ rec.op = job[t].op /\ rec.walk = job[t].walk /\ rec.x = job[t].x
      /\ rec.els = job[t].els /\ rec.obj = job[t].obj
      /\ rec.pc = "fill" <=> fields = << >>
  BY <1>2, <1>5, <1>6, <1>7, <1>8 DEF IsJob, Fits
<1>10. raced' \in BOOLEAN /\ (raced => raced') /\ fields' \in Seq(1..N) /\ up' \in BOOLEAN
  BY <1>1, <1>2 DEF TypeOK
<1>11. TypeOK' /\ Walking' /\ FieldByField'
  BY <1>2, <1>4, <1>9, <1>10, PreparingStep
<1>12. job'[t] = rec /\ \A u \in Thread \ {t} : job'[u] = job[u]
  BY <1>1, <1>4, GoesTo, Zenon
<1>13. class.native
  BY <1>1, <1>2 DEF FilledByOne
<1>14. class' = class /\ fields' = fields /\ N' = N /\ AllFields' = AllFields
  BY <1>2, SameClass
<1>15. ~raced' => fields \in {<< >>, AllFields} /\ \A u \in Thread : ~Filling(u)
  BY <1>1, <1>2 DEF FilledByOne, Filling
<1>16. /\ \A u \in Thread \ {t} : (Filling(u)' <=> Filling(u)) /\ (Pushing(u)' <=> Pushing(u))
       /\ Filling(t)' <=> fields = << >>
       /\ ~Pushing(t)'
  BY <1>9, <1>12 DEF Filling, Pushing
<1>17. WholeUnlessRaced'
  BY <1>1, <1>2, <1>9, <1>12, <1>13, <1>14, <1>15 DEF WholeUnlessRaced
<1>18. FilledByOne'
  <2>1. N \in Nat /\ SubSeq(AllFields, 1, 1 - 1) = << >>
    BY <1>1, SomeFields
  <2>2. \A u \in Thread : Filling(u)' => job'[u].i \in 1..IF Pushing(u)' THEN N ELSE N + 1
    BY <1>1, <1>9, <1>12, <1>16, <2>1 DEF FilledByOne
  <2>3. ~raced' => /\ \A u \in Thread : Filling(u)' =>
                         /\ fields = SubSeq(AllFields, 1, job'[u].i - 1)
                         /\ \A v \in Thread \ {u} : ~Filling(v)'
                   /\ (\A u \in Thread : ~Filling(u)') => fields \in {<< >>, AllFields}
    <3>1. \A u \in Thread : ~raced' /\ Filling(u)' => u = t /\ fields = << >>
      BY <1>15, <1>16, Zenon
    <3>2. QED
      BY <1>9, <1>12, <1>15, <2>1, <3>1
  <2>4. QED
    BY <1>13, <1>14, <2>2, <2>3 DEF FilledByOne
<1>19. QED
  BY <1>11, <1>17, <1>18 DEF HelperInv

LEMMA BeginPushStep ==
    ASSUME HelperInv, NEW t \in Thread, BeginPush(t)
    PROVE  HelperInv'
<1>1. TypeOK /\ Walking /\ FilledByOne /\ WholeUnlessRaced /\ class \in Classes
  BY DEF HelperInv, TypeOK
<1>2. /\ job[t].pc = "fill" /\ job[t].i <= N /\ UNCHANGED <<class, fields, raced, up>>
      /\ Goes(t, [job[t] EXCEPT !.pc = "push"])
  BY DEF BeginPush
<1>3. PICK rec : rec = [job[t] EXCEPT !.pc = "push"]
  BY Zenon
<1>4. Goes(t, rec)
  BY <1>2, <1>3, Zenon
<1>5. Fits(job[t]) /\ DOMAIN job[t] = DOMAIN NoJob
  BY <1>1, JobsFit DEF Fits
<1>6. IsJob(rec, "push", job[t].op, job[t].walk, job[t].x, job[t].i, job[t].els, job[t].obj)
  BY <1>3, <1>5, JobMoves, Zenon
<1>7. /\ Fits(rec) /\ rec.i = job[t].i /\ rec.pc = "push"
      /\ rec.op = job[t].op /\ rec.walk = job[t].walk /\ rec.x = job[t].x
      /\ rec.els = job[t].els /\ rec.obj = job[t].obj
  BY <1>2, <1>5, <1>6 DEF IsJob, Fits
<1>8. raced' \in BOOLEAN /\ (raced => raced') /\ fields' \in Seq(1..N) /\ up' \in BOOLEAN
  BY <1>1, <1>2 DEF TypeOK
<1>9. TypeOK' /\ Walking' /\ FieldByField'
  BY <1>2, <1>4, <1>7, <1>8, PreparingStep
<1>10. job'[t] = rec /\ \A u \in Thread \ {t} : job'[u] = job[u]
  BY <1>1, <1>4, GoesTo, Zenon
<1>11. /\ class' = class /\ fields' = fields /\ raced' = raced
       /\ N' = N /\ AllFields' = AllFields
  BY <1>2, SameClass
<1>12. /\ \A u \in Thread : (Filling(u)' <=> Filling(u)) /\ job'[u].i = job[u].i
       /\ \A u \in Thread \ {t} : Pushing(u)' <=> Pushing(u)
       /\ Filling(t)
  BY <1>2, <1>7, <1>10 DEF Filling, Pushing
<1>13. class.native
  BY <1>1, <1>12 DEF FilledByOne
<1>14. WholeUnlessRaced'
  BY <1>1, <1>7, <1>10, <1>11 DEF WholeUnlessRaced
<1>15. FilledByOne'
  <2>1. \A u \in Thread : Filling(u)' => job'[u].i \in 1..IF Pushing(u)' THEN N ELSE N + 1
    <3>1. ASSUME NEW u \in Thread, Filling(u)'
          PROVE  job'[u].i \in 1..IF Pushing(u)' THEN N ELSE N + 1
      <4>1. N \in Nat /\ job[u].i \in 1..IF Pushing(u) THEN N ELSE N + 1
        BY <1>1, <1>12, <3>1, ClassOf DEF FilledByOne
      <4>2. CASE u = t
        BY <1>2, <1>12, <4>1, <4>2
      <4>3. CASE u # t
        BY <1>12, <4>1, <4>3
      <4>4. QED
        BY <4>2, <4>3
    <3>2. QED
      BY <3>1
  <2>2. ~raced' => /\ \A u \in Thread : Filling(u)' =>
                         /\ fields = SubSeq(AllFields, 1, job'[u].i - 1)
                         /\ \A v \in Thread \ {u} : ~Filling(v)'
                   /\ (\A u \in Thread : ~Filling(u)') => fields \in {<< >>, AllFields}
    BY <1>1, <1>11, <1>12, Zenon DEF FilledByOne
  <2>3. QED
    BY <1>11, <1>13, <2>1, <2>2 DEF FilledByOne
<1>16. QED
  BY <1>9, <1>14, <1>15 DEF HelperInv

LEMMA EndPushStep ==
    ASSUME HelperInv, NEW t \in Thread, EndPush(t)
    PROVE  HelperInv'
<1>1. TypeOK /\ Walking /\ FilledByOne /\ WholeUnlessRaced /\ class \in Classes
  BY DEF HelperInv, TypeOK
<1>2. Pushing(t) /\ UNCHANGED <<class, raced>>
  BY DEF EndPush
<1>3. Filling(t) /\ job[t].pc = "push" /\ class.native /\ job[t].i \in 1..N /\ N \in Nat
  <2>1. Filling(t) /\ job[t].pc = "push"
    BY <1>2 DEF Filling, Pushing
  <2>2. QED
    BY <1>1, <1>2, <2>1, ClassOf DEF FilledByOne
<1>4. Fits(job[t]) /\ DOMAIN job[t] = DOMAIN NoJob
  BY <1>1, JobsFit DEF Fits
<1>5. PICK c \in Nat : c = job[t].i + 1 /\ c \in 1..N + 1
  BY <1>3
<1>6. PICK rec : /\ \/ rec = [job[t] EXCEPT !.pc = "fill", !.i = c]
                    \/ raced /\ rec = [job[t] EXCEPT !.pc = "crashed"]
                 /\ Goes(t, rec) /\ up' \in BOOLEAN
                 /\ fields' = Append(fields, job[t].i) \/ (raced /\ fields' = fields)
  <2>1. up' \in BOOLEAN
    BY <1>1 DEF TypeOK, EndPush, Crash
  <2>2. (\E u \in Thread \ {t} : Pushing(u)) => raced
    BY <1>1, <1>3 DEF FilledByOne, Filling, Pushing
  <2>3. [job[t] EXCEPT !.pc = "fill", !.i = @ + 1] = [job[t] EXCEPT !.pc = "fill", !.i = c]
    BY <1>5, Zenon
  <2>4. \/ /\ fields' = Append(fields, job[t].i)
           /\ Goes(t, [job[t] EXCEPT !.pc = "fill", !.i = c])
        \/ /\ raced /\ fields' = fields
           /\ \/ Goes(t, [job[t] EXCEPT !.pc = "fill", !.i = c])
              \/ Goes(t, [job[t] EXCEPT !.pc = "crashed"])
    BY <2>2, <2>3, Zenon DEF EndPush, Crash
  <2>5. QED
    BY <2>1, <2>4, Zenon
<1>7. /\ Fits(rec) /\ rec.pc \in {"fill", "crashed"}
      /\ rec.pc = "fill" => rec.i = c
      /\ ~raced => /\ rec.pc = "fill" /\ rec.op = job[t].op /\ rec.walk = job[t].walk
                   /\ rec.x = job[t].x /\ rec.els = job[t].els /\ rec.obj = job[t].obj
  <2>1. CASE rec = [job[t] EXCEPT !.pc = "fill", !.i = c]
    <3>1. IsJob(rec, "fill", job[t].op, job[t].walk, job[t].x, c, job[t].els, job[t].obj)
      BY <1>4, <2>1, JobMoves, Zenon
    <3>2. QED
      BY <1>3, <1>4, <1>5, <3>1 DEF IsJob, Fits
  <2>2. CASE raced /\ rec = [job[t] EXCEPT !.pc = "crashed"]
    <3>1. IsJob(rec, "crashed", job[t].op, job[t].walk, job[t].x, job[t].i,
                job[t].els, job[t].obj)
      BY <1>4, <2>2, JobMoves, Zenon
    <3>2. QED
      BY <1>3, <1>4, <2>2, <3>1 DEF IsJob, Fits
  <2>3. QED
    BY <1>6, <2>1, <2>2
<1>8. raced' \in BOOLEAN /\ (raced => raced') /\ fields' \in Seq(1..N)
  <2>1. raced' = raced /\ raced \in BOOLEAN /\ fields \in Seq(1..N)
    BY <1>1, <1>2 DEF TypeOK
  <2>2. PICK S : S = 1..N
    BY Zenon
  <2>3. Append(fields, job[t].i) \in Seq(S)
    BY <1>3, <2>1, <2>2
  <2>4. QED
    BY <1>6, <2>1, <2>2, <2>3, Zenon
<1>9. TypeOK' /\ Walking' /\ FieldByField'
  BY <1>2, <1>3, <1>6, <1>7, <1>8, PreparingStep
<1>10. job'[t] = rec /\ \A u \in Thread \ {t} : job'[u] = job[u]
  BY <1>1, <1>6, GoesTo, Zenon
<1>11. /\ class' = class /\ raced' = raced /\ N' = N /\ AllFields' = AllFields
  BY <1>2, SameClass
<1>12. /\ \A u \in Thread \ {t} : /\ (Filling(u)' <=> Filling(u)) /\ (Pushing(u)' <=> Pushing(u))
                                  /\ job'[u].i = job[u].i
       /\ ~Pushing(t)' /\ (Filling(t)' <=> rec.pc = "fill")
  BY <1>7, <1>10 DEF Filling, Pushing
<1>13. ASSUME ~raced
       PROVE  /\ fields' = SubSeq(AllFields, 1, c - 1)
              /\ \A u \in Thread \ {t} : ~Filling(u) /\ job[u].pc \notin {"write", "read"}
  <2>1. /\ fields = SubSeq(AllFields, 1, job[t].i - 1) /\ fields' = Append(fields, job[t].i)
        /\ \A u \in Thread \ {t} : ~Filling(u)
    BY <1>1, <1>3, <1>6, <1>13 DEF FilledByOne
  <2>2. /\ Append(SubSeq(AllFields, 1, job[t].i - 1), job[t].i)
              = SubSeq(AllFields, 1, (job[t].i + 1) - 1)
        /\ Len(SubSeq(AllFields, 1, job[t].i - 1)) = job[t].i - 1 /\ Len(AllFields) = N
    BY <1>1, <1>3, SomeFields
  <2>3. fields # AllFields
    <3>1. PICK n \in Nat : n = Len(fields) /\ n < N
      BY <1>3, <2>1, <2>2
    <3>2. QED
      BY <1>3, <2>2, <3>1
  <2>4. \A u \in Thread : job[u].pc \notin {"write", "read"}
    BY <1>1, <1>13, <2>3 DEF WholeUnlessRaced
  <2>5. QED
    BY <1>5, <2>1, <2>2, <2>4, Zenon
<1>14. WholeUnlessRaced'
  BY <1>3, <1>7, <1>10, <1>11, <1>13 DEF WholeUnlessRaced
<1>15. FilledByOne'
  <2>1. \A u \in Thread : Filling(u)' => job'[u].i \in 1..IF Pushing(u)' THEN N ELSE N + 1
    BY <1>1, <1>5, <1>7, <1>10, <1>12 DEF FilledByOne
  <2>2. ~raced' => /\ \A u \in Thread : Filling(u)' =>
                         /\ fields' = SubSeq(AllFields, 1, job'[u].i - 1)
                         /\ \A v \in Thread \ {u} : ~Filling(v)'
                   /\ (\A u \in Thread : ~Filling(u)') => fields' \in {<< >>, AllFields}
    <3>1. ASSUME ~raced
          PROVE  /\ Filling(t)' /\ job'[t].i = c /\ fields' = SubSeq(AllFields, 1, c - 1)
                 /\ \A u \in Thread \ {t} : ~Filling(u)'
      BY <1>7, <1>10, <1>12, <1>13, <3>1
    <3>2. QED
      BY <1>11, <3>1, Zenon
  <2>3. QED
    BY <1>3, <1>11, <2>1, <2>2 DEF FilledByOne
<1>16. QED
  BY <1>9, <1>14, <1>15 DEF HelperInv

LEMMA EndSetupStep ==
    ASSUME HelperInv, NEW t \in Thread, EndSetup(t)
    PROVE  HelperInv'
<1>1. TypeOK /\ Walking /\ FilledByOne /\ WholeUnlessRaced /\ class \in Classes
  BY DEF HelperInv, TypeOK
<1>2. /\ job[t].pc = "fill" /\ job[t].i > N /\ UNCHANGED <<class, fields, raced, up>>
      /\ Goes(t, Walk(job[t]))
  BY DEF EndSetup
<1>3. PICK rec : rec = Walk(job[t])
  BY Zenon
<1>4. Goes(t, rec)
  BY <1>2, <1>3, Zenon
<1>5. Fits(job[t]) /\ DOMAIN job[t] = DOMAIN NoJob
  BY <1>1, JobsFit DEF Fits
<1>6. IsJob(rec, job[t].walk, job[t].op, job[t].walk, job[t].x, 1, job[t].els, job[t].obj)
  BY <1>3, <1>5, JobMoves, Zenon DEF Walk
<1>7. job[t].op # "none" /\ job[t].walk \in {"write", "read"}
  BY <1>2, <1>5 DEF Fits
<1>8. /\ Fits(rec) /\ rec.i = 1 /\ rec.pc \in {"write", "read"}
      /\ rec.op = job[t].op /\ rec.walk = job[t].walk /\ rec.x = job[t].x
      /\ rec.els = job[t].els /\ rec.obj = job[t].obj
  BY <1>2, <1>5, <1>6, <1>7 DEF IsJob, Fits
<1>9. raced' \in BOOLEAN /\ (raced => raced') /\ fields' \in Seq(1..N) /\ up' \in BOOLEAN
  BY <1>1, <1>2 DEF TypeOK
<1>10. TypeOK' /\ Walking' /\ FieldByField'
  BY <1>2, <1>4, <1>8, <1>9, PreparingStep
<1>11. job'[t] = rec /\ \A u \in Thread \ {t} : job'[u] = job[u]
  BY <1>1, <1>4, GoesTo, Zenon
<1>12. /\ class' = class /\ fields' = fields /\ raced' = raced
       /\ N' = N /\ AllFields' = AllFields
  BY <1>2, SameClass
<1>13. /\ \A u \in Thread \ {t} : /\ (Filling(u)' <=> Filling(u)) /\ (Pushing(u)' <=> Pushing(u))
                                  /\ job'[u].i = job[u].i
       /\ Filling(t) /\ ~Pushing(t) /\ ~Filling(t)'
  BY <1>2, <1>8, <1>11 DEF Filling, Pushing
<1>14. class.native
  BY <1>1, <1>13 DEF FilledByOne
<1>15. ~raced => fields = AllFields /\ \A u \in Thread : ~Filling(u)'
  <2>1. N \in Nat /\ job[t].i \in 1..N + 1
    BY <1>1, <1>13, ClassOf DEF FilledByOne
  <2>2. job[t].i - 1 = N
    BY <1>2, <2>1
  <2>3. SubSeq(AllFields, 1, N) = AllFields
    BY <1>1, SomeFields, Zenon
  <2>4. ~raced => fields = SubSeq(AllFields, 1, job[t].i - 1)
                  /\ \A u \in Thread \ {t} : ~Filling(u)
    BY <1>1, <1>13, Zenon DEF FilledByOne
  <2>5. QED
    BY <1>13, <2>2, <2>3, <2>4, Zenon
<1>16. WholeUnlessRaced'
  BY <1>1, <1>11, <1>12, <1>14, <1>15 DEF WholeUnlessRaced
<1>17. FilledByOne'
  <2>1. \A u \in Thread : Filling(u)' => job'[u].i \in 1..IF Pushing(u)' THEN N ELSE N + 1
    BY <1>1, <1>13 DEF FilledByOne
  <2>2. QED
    BY <1>12, <1>14, <1>15, <2>1 DEF FilledByOne
<1>18. QED
  BY <1>10, <1>16, <1>17 DEF HelperInv

LEMMA WriteFieldStep ==
    ASSUME HelperInv, NEW t \in Thread, WriteField(t)
    PROVE  HelperInv'
<1>1. TypeOK /\ WholeUnlessRaced /\ class \in Classes
  BY DEF HelperInv, TypeOK
<1>2. /\ job[t].pc = "write" /\ job[t].i <= Len(fields) /\ UNCHANGED <<class, fields, raced>>
  BY DEF WriteField
<1>3. PICK r : r = ToXml(class.fields[At(t)], job[t].x[At(t)])
  BY Zenon
<1>4. PICK c : c = job[t].i + 1
  BY Zenon
<1>5. PICK els : els = job[t].els \o r.val
  BY Zenon
<1>6. PICK rec : /\ rec = IF r.up THEN [job[t] EXCEPT !.i = c, !.els = els]
                          ELSE [job[t] EXCEPT !.pc = "crashed"]
                 /\ Goes(t, rec) /\ up' \in BOOLEAN
  <2>1. [job[t] EXCEPT !.i = @ + 1, !.els = @ \o r.val] = [job[t] EXCEPT !.i = c, !.els = els]
    BY <1>4, <1>5, Zenon
  <2>2. IF r.up THEN Goes(t, [job[t] EXCEPT !.i = c, !.els = els]) /\ up' = up
        ELSE up' = FALSE /\ Goes(t, [job[t] EXCEPT !.pc = "crashed"])
    BY <1>3, <2>1, Zenon DEF WriteField, Crash
  <2>3. up \in BOOLEAN
    BY <1>1 DEF TypeOK
  <2>4. CASE r.up
    BY <2>2, <2>3, <2>4, Zenon
  <2>5. CASE ~r.up
    BY <2>2, <2>5, Zenon
  <2>6. QED
    BY <2>4, <2>5
<1>7. Fits(job[t]) /\ DOMAIN job[t] = DOMAIN NoJob /\ job[t].i \in Nat /\ job[t].i > 0
  BY <1>1, <1>2, JobsFit DEF Fits, HelperInv
<1>8. /\ job[t].op \in {"write", "echo", "reply"} /\ job[t].op # "none" /\ job[t].op # "read"
      /\ job[t].walk = "write"
  BY <1>2, <1>7 DEF Fits
<1>9. /\ r.up => IsJob(rec, "write", job[t].op, "write", job[t].x, c, els, job[t].obj)
      /\ ~r.up => IsJob(rec, "crashed", job[t].op, "write", job[t].x, job[t].i,
                        job[t].els, job[t].obj)
  <2>1. PICK j : j = job[t]
    BY Zenon
  <2>2. DOMAIN j = DOMAIN NoJob /\ j.pc = "write" /\ j.walk = "write"
    BY <1>2, <1>7, <1>8, <2>1, Zenon
  <2>3. IsJob([j EXCEPT !.i = c, !.els = els], j.pc, j.op, j.walk, j.x, c, els, j.obj)
    BY <2>2, JobMoves, Zenon
  <2>4. IsJob([j EXCEPT !.pc = "crashed"], "crashed", j.op, j.walk, j.x, j.i, j.els, j.obj)
    BY <2>2, JobMoves, Zenon
  <2>5. CASE r.up
    BY <1>6, <2>1, <2>2, <2>3, <2>5, Zenon
  <2>6. CASE ~r.up
    BY <1>6, <2>1, <2>2, <2>4, <2>6, Zenon
  <2>7. QED
    BY <2>5, <2>6
<1>10. Fits(rec) /\ rec.pc \in {"write", "crashed"}
  <2>1. CASE r.up
    BY <1>4, <1>7, <1>8, <1>9, <2>1 DEF IsJob, Fits
  <2>2. CASE ~r.up
    BY <1>7, <1>8, <1>9, <2>2 DEF IsJob, Fits
  <2>3. QED
    BY <2>1, <2>2
<1>11. ~Filling(t)
  BY <1>2 DEF Filling
<1>12. raced \/ fields = AllFields
  BY <1>1, <1>2 DEF WholeUnlessRaced
<1>13. ASSUME ~raced PROVE Converts(rec)
  <2>1. PICK i \in 1..N : i = job[t].i /\ At(t) = i /\ c = i + 1
    <3>1. fields = AllFields /\ Len(AllFields) = N /\ N \in Nat
      BY <1>1, <1>12, <1>13, SomeFields
    <3>2. job[t].i \in 1..N
      BY <1>2, <1>7, <3>1
    <3>3. fields[job[t].i] = job[t].i
      BY <1>1, <3>1, <3>2, SomeFields, Zenon
    <3>4. QED
      BY <1>4, <3>2, <3>3 DEF At
  <2>2. PICK j : j = job[t] /\ Converts(j)
    BY <1>8, <1>13, Undisturbed
  <2>3. /\ j.op \in {"write", "echo", "reply"} /\ j.op # "read" /\ j.walk = "write"
        /\ j.pc = "write" /\ j.i = i
    BY <1>2, <1>8, <2>1, <2>2
  <2>4. Place(j) = i /\ j.pc # "crashed"
    BY <2>3 DEF Place
  <2>5. /\ DOMAIN j.x = 1..N /\ \A k \in 1..N : j.x[k] \in Held(class.fields[k])
        /\ WrittenTo(j, i)
    BY <2>2, <2>3, <2>4, Zenon DEF Converts
  <2>6. r = ToXml(class.fields[i], j.x[i]) /\ r = Message(j, i)
    BY <1>3, <2>1, <2>2, <2>3, Zenon DEF Message
  <2>7. /\ rec.op = j.op /\ rec.walk = "write" /\ rec.x = j.x
        /\ \A k : Message(rec, k) = Message(j, k)
    <3>1. rec.op = j.op /\ rec.walk = "write" /\ rec.x = j.x
      BY <1>9, <2>2, Zenon DEF IsJob
    <3>2. QED
      BY <3>1, Zenon DEF Message
  <2>8. CASE ~r.up
    <3>1. rec.pc = "crashed"
      BY <1>9, <2>8, Zenon DEF IsJob
    <3>2. Failed(rec)
      BY <2>6, <2>7, <2>8, Zenon DEF Failed
    <3>3. QED
      BY <2>3, <2>5, <2>7, <3>1, <3>2, Zenon DEF Converts
  <2>9. CASE r.up
    <3>1. rec.pc = "write" /\ rec.pc # "crashed" /\ rec.els = els /\ rec.i = i + 1
      BY <1>9, <2>1, <2>9 DEF IsJob
    <3>2. Place(rec) = i + 1
      BY <3>1 DEF Place
    <3>3. PICK m \in Seq(Elements) :
             m = r.val /\ \A k \in 1..Len(m) : m[k].name = class.fields[i].name
      BY <1>1, <2>5, <2>6, MessageTyped
    <3>4. PICK a \in Seq(Elements) : a = j.els /\ els = a \o m
      BY <1>5, <2>2, <2>5, <3>3, Zenon DEF WrittenTo
    <3>5. els \in Seq(Elements)
      BY <3>4
    <3>6. \A name : Named(els, name) = Named(a, name) \o Named(m, name)
      <4>1. ASSUME NEW name PROVE Named(els, name) = Named(a, name) \o Named(m, name)
        <5>1. IsConcat(Named(a \o m, name), Named(a, name), Named(m, name))
          BY NamedConcat, Zenon
        <5>2. QED
          BY <3>4, <5>1, Zenon DEF IsConcat
      <4>2. QED
        BY <4>1, Zenon
    <3>7. ASSUME NEW k \in 1..N
          PROVE  IF k < i + 1
                 THEN /\ Message(rec, k).up
                      /\ Named(els, class.fields[k].name) = Message(rec, k).val
                 ELSE Named(els, class.fields[k].name) = << >>
      <4>1. CASE k = i
        <5>1. Named(m, class.fields[i].name) = m
          BY <3>3, NamedAll, Zenon
        <5>2. ~(i < i)
          BY <2>1
        <5>3. Named(a, class.fields[i].name) = << >>
          BY <2>5, <3>4, <5>2, Zenon DEF WrittenTo
        <5>4. Named(els, class.fields[i].name) = m
          <6>1. << >> \o m = m
            BY <3>3
          <6>2. QED
            BY <3>6, <5>1, <5>3, <6>1, Zenon
        <5>5. k < i + 1
          BY <4>1, <2>1
        <5>6. QED
          BY <2>6, <2>7, <2>9, <3>3, <4>1, <5>4, <5>5, Zenon
      <4>2. CASE k # i
        <5>1. class.fields[k].name # class.fields[i].name
          BY <1>1, <4>2, ClassOf, Zenon
        <5>2. Named(m, class.fields[k].name) = << >>
          BY <3>3, <5>1, NamedNone, Zenon
        <5>3. PICK own \in Seq(Elements) : own = Named(a, class.fields[k].name)
          BY <3>4, NamedType, Zenon
        <5>4. Named(els, class.fields[k].name) = Named(a, class.fields[k].name)
          <6>1. own \o << >> = own
            BY <5>3
          <6>2. QED
            BY <3>6, <5>2, <5>3, <6>1, Zenon
        <5>5. k < i + 1 <=> k < i
          BY <1>1, <4>2, <2>1, ClassOf
        <5>6. QED
          BY <2>5, <2>7, <3>4, <5>4, <5>5, Zenon DEF WrittenTo
      <4>3. QED
        BY <4>1, <4>2
    <3>8. WrittenTo(rec, i + 1)
      BY <3>1, <3>5, <3>7, Zenon DEF WrittenTo
    <3>9. QED
      BY <2>3, <2>5, <2>7, <3>1, <3>2, <3>8, Zenon DEF Converts
  <2>10. QED
    BY <2>8, <2>9
<1>14. rec.pc \notin {"fill", "push"} /\ rec.pc # "setup"
  BY <1>10
<1>15. QED
  BY <1>2, <1>6, <1>10, <1>11, <1>12, <1>13, <1>14, StepHolds

LEMMA EndWriteStep ==
    ASSUME HelperInv, NEW t \in Thread, EndWrite(t)
    PROVE  HelperInv'
<1>1. TypeOK /\ WholeUnlessRaced /\ class \in Classes
  BY DEF HelperInv, TypeOK
<1>2. /\ job[t].pc = "write" /\ job[t].i > Len(fields) /\ UNCHANGED <<class, fields, raced>>
  BY DEF EndWrite
<1>3. Fits(job[t]) /\ DOMAIN job[t] = DOMAIN NoJob /\ job[t].i \in Nat
  BY <1>1, JobsFit DEF Fits, HelperInv
<1>4. /\ job[t].op \in {"write", "echo", "reply"} /\ job[t].op # "none" /\ job[t].op # "read"
      /\ job[t].walk = "write"
  BY <1>2, <1>3 DEF Fits
<1>5. PICK j : j = job[t] /\ DOMAIN j = DOMAIN NoJob
  BY <1>3, Zenon
<1>6. up' \in BOOLEAN /\ \E rec : /\ Goes(t, rec)
                 /\ \/ j.op = "write" /\ rec = [j EXCEPT !.pc = "done"]
                    \/ /\ j.op = "echo"
                       /\ rec = Entered([j EXCEPT !.els = Parse(j.els),
                                                 !.obj = CreateObject], "read")
                    \/ j.op = "reply" /\ rec = [j EXCEPT !.pc = "crashed"]
                    \/ /\ j.op = "reply"
                       /\ \E els : rec = Entered([j EXCEPT !.els = els,
                                                           !.obj = CreateObject], "read")
  <2>1. up \in BOOLEAN
    BY <1>1 DEF TypeOK
  <2>2. CASE j.op = "write"
    <3>1. Goes(t, [job[t] EXCEPT !.pc = "done"]) /\ UNCHANGED up
      BY <1>5, <2>2 DEF EndWrite
    <3>2. QED
      BY <1>5, <2>1, <2>2, <3>1, Zenon
  <2>3. CASE j.op = "echo"
    <3>1. Arrives(t, Parse(job[t].els))
      BY <1>5, <2>3 DEF EndWrite
    <3>2. QED
      BY <1>5, <2>1, <2>3, <3>1, Zenon DEF Arrives
  <2>4. CASE j.op = "reply"
    <3>1. OnProtobufResponse(t, Parse(job[t].els))
      BY <1>5, <2>4 DEF EndWrite
    <3>2. \/ up' = FALSE /\ Goes(t, [job[t] EXCEPT !.pc = "crashed"])
          \/ \E els : /\ Goes(t, Entered([job[t] EXCEPT !.els = els, !.obj = CreateObject], "read"))
                      /\ UNCHANGED up
      BY <3>1, Zenon DEF OnProtobufResponse, Crash, Arrives
    <3>3. QED
      BY <1>5, <2>1, <2>4, <3>2, Zenon
  <2>5. QED
    BY <1>4, <1>5, <2>2, <2>3, <2>4
<1>7. PICK rec : /\ Goes(t, rec)
                 /\ \/ j.op = "write" /\ rec = [j EXCEPT !.pc = "done"]
                    \/ /\ j.op = "echo"
                       /\ rec = Entered([j EXCEPT !.els = Parse(j.els),
                                                 !.obj = CreateObject], "read")
                    \/ j.op = "reply" /\ rec = [j EXCEPT !.pc = "crashed"]
                    \/ /\ j.op = "reply"
                       /\ \E els : rec = Entered([j EXCEPT !.els = els,
                                                           !.obj = CreateObject], "read")
  BY <1>6, Zenon
<1>8. PICK p : p = IF class.native THEN "setup" ELSE "read"
  BY Zenon
<1>9. ASSUME NEW els
      PROVE  IsJob(Entered([j EXCEPT !.els = els, !.obj = CreateObject], "read"),
                   p, j.op, "read", j.x, 1, els, CreateObject)
  <2>1. PICK m : m = [j EXCEPT !.els = els, !.obj = CreateObject]
    BY Zenon
  <2>2. IsJob(m, j.pc, j.op, j.walk, j.x, j.i, els, CreateObject)
    BY <1>5, <2>1, JobMoves, Zenon
  <2>3. QED
    BY <1>8, <2>1, <2>2, EnteredIs
<1>10. \/ j.op = "write" /\ IsJob(rec, "done", j.op, "write", j.x, j.i, j.els, j.obj)
       \/ j.op = "echo" /\ IsJob(rec, p, j.op, "read", j.x, 1, Parse(j.els), CreateObject)
       \/ j.op = "reply" /\ IsJob(rec, "crashed", j.op, "write", j.x, j.i, j.els, j.obj)
       \/ j.op = "reply" /\ \E els : IsJob(rec, p, j.op, "read", j.x, 1, els, CreateObject)
  <2>1. j.walk = "write"
    BY <1>4, <1>5, Zenon
  <2>2. /\ IsJob([j EXCEPT !.pc = "done"], "done", j.op, "write", j.x, j.i, j.els, j.obj)
        /\ IsJob([j EXCEPT !.pc = "crashed"], "crashed", j.op, "write", j.x, j.i, j.els, j.obj)
    BY <1>5, <2>1, JobMoves, Zenon
  <2>3. QED
    BY <1>7, <1>9, <2>2, Zenon
<1>11. /\ Fits(rec) /\ rec.pc \notin {"fill", "push"} /\ (rec.pc = "setup" => class.native)
  BY <1>3, <1>5, <1>8, <1>10 DEF IsJob, Fits
<1>12. ~Filling(t)
  BY <1>2 DEF Filling
<1>13. raced \/ fields = AllFields
  BY <1>1, <1>2 DEF WholeUnlessRaced
<1>14. ASSUME ~raced PROVE Converts(rec)
  <2>1. N \in Nat /\ j.i \in Nat /\ j.i > N
    BY <1>1, <1>2, <1>3, <1>5, <1>13, <1>14, SomeFields
  <2>2. Converts(j) /\ j.pc = "write" /\ j.pc # "crashed" /\ j.walk = "write" /\ j.op # "read"
    BY <1>2, <1>4, <1>5, <1>14, Undisturbed
  <2>3. Place(j) = j.i
    BY <2>2 DEF Place
  <2>4. /\ DOMAIN j.x = 1..N /\ \A k \in 1..N : j.x[k] \in Held(class.fields[k])
        /\ WrittenTo(j, j.i)
    BY <2>2, <2>3, Zenon DEF Converts
  <2>5. \A k \in 1..N : k < j.i /\ k < N + 1 /\ ~(k < 1)
    BY <2>1
  <2>6. rec.op = j.op /\ rec.x = j.x
    BY <1>10, Zenon DEF IsJob
  <2>7. \A k : Message(rec, k) = Message(j, k)
    BY <2>6, Zenon DEF Message
  <2>8. CASE j.op = "write"
    <3>1. rec.pc = "done" /\ rec.walk = "write" /\ rec.els = j.els /\ rec.pc # "crashed"
      BY <1>10, <2>8 DEF IsJob
    <3>2. Place(rec) = N + 1
      BY <3>1 DEF Place
    <3>3. WrittenTo(rec, N + 1)
      BY <2>4, <2>5, <2>7, <3>1, Zenon DEF WrittenTo
    <3>4. QED
      BY <2>2, <2>4, <2>6, <3>1, <3>2, <3>3, Zenon DEF Converts
  <2>9. CASE j.op = "echo"
    <3>1. /\ rec.pc \in {"setup", "read"} /\ rec.walk = "read" /\ rec.els = Parse(j.els)
          /\ rec.obj = CreateObject /\ rec.i = 1 /\ rec.pc # "crashed" /\ rec.walk # "write"
      BY <1>8, <1>10, <2>9 DEF IsJob
    <3>2. Place(rec) = 1
      BY <3>1 DEF Place
    <3>3. PICK mine \in Seq(Elements) : mine = j.els
      BY <2>4, Zenon DEF WrittenTo
    <3>4. \A name : Named(Parse(mine), name) = Parse(Named(mine, name))
      BY NamedParse
    <3>5. DOMAIN CreateObject = 1..N
      BY DEF CreateObject
    <3>6. ReadTo(rec, 1)
      BY <2>4, <2>5, <2>7, <3>1, <3>3, <3>4, <3>5, Zenon DEF WrittenTo, ReadTo
    <3>7. QED
      BY <2>2, <2>4, <2>6, <3>1, <3>2, <3>6, Zenon DEF Converts
  <2>10. CASE j.op = "reply"
    <3>1. rec.pc = "crashed" \/ (rec.walk = "read" /\ rec.walk # "write")
      BY <1>10, <2>10 DEF IsJob
    <3>2. QED
      BY <2>2, <2>4, <2>6, <2>10, <3>1, Zenon DEF Converts
  <2>11. QED
    BY <1>10, <2>8, <2>9, <2>10, Zenon
<1>15. QED
  BY <1>2, <1>6, <1>7, <1>11, <1>12, <1>13, <1>14, StepHolds

LEMMA ReadFieldStep ==
    ASSUME HelperInv, NEW t \in Thread, ReadField(t)
    PROVE  HelperInv'
<1>1. TypeOK /\ WholeUnlessRaced /\ class \in Classes
  BY DEF HelperInv, TypeOK
<1>2. /\ job[t].pc = "read" /\ job[t].i <= Len(fields) /\ UNCHANGED <<class, fields, raced>>
  BY DEF ReadField
<1>3. PICK r : r = Taken(class.fields[At(t)], job[t].obj[At(t)],
                         Named(job[t].els, class.fields[At(t)].name))
  BY Zenon
<1>4. PICK c : c = job[t].i + 1
  BY Zenon
<1>5. PICK obj : obj = [job[t].obj EXCEPT ![At(t)] = r.val]
  BY Zenon
<1>6. PICK rec : /\ rec = IF r.up THEN [job[t] EXCEPT !.i = c, !.obj = obj]
                          ELSE [job[t] EXCEPT !.pc = "crashed"]
                 /\ Goes(t, rec) /\ up' \in BOOLEAN
  <2>1. [job[t] EXCEPT !.i = @ + 1, !.obj[At(t)] = r.val] = [job[t] EXCEPT !.i = c, !.obj = obj]
    BY <1>4, <1>5, Zenon
  <2>2. IF r.up THEN Goes(t, [job[t] EXCEPT !.i = c, !.obj = obj]) /\ up' = up
        ELSE up' = FALSE /\ Goes(t, [job[t] EXCEPT !.pc = "crashed"])
    BY <1>3, <2>1, Zenon DEF ReadField, Crash
  <2>3. up \in BOOLEAN
    BY <1>1 DEF TypeOK
  <2>4. CASE r.up
    BY <2>2, <2>3, <2>4, Zenon
  <2>5. CASE ~r.up
    BY <2>2, <2>5, Zenon
  <2>6. QED
    BY <2>4, <2>5
<1>7. Fits(job[t]) /\ DOMAIN job[t] = DOMAIN NoJob /\ job[t].i \in Nat /\ job[t].i > 0
  BY <1>1, <1>2, JobsFit DEF Fits, HelperInv
<1>8. /\ job[t].op \in {"read", "echo", "reply"} /\ job[t].op # "none" /\ job[t].op # "write"
      /\ job[t].walk = "read" /\ job[t].walk # "write"
  BY <1>2, <1>7 DEF Fits
<1>9. /\ r.up => IsJob(rec, "read", job[t].op, "read", job[t].x, c, job[t].els, obj)
      /\ ~r.up => IsJob(rec, "crashed", job[t].op, "read", job[t].x, job[t].i,
                        job[t].els, job[t].obj)
  <2>1. PICK j : j = job[t]
    BY Zenon
  <2>2. DOMAIN j = DOMAIN NoJob /\ j.pc = "read" /\ j.walk = "read"
    BY <1>2, <1>7, <1>8, <2>1, Zenon
  <2>3. IsJob([j EXCEPT !.i = c, !.obj = obj], j.pc, j.op, j.walk, j.x, c, j.els, obj)
    BY <2>2, JobMoves, Zenon
  <2>4. IsJob([j EXCEPT !.pc = "crashed"], "crashed", j.op, j.walk, j.x, j.i, j.els, j.obj)
    BY <2>2, JobMoves, Zenon
  <2>5. CASE r.up
    BY <1>6, <2>1, <2>2, <2>3, <2>5, Zenon
  <2>6. CASE ~r.up
    BY <1>6, <2>1, <2>2, <2>4, <2>6, Zenon
  <2>7. QED
    BY <2>5, <2>6
<1>10. Fits(rec) /\ rec.pc \in {"read", "crashed"}
  <2>1. CASE r.up
    BY <1>4, <1>7, <1>8, <1>9, <2>1 DEF IsJob, Fits
  <2>2. CASE ~r.up
    BY <1>7, <1>8, <1>9, <2>2 DEF IsJob, Fits
  <2>3. QED
    BY <2>1, <2>2
<1>11. ~Filling(t)
  BY <1>2 DEF Filling
<1>12. raced \/ fields = AllFields
  BY <1>1, <1>2 DEF WholeUnlessRaced
<1>13. ASSUME ~raced PROVE Converts(rec)
  <2>1. PICK i \in 1..N : i = job[t].i /\ At(t) = i /\ c = i + 1
    <3>1. fields = AllFields /\ Len(AllFields) = N /\ N \in Nat
      BY <1>1, <1>12, <1>13, SomeFields
    <3>2. job[t].i \in 1..N
      BY <1>2, <1>7, <3>1
    <3>3. fields[job[t].i] = job[t].i
      BY <1>1, <3>1, <3>2, SomeFields, Zenon
    <3>4. QED
      BY <1>4, <3>2, <3>3 DEF At
  <2>2. PICK j : j = job[t] /\ Converts(j)
    BY <1>8, <1>13, Undisturbed
  <2>3. /\ j.op \in {"read", "echo", "reply"} /\ j.op # "write" /\ j.walk = "read"
        /\ j.walk # "write" /\ j.pc = "read" /\ j.i = i
    BY <1>2, <1>8, <2>1, <2>2
  <2>4. Place(j) = i /\ j.pc # "crashed"
    BY <2>3 DEF Place
  <2>5. /\ DOMAIN j.x = 1..N
        /\ \A k \in 1..N : j.x[k] \in IF j.op = "read" THEN Sent(class.fields[k])
                                    ELSE Held(class.fields[k])
        /\ j.op = "reply" \/ ReadTo(j, i)
    BY <2>2, <2>3, <2>4, Zenon DEF Converts
  <2>6. rec.op = j.op /\ rec.walk = "read" /\ rec.walk # "write" /\ rec.x = j.x /\ rec.els = j.els
    BY <1>9, <2>2, <2>3, Zenon DEF IsJob
  <2>7. \A k : Message(rec, k) = Message(j, k) /\ Result(rec, k) = Result(j, k)
    BY <2>6, Zenon DEF Message, Result
  <2>8. CASE j.op = "reply"
    BY <2>2, <2>4, <2>5, <2>6, <2>8, Zenon DEF Converts
  <2>9. CASE j.op # "reply"
    <3>1. ReadTo(j, i) /\ ~(i < i)
      BY <2>1, <2>5, <2>9
    <3>2. /\ j.obj[i] = CreateObject[i] /\ Message(j, i).up
          /\ Named(j.els, class.fields[i].name) = Parse(Message(j, i).val)
      BY <3>1, Zenon DEF ReadTo
    <3>3. r = Result(j, i)
      BY <1>3, <2>1, <2>2, <3>2, Zenon DEF Result
    <3>4. CASE ~r.up
      <4>1. rec.pc = "crashed"
        BY <1>9, <3>4, Zenon DEF IsJob
      <4>2. Failed(rec)
        BY <2>3, <2>6, <2>7, <3>3, <3>4, Zenon DEF Failed
      <4>3. QED
        BY <2>5, <2>6, <4>1, <4>2, Zenon DEF Converts
    <3>5. CASE r.up
      <4>1. rec.pc = "read" /\ rec.pc # "crashed" /\ rec.obj = obj /\ rec.i = i + 1
        BY <1>9, <2>1, <3>5 DEF IsJob
      <4>2. Place(rec) = i + 1
        BY <4>1 DEF Place
      <4>3. /\ DOMAIN obj = 1..N /\ obj[i] = r.val
            /\ \A k \in 1..N : k # i => obj[k] = j.obj[k]
        <5>1. DOMAIN j.obj = 1..N /\ obj = [j.obj EXCEPT ![i] = r.val]
          BY <1>5, <2>1, <2>2, <3>1, Zenon DEF ReadTo
        <5>2. QED
          BY <5>1
      <4>4. \A k \in 1..N : /\ k # i => (k < i + 1 <=> k < i)
                            /\ i < i + 1
        BY <1>1, <2>1, ClassOf
      <4>5. ASSUME NEW k \in 1..N
            PROVE  IF k < i + 1 THEN Result(rec, k).up /\ obj[k] = Result(rec, k).val
                   ELSE obj[k] = CreateObject[k]
        <5>1. CASE k = i
          BY <2>7, <3>3, <3>5, <4>3, <4>4, <5>1, Zenon
        <5>2. CASE k # i
          BY <2>7, <3>1, <4>3, <4>4, <5>2, Zenon DEF ReadTo
        <5>3. QED
          BY <5>1, <5>2
      <4>6. ReadTo(rec, i + 1)
        BY <2>6, <2>7, <3>1, <4>1, <4>3, <4>5, Zenon DEF ReadTo
      <4>7. QED
        BY <2>5, <2>6, <4>1, <4>2, <4>6, Zenon DEF Converts
    <3>6. QED
      BY <3>4, <3>5
  <2>10. QED
    BY <2>8, <2>9
<1>14. rec.pc \notin {"fill", "push"} /\ rec.pc # "setup"
  BY <1>10
<1>15. QED
  BY <1>2, <1>6, <1>10, <1>11, <1>12, <1>13, <1>14, StepHolds

LEMMA EndReadStep ==
    ASSUME HelperInv, NEW t \in Thread, EndRead(t)
    PROVE  HelperInv'
<1>1. TypeOK /\ WholeUnlessRaced /\ class \in Classes
  BY DEF HelperInv, TypeOK
<1>2. /\ job[t].pc = "read" /\ job[t].i > Len(fields) /\ UNCHANGED <<class, fields, raced, up>>
      /\ Goes(t, [job[t] EXCEPT !.pc = "done"])
  BY DEF EndRead
<1>3. PICK j : j = job[t]
  BY Zenon
<1>4. PICK rec : rec = [j EXCEPT !.pc = "done"] /\ Goes(t, rec)
  BY <1>2, <1>3, Zenon
<1>5. Fits(j) /\ DOMAIN j = DOMAIN NoJob /\ j.i \in Nat /\ j.pc = "read"
  BY <1>1, <1>2, <1>3, JobsFit DEF Fits, HelperInv
<1>6. j.op \in {"read", "echo", "reply"} /\ j.op # "none" /\ j.walk = "read" /\ j.walk # "write"
  BY <1>5 DEF Fits
<1>7. IsJob(rec, "done", j.op, "read", j.x, j.i, j.els, j.obj)
  BY <1>4, <1>5, <1>6, JobMoves, Zenon
<1>8. Fits(rec) /\ rec.pc = "done"
  BY <1>5, <1>6, <1>7 DEF IsJob, Fits
<1>9. ~Filling(t)
  BY <1>2 DEF Filling
<1>10. raced \/ fields = AllFields
  BY <1>1, <1>2 DEF WholeUnlessRaced
<1>11. ASSUME ~raced PROVE Converts(rec)
  <2>1. N \in Nat /\ j.i > N
    BY <1>1, <1>2, <1>3, <1>10, <1>11, SomeFields
  <2>2. Converts(j) /\ j.pc # "crashed"
    BY <1>3, <1>5, <1>6, <1>11, Undisturbed
  <2>3. Place(j) = j.i
    BY <1>5 DEF Place
  <2>4. /\ rec.pc = "done" /\ rec.op = j.op /\ rec.walk = "read" /\ rec.walk # "write"
        /\ rec.x = j.x /\ rec.els = j.els /\ rec.obj = j.obj /\ rec.pc # "crashed"
    BY <1>7 DEF IsJob
  <2>5. Place(rec) = N + 1
    BY <2>4 DEF Place
  <2>6. \A k : Message(rec, k) = Message(j, k) /\ Result(rec, k) = Result(j, k)
    BY <2>4, Zenon DEF Message, Result
  <2>7. \A k \in 1..N : k < j.i /\ k < N + 1
    BY <1>5, <2>1
  <2>8. ReadTo(j, j.i) => ReadTo(rec, N + 1)
    BY <2>4, <2>6, <2>7, Zenon DEF ReadTo
  <2>9. QED
    BY <1>6, <2>2, <2>3, <2>4, <2>5, <2>8, Zenon DEF Converts
<1>12. rec.pc \notin {"fill", "push"} /\ rec.pc # "setup" /\ up' \in BOOLEAN
  BY <1>1, <1>2, <1>8 DEF TypeOK
<1>13. QED
  BY <1>2, <1>4, <1>8, <1>9, <1>10, <1>11, <1>12, StepHolds

LEMMA InitHolds ==
    ASSUME Init
    PROVE  HelperInv
<1>1. /\ class \in Classes /\ fields = IF class.native THEN << >> ELSE AllFields
      /\ job = [t \in Thread |-> NoJob] /\ raced = FALSE /\ up = TRUE
  BY DEF Init
<1>2. /\ DOMAIN job = Thread
      /\ \A t \in Thread : /\ DOMAIN job[t] = DOMAIN NoJob /\ job[t].pc = "idle"
                           /\ job[t].op = "none" /\ job[t].walk = "none" /\ job[t].i = 0
  BY <1>1 DEF NoJob
<1>3. fields \in Seq(1..N) /\ fields \in {<< >>, AllFields} /\ (class.native \/ fields = AllFields)
  <2>1. AllFields \in Seq(1..N)
    BY <1>1, SomeFields, Zenon
  <2>2. << >> \in Seq(1..N)
    OBVIOUS
  <2>3. QED
    BY <1>1, <2>1, <2>2, Zenon
<1>4. TypeOK
  <2>1. \A t \in Thread :
          /\ DOMAIN job[t] = DOMAIN NoJob /\ job[t].i \in Nat
          /\ job[t].pc \in {"idle", "setup", "fill", "push", "write", "read", "done", "crashed"}
          /\ job[t].op \in {"none", "read", "write", "echo", "reply"}
          /\ job[t].walk \in {"none", "write", "read"}
    BY <1>2
  <2>2. raced \in BOOLEAN /\ up \in BOOLEAN
    BY <1>1
  <2>3. QED
    BY <1>1, <1>2, <1>3, <2>1, <2>2, Zenon DEF TypeOK
<1>5. Walking
  BY <1>2 DEF Walking
<1>6. FilledByOne
  BY <1>2, <1>3 DEF FilledByOne, Filling
<1>7. WholeUnlessRaced
  BY <1>2, <1>3 DEF WholeUnlessRaced
<1>8. FieldByField
  BY <1>2 DEF FieldByField
<1>9. QED
  BY <1>4, <1>5, <1>6, <1>7, <1>8 DEF HelperInv

LEMMA NoStep ==
    ASSUME HelperInv, UNCHANGED vars
    PROVE  HelperInv'
<1>1. UNCHANGED <<class, fields, job, raced, up>>
  BY DEF vars
<1>2. N' = N /\ AllFields' = AllFields /\ class' = class /\ fields' = fields /\ job' = job
      /\ raced' = raced /\ up' = up
  BY <1>1, SameClass
<1>3. \A t \in Thread : (Filling(t)' <=> Filling(t)) /\ (Pushing(t)' <=> Pushing(t))
  BY <1>2, Zenon DEF Filling, Pushing
<1>4. \A j : Converts(j)' <=> Converts(j)
  BY <1>2, SameWork, Zenon
<1>5. TypeOK'
  BY <1>2 DEF HelperInv, TypeOK
<1>6. Walking'
  BY <1>2, Zenon DEF HelperInv, Walking
<1>7. FilledByOne'
  BY <1>2, <1>3, Zenon DEF HelperInv, FilledByOne
<1>8. WholeUnlessRaced'
  BY <1>2, Zenon DEF HelperInv, WholeUnlessRaced
<1>9. FieldByField'
  <2>1. ASSUME ~raced', NEW t \in Thread, job'[t].op # "none" PROVE Converts(job[t])'
    <3>1. Converts(job[t])
      BY <1>2, <2>1 DEF HelperInv, FieldByField
    <3>2. QED
      BY <1>2, <3>1, SameWork
  <2>2. QED
    BY <2>1 DEF FieldByField
<1>10. QED
  BY <1>5, <1>6, <1>7, <1>8, <1>9 DEF HelperInv

-----------------------------------------------------------------------------
(* The inductive invariant: the threads' walks over m_fields and what they *)
(* have converted, whatever other threads do.                              *)
THEOREM HelperInvariant == Spec => []HelperInv
<1>1. Init => HelperInv
  BY InitHolds
<1>2. HelperInv /\ [Next]_vars => HelperInv'
  <2> SUFFICES ASSUME HelperInv, [Next]_vars PROVE HelperInv'
    OBVIOUS
  <2>1. ASSUME NEW t \in Thread, Read(t) PROVE HelperInv'
    BY <2>1, ReadStep
  <2>2. ASSUME NEW t \in Thread, Write(t) PROVE HelperInv'
    BY <2>2, WriteStep
  <2>3. ASSUME NEW t \in Thread, SetupFields(t) PROVE HelperInv'
    BY <2>3, SetupFieldsStep
  <2>4. ASSUME NEW t \in Thread, BeginPush(t) PROVE HelperInv'
    BY <2>4, BeginPushStep
  <2>5. ASSUME NEW t \in Thread, EndPush(t) PROVE HelperInv'
    BY <2>5, EndPushStep
  <2>6. ASSUME NEW t \in Thread, EndSetup(t) PROVE HelperInv'
    BY <2>6, EndSetupStep
  <2>7. ASSUME NEW t \in Thread, Moved(t) PROVE HelperInv'
    BY <2>7, MovedStep
  <2>8. ASSUME NEW t \in Thread, WriteField(t) PROVE HelperInv'
    BY <2>8, WriteFieldStep
  <2>9. ASSUME NEW t \in Thread, EndWrite(t) PROVE HelperInv'
    BY <2>9, EndWriteStep
  <2>10. ASSUME NEW t \in Thread, ReadField(t) PROVE HelperInv'
    BY <2>10, ReadFieldStep
  <2>11. ASSUME NEW t \in Thread, EndRead(t) PROVE HelperInv'
    BY <2>11, EndReadStep
  <2>12. CASE UNCHANGED vars
    BY <2>12, NoStep
  <2>13. QED
    BY <2>1, <2>2, <2>3, <2>4, <2>5, <2>6, <2>7, <2>8, <2>9, <2>10, <2>11, <2>12, Zenon DEF Next
<1>3. QED
  BY <1>1, <1>2, PTL DEF Spec

(* Unless two threads met in the first use of a native helper, a walk of   *)
(* GenerateResponse, GenerateRequest, FillObject or FillProtobuf is over   *)
(* every field of the class, once and in order.                            *)
THEOREM WalksAreWhole == Spec => []WholeUnlessRaced
<1>1. HelperInv => WholeUnlessRaced
  BY DEF HelperInv
<1>2. QED
  BY <1>1, HelperInvariant, PTL

LEMMA EndedJob ==
    ASSUME HelperInv, NEW op \in {"read", "write", "echo"}, NEW j \in Ended(op)
    PROVE  /\ class \in Classes /\ N \in Nat /\ j.op = op /\ j.pc \in {"done", "crashed"}
           /\ \A k \in 1..N : k < N + 1
           /\ \A k \in 1..N : j.x[k] \in IF op = "read" THEN Sent(class.fields[k])
                                       ELSE Held(class.fields[k])
           /\ j.pc = "crashed" => Failed(j)
           /\ j.pc = "done" => IF op = "write" THEN WrittenTo(j, N + 1) ELSE ReadTo(j, N + 1)
<1>1. PICK t \in Thread : j = job[t] /\ j.op = op /\ j.pc \in {"done", "crashed"} /\ ~raced
  BY DEF Ended
<1>2. class \in Classes
  BY DEF HelperInv, TypeOK
<1>3. N \in Nat /\ \A k \in 1..N : k < N + 1
  <2>1. N \in Nat
    BY <1>2, ClassOf, Zenon
  <2>2. QED
    BY <2>1
<1>4. op # "none" /\ op # "reply"
  OBVIOUS
<1>5. Converts(j)
  BY <1>1, <1>4, Undisturbed
<1>6. j.pc = "done" => (j.walk = "write" <=> op = "write")
  <2>1. Fits(j)
    BY <1>1, JobsFit DEF HelperInv
  <2>2. QED
    BY <1>1, <2>1 DEF Fits
<1>7. j.pc = "crashed" => Failed(j)
  BY <1>1, <1>4, <1>5, Zenon DEF Converts
<1>8. j.pc = "done" => IF op = "write" THEN WrittenTo(j, N + 1) ELSE ReadTo(j, N + 1)
  <2>1. ASSUME j.pc = "done" PROVE Place(j) = N + 1 /\ j.pc # "crashed"
    BY <2>1 DEF Place
  <2>2. QED
    BY <1>1, <1>4, <1>5, <1>6, <2>1, Zenon DEF Converts
<1>9. \A k \in 1..N : j.x[k] \in IF op = "read" THEN Sent(class.fields[k])
                                ELSE Held(class.fields[k])
  BY <1>1, <1>5, Zenon DEF Converts
<1>10. QED
  BY <1>1, <1>2, <1>3, <1>7, <1>8, <1>9, Zenon

(* FillObject and FillProtobuf give a handler what the client sent, and    *)
(* the program survives it, for the messages Understood names and for no   *)
(* other, however many threads use the helper.                             *)
THEOREM RequestsAreUnderstood == Spec => []ReadAsMeant
<1>1. ASSUME HelperInv, NEW j \in Ended("read")
      PROVE  GotObject(j) <=> \A i \in 1..N : Understood(class.fields[i], j.x[i])
  <2>1. /\ class \in Classes /\ j.op = "read" /\ j.pc \in {"done", "crashed"}
        /\ \A k \in 1..N : k < N + 1 /\ j.x[k] \in Sent(class.fields[k])
        /\ j.pc = "crashed" => Failed(j)
        /\ j.pc = "done" => ReadTo(j, N + 1)
    BY <1>1, EndedJob
  <2>2. ASSUME NEW k \in 1..N
        PROVE  /\ Message(j, k).up
               /\ (/\ Result(j, k).up
                   /\ Meaning(class.fields[k], Result(j, k).val) = Meaning(class.fields[k], j.x[k]))
                  <=> Understood(class.fields[k], j.x[k])
    <3>1. PICK list \in Sent(class.fields[k]) : list = j.x[k]
      BY <2>1, Zenon
    <3>2. PICK e : e = Encode(ClassWsdl[k], list)
      BY Zenon
    <3>3. Message(j, k).up /\ Message(j, k).val = e
      BY <2>1, <3>1, <3>2, Outcomes, Zenon DEF Message
    <3>4. PICK r : r = Taken(class.fields[k], CreateObject[k], Parse(e))
      BY Zenon
    <3>5. r = Result(j, k)
      BY <3>3, <3>4, Zenon DEF Result
    <3>6. (r.up /\ Meaning(class.fields[k], r.val) = Meaning(class.fields[k], list))
             <=> Understood(class.fields[k], list)
      BY <2>1, <3>2, <3>4, FieldRead
    <3>7. QED
      BY <3>1, <3>3, <3>5, <3>6, Zenon
  <2>3. CASE j.pc = "crashed"
    <3>1. j.pc # "done" /\ \E k \in 1..N : ~Message(j, k).up \/ ~Result(j, k).up
      BY <2>1, <2>3 DEF Failed
    <3>2. QED
      BY <2>2, <3>1, Zenon DEF GotObject
  <2>4. CASE j.pc = "done"
    <3>1. \A k \in 1..N : Result(j, k).up /\ j.obj[k] = Result(j, k).val
      BY <2>1, <2>4, Zenon DEF ReadTo
    <3>2. QED
      BY <2>2, <2>4, <3>1, Zenon DEF GotObject, Same
  <2>5. QED
    BY <2>1, <2>3, <2>4
<1>2. HelperInv => ReadAsMeant
  BY <1>1, Zenon DEF ReadAsMeant
<1>3. QED
  BY <1>2, HelperInvariant, PTL

(* A client of the WSDL reads in an answer that GenerateResponse wrote     *)
(* what the handler's object holds, for the objects Written names and for  *)
(* no other.                                                               *)
THEOREM AnswersAreTyped == Spec => []WrittenAsTyped
<1>1. ASSUME HelperInv, NEW j \in Ended("write")
      PROVE  (/\ j.pc = "done"
              /\ Same([i \in 1..N |-> Decode(ClassWsdl[i], j.els)], j.x))
             <=> \A i \in 1..N : Written(class.fields[i], j.x[i])
  <2>1. /\ class \in Classes /\ j.op = "write" /\ j.op # "read" /\ j.pc \in {"done", "crashed"}
        /\ \A k \in 1..N : k < N + 1 /\ j.x[k] \in Held(class.fields[k])
        /\ j.pc = "crashed" => Failed(j)
        /\ j.pc = "done" => WrittenTo(j, N + 1)
    BY <1>1, EndedJob
  <2>2. ASSUME NEW k \in 1..N,
               Message(j, k).up => Named(j.els, class.fields[k].name) = Message(j, k).val
        PROVE  (/\ Message(j, k).up
                /\ Meaning(class.fields[k], Decode(ClassWsdl[k], j.els))
                      = Meaning(class.fields[k], j.x[k]))
               <=> Written(class.fields[k], j.x[k])
    <3>1. PICK list \in Held(class.fields[k]) : list = j.x[k]
      BY <2>1, Zenon
    <3>2. PICK m : m = ToXml(class.fields[k], list)
      BY Zenon
    <3>3. Message(j, k) = m
      BY <2>1, <3>1, <3>2, Zenon DEF Message
    <3>4. PICK els : els = j.els
      BY Zenon
    <3>5. m.up => Named(els, class.fields[k].name) = m.val
      BY <2>2, <3>3, <3>4, Zenon
    <3>6. (/\ m.up
           /\ Meaning(class.fields[k], Decode(ClassWsdl[k], els)) = Meaning(class.fields[k], list))
             <=> Written(class.fields[k], list)
      BY <2>1, <3>2, <3>5, FieldWritten
    <3>7. QED
      BY <3>1, <3>3, <3>4, <3>6, Zenon
  <2>3. CASE j.pc = "crashed"
    <3>1. j.pc # "done" /\ \E k \in 1..N : ~Message(j, k).up
      BY <2>1, <2>3 DEF Failed
    <3>2. QED
      BY <2>2, <3>1, Zenon
  <2>4. CASE j.pc = "done"
    <3>1. \A k \in 1..N : /\ Message(j, k).up
                          /\ Named(j.els, class.fields[k].name) = Message(j, k).val
      BY <2>1, <2>4, Zenon DEF WrittenTo
    <3>2. \A k \in 1..N : Meaning(class.fields[k], Decode(ClassWsdl[k], j.els))
                             = Meaning(class.fields[k], j.x[k])
                          <=> Written(class.fields[k], j.x[k])
      BY <2>2, <3>1, Zenon
    <3>3. PICK got : got = [i \in 1..N |-> Decode(ClassWsdl[i], j.els)]
      BY Zenon
    <3>4. \A k \in 1..N : got[k] = Decode(ClassWsdl[k], j.els)
      BY <3>3
    <3>5. Same(got, j.x) <=> \A k \in 1..N : Written(class.fields[k], j.x[k])
      BY <3>2, <3>4, Zenon DEF Same
    <3>6. QED
      BY <2>4, <3>3, <3>5, Zenon
  <2>5. QED
    BY <2>1, <2>3, <2>4
<1>2. HelperInv => WrittenAsTyped
  BY <1>1, Zenon DEF WrittenAsTyped
<1>3. QED
  BY <1>2, HelperInvariant, PTL

(* FillObject and FillProtobuf read back what GenerateRequest and          *)
(* GenerateResponse of the same code wrote, for the objects ReadsItself    *)
(* names and for no other.                                                 *)
THEOREM ServersUnderstandEachOther == Spec => []ReadsBack
<1>1. ASSUME HelperInv, NEW j \in Ended("echo")
      PROVE  GotObject(j) <=> \A i \in 1..N : ReadsItself(class.fields[i], j.x[i])
  <2>1. /\ class \in Classes /\ j.op = "echo" /\ j.op # "read" /\ j.op # "write"
        /\ j.pc \in {"done", "crashed"}
        /\ \A k \in 1..N : k < N + 1 /\ j.x[k] \in Held(class.fields[k])
        /\ j.pc = "crashed" => Failed(j)
        /\ j.pc = "done" => ReadTo(j, N + 1)
    BY <1>1, EndedJob
  <2>2. ASSUME NEW k \in 1..N
        PROVE  (/\ Message(j, k).up /\ Result(j, k).up
                /\ Meaning(class.fields[k], Result(j, k).val) = Meaning(class.fields[k], j.x[k]))
               <=> ReadsItself(class.fields[k], j.x[k])
    <3>1. PICK list \in Held(class.fields[k]) : list = j.x[k]
      BY <2>1, Zenon
    <3>2. PICK m : m = ToXml(class.fields[k], list)
      BY Zenon
    <3>3. Message(j, k) = m
      BY <2>1, <3>1, <3>2, Zenon DEF Message
    <3>4. PICK r : r = Taken(class.fields[k], CreateObject[k], Parse(m.val))
      BY Zenon
    <3>5. r = Result(j, k)
      BY <3>3, <3>4, Zenon DEF Result
    <3>6. (m.up /\ r.up /\ Meaning(class.fields[k], r.val) = Meaning(class.fields[k], list))
             <=> ReadsItself(class.fields[k], list)
      BY <2>1, <3>2, <3>4, FieldBack
    <3>7. QED
      BY <3>1, <3>3, <3>5, <3>6, Zenon
  <2>3. CASE j.pc = "crashed"
    <3>1. j.pc # "done" /\ \E k \in 1..N : ~Message(j, k).up \/ ~Result(j, k).up
      BY <2>1, <2>3 DEF Failed
    <3>2. QED
      BY <2>2, <3>1, Zenon DEF GotObject
  <2>4. CASE j.pc = "done"
    <3>1. \A k \in 1..N : Message(j, k).up /\ Result(j, k).up /\ j.obj[k] = Result(j, k).val
      BY <2>1, <2>4, Zenon DEF ReadTo
    <3>2. QED
      BY <2>2, <2>4, <3>1, Zenon DEF GotObject, Same
  <2>5. QED
    BY <2>1, <2>3, <2>4
<1>2. HelperInv => ReadsBack
  BY <1>1, Zenon DEF ReadsBack
<1>3. QED
  BY <1>2, HelperInvariant, PTL
=============================================================================
