----------------------------- MODULE WarcProofs -----------------------------
(***************************************************************************)
(* Proofs about WarcStream, for every set of objects, every way to cut an  *)
(* object into chunks, every bound of the code and every place where the   *)
(* stream may break off.                                                   *)
(***************************************************************************)
EXTENDS WarcStream, SequenceTheorems, WellFoundedInduction, TLAPS

(* Numbers: a set of them has a least element.                             *)
Less == {p \in Nat \X Nat : p[1] < p[2]}

(* A non-empty set of numbers has a least element.                         *)
LEMMA Least ==
  ASSUME NEW T, T \subseteq Nat, T # {}
  PROVE  \E n \in T : \A m \in T : n <= m
<1>1. IsWellFoundedOn(Less, Nat)
  <2>1. OpToRel(<, Nat) = Less
    BY DEF OpToRel, Less
  <2>2. QED
    BY <2>1, NatLessThanWellFounded
<1>2. PICK n \in T : \A y \in T : <<y, n>> \notin Less
  BY <1>1, WFMin, Zenon
<1>3. ASSUME NEW m \in T PROVE n <= m
  <2>1. m \in Nat /\ n \in Nat /\ <<m, n>> \notin Less
    BY <1>2
  <2>2. ~(m < n)
    BY <2>1 DEF Less
  <2>3. QED
    BY <2>1, <2>2
<1>4. QED
  BY <1>3

-----------------------------------------------------------------------------
(* FlattenSeq.  The recursive function it is defined with exists: take the *)
(* shortest family for which it would not.                                 *)
Joins(ss, f) == [i \in 1..Len(ss) |-> IF i = 1 THEN ss[i] ELSE f[i - 1] \o ss[i]]

(* The recursive function behind FlattenSeq exists.                        *)
LEMMA FlattenExists ==
  ASSUME NEW S, NEW ss \in Seq(S)
  PROVE  \E f : f = Joins(ss, f)
<1> DEFINE G(k, f) == [i \in 1..k |-> IF i = 1 THEN ss[i] ELSE f[i - 1] \o ss[i]]
           Bad == {k \in Nat : ~ \E f : f = G(k, f)}
<1>1. SUFFICES ASSUME Bad # {} PROVE FALSE
  <2>1. Len(ss) \in Nat
    OBVIOUS
  <2>2. Len(ss) \notin Bad
    BY <1>1
  <2>3. \E f : f = G(Len(ss), f)
    BY <2>1, <2>2
  <2>4. QED
    BY <2>3 DEF Joins
<1>2. PICK k \in Bad : \A j \in Bad : k <= j
  <2>1. Bad \subseteq Nat
    OBVIOUS
  <2> HIDE DEF Bad
  <2>2. QED
    BY <1>1, <2>1, Least
<1>3. CASE k = 0
  <2>1. [i \in 1..0 |-> 0] = G(0, [i \in 1..0 |-> 0])
    OBVIOUS
  <2>2. QED
    BY <2>1, <1>3, <1>2
<1>4. CASE k # 0
  <2>k. k \in Nat /\ ~(k <= k - 1)
    BY <1>2
  <2>1. k \in Nat /\ k - 1 \in Nat /\ k - 1 \notin Bad
    <3>1. k - 1 \in Nat
      BY <2>k, <1>4
    <3>2. QED
      BY <3>1, <2>k, <1>2
  <2>2. PICK g : g = G(k - 1, g)
    BY <2>1
  <2> DEFINE f == G(k, g)
  <2>3. ASSUME NEW i \in 1..k, i # 1 PROVE f[i - 1] = g[i - 1]
    <3>1. i - 1 \in 1..k /\ i - 1 \in 1..(k - 1)
      BY <2>1, <2>3
    <3>2. f[i - 1] = IF i - 1 = 1 THEN ss[i - 1] ELSE g[(i - 1) - 1] \o ss[i - 1]
      BY <3>1
    <3>3. G(k - 1, g)[i - 1] = IF i - 1 = 1 THEN ss[i - 1] ELSE g[(i - 1) - 1] \o ss[i - 1]
      BY <3>1
    <3>4. QED
      BY <3>2, <3>3, <2>2
  <2>4. \A i \in 1..k : (IF i = 1 THEN ss[i] ELSE g[i - 1] \o ss[i])
                          = (IF i = 1 THEN ss[i] ELSE f[i - 1] \o ss[i])
    BY <2>3
  <2>5. f = G(k, f)
    BY <2>4
  <2>6. QED
    BY <2>5, <1>2
<1>5. QED
  BY <1>3, <1>4

(* Where each member of the family begins in the whole.                    *)
Cuts(ss, at) ==
  /\ at \in [1..(Len(ss) + 1) -> Nat] /\ at[1] = 0
  /\ at[Len(ss) + 1] = Len(FlattenSeq(ss))
  /\ \A p \in 1..Len(ss) : at[p + 1] = at[p] + Len(ss[p])
  /\ \A p \in 1..Len(ss) : \A k \in 1..Len(ss[p]) :
       /\ at[p] + k \in 1..Len(FlattenSeq(ss))
       /\ FlattenSeq(ss)[at[p] + k] = ss[p][k]

(* FlattenSeq puts the elements of each sequence where the cuts say.       *)
LEMMA Flattened ==
  ASSUME NEW S, NEW ss \in Seq(Seq(S))
  PROVE  FlattenSeq(ss) \in Seq(S) /\ \E at : Cuts(ss, at)
<1>n. Len(ss) \in Nat /\ \A p \in 1..Len(ss) : ss[p] \in Seq(S) /\ Len(ss[p]) \in Nat
  OBVIOUS
<1>1. CASE Len(ss) = 0
  <2>1. FlattenSeq(ss) = ss /\ ss = <<>>
    BY <1>1 DEF FlattenSeq
  <2>2. Cuts(ss, [p \in 1..1 |-> 0])
    BY <2>1, <1>1 DEF Cuts
  <2>3. QED
    BY <2>1, <2>2
<1>2. CASE Len(ss) # 0
  <2> DEFINE g == CHOOSE f : f = Joins(ss, f)
             n == Len(ss)
             at == [p \in 1..(n + 1) |-> IF p = 1 THEN 0 ELSE Len(g[p - 1])]
             flat == FlattenSeq(ss)
  <2>1. g = Joins(ss, g)
    BY FlattenExists
  <2>2. flat = g[n]
    BY <1>2 DEF FlattenSeq, Joins
  <2>n. n \in Nat /\ n >= 1
    BY <1>n, <1>2
  <2> HIDE DEF g
  <2>3. \A i \in 1..n : g[i] = IF i = 1 THEN ss[i] ELSE g[i - 1] \o ss[i]
    BY <2>1, <2>n DEF Joins
  <2>4. \A i \in 1..n : g[i] \in Seq(S)
    <3> DEFINE Bad == {i \in 1..n : g[i] \notin Seq(S)}
    <3>1. SUFFICES ASSUME Bad # {} PROVE FALSE
      OBVIOUS
    <3>2. PICK i \in Bad : \A j \in Bad : i <= j
      <4>1. Bad \subseteq Nat
        BY <2>n
      <4> HIDE DEF Bad
      <4>2. QED
        BY <3>1, <4>1, Least
    <3>3. i # 1
      BY <2>3, <2>n, <1>n, <3>2
    <3>4. i - 1 \in 1..n /\ i - 1 \notin Bad
      BY <3>2, <3>3, <2>n
    <3>5. g[i - 1] \in Seq(S) /\ ss[i] \in Seq(S)
      BY <3>4, <3>2, <1>n
    <3>6. i \in 1..n /\ g[i] \notin Seq(S)
      BY <3>2
    <3>7. g[i] = g[i - 1] \o ss[i]
      BY <3>6, <3>3, <2>3
    <3>8. QED
      BY <3>5, <3>6, <3>7
  <2>5. /\ at \in [1..(n + 1) -> Nat] /\ at[1] = 0
        /\ \A p \in 1..n : at[p + 1] = Len(g[p])
    <3>1. \A p \in 1..n : Len(g[p]) \in Nat /\ p + 1 \in 1..(n + 1) /\ p + 1 # 1 /\ (p + 1) - 1 = p
      BY <2>4, <2>n
    <3>2. \A p \in 1..(n + 1) : p # 1 => p - 1 \in 1..n
      BY <2>n
    <3>3. QED
      BY <3>1, <3>2, <2>n
  <2> HIDE DEF at
  <2>6. \A p \in 1..n : at[p + 1] = at[p] + Len(ss[p])
    <3> SUFFICES ASSUME NEW p \in 1..n PROVE at[p + 1] = at[p] + Len(ss[p])
      OBVIOUS
    <3>1. CASE p = 1
      <4>1. g[p] = ss[p] /\ at[p] = 0
        BY <2>3, <3>1, <2>5
      <4>2. QED
        BY <4>1, <2>5, <1>n
    <3>2. CASE p # 1
      <4>1. p - 1 \in 1..n /\ (p - 1) + 1 = p
        BY <2>n, <3>2
      <4>2. g[p] = g[p - 1] \o ss[p] /\ at[p] = Len(g[p - 1])
        BY <4>1, <2>3, <3>2, <2>5
      <4>3. g[p - 1] \in Seq(S) /\ ss[p] \in Seq(S)
        BY <4>1, <2>4, <1>n
      <4>4. Len(g[p]) = Len(g[p - 1]) + Len(ss[p])
        BY <4>2, <4>3, ConcatProperties
      <4>5. QED
        BY <4>4, <4>2, <2>5
    <3>3. QED
      BY <3>1, <3>2
  <2> DEFINE Filled(i) == \A p \in 1..i : \A k \in 1..Len(ss[p]) :
               at[p] + k \in 1..Len(g[i]) /\ g[i][at[p] + k] = ss[p][k]
  <2>7. \A i \in 1..n : Filled(i)
    <3> DEFINE Bad == {i \in 1..n : ~Filled(i)}
    <3>1. SUFFICES ASSUME Bad # {} PROVE FALSE
      OBVIOUS
    <3>2. PICK i \in Bad : \A j \in Bad : i <= j
      <4>1. Bad \subseteq Nat
        BY <2>n
      <4> HIDE DEF Bad
      <4>2. QED
        BY <3>1, <4>1, Least
    <3>3. i \in 1..n /\ ~Filled(i)
      BY <3>2
    <3>4. CASE i = 1
      <4>1. g[i] = ss[i] /\ at[i] = 0 /\ 1..i = {1}
        BY <3>4, <2>3, <3>3, <2>5
      <4>2. ASSUME NEW p \in 1..i, NEW k \in 1..Len(ss[p])
            PROVE  at[p] + k \in 1..Len(g[i]) /\ g[i][at[p] + k] = ss[p][k]
        <5>1. p = i /\ Len(ss[p]) \in Nat
          BY <4>1, <3>4, <1>n, <3>3
        <5>2. at[p] + k = k
          BY <5>1, <4>1
        <5>3. QED
          BY <5>1, <5>2, <4>1
      <4>3. QED
        BY <4>2, <3>3
    <3>5. CASE i # 1
      <4>0. i - 1 \in 1..n /\ (i - 1) + 1 = i /\ ~(i <= i - 1)
        BY <2>n, <3>5, <3>3
      <4>1. i - 1 \in 1..n /\ (i - 1) + 1 = i /\ i - 1 \notin Bad
        BY <4>0, <3>2
      <4>2. g[i] = g[i - 1] \o ss[i] /\ at[i] = Len(g[i - 1]) /\ Filled(i - 1)
        BY <4>1, <2>3, <3>5, <2>5, <3>3
      <4>3. g[i - 1] \in Seq(S) /\ ss[i] \in Seq(S) /\ Len(g[i - 1]) \in Nat /\ Len(ss[i]) \in Nat
        BY <4>1, <2>4, <1>n, <3>3
      <4>4. /\ Len(g[i]) = Len(g[i - 1]) + Len(ss[i])
            /\ \A m \in 1..(Len(g[i - 1]) + Len(ss[i])) :
                 g[i][m] = IF m <= Len(g[i - 1]) THEN g[i - 1][m] ELSE ss[i][m - Len(g[i - 1])]
        <5> DEFINE u == g[i - 1]
                   v == ss[i]
        <5>1. u \in Seq(S) /\ v \in Seq(S) /\ g[i] = u \o v
          BY <4>2, <4>3
        <5> HIDE DEF u, v
        <5>2. /\ Len(u \o v) = Len(u) + Len(v)
              /\ \A m \in 1..(Len(u) + Len(v)) :
                   (u \o v)[m] = IF m <= Len(u) THEN u[m] ELSE v[m - Len(u)]
          BY <5>1, ConcatProperties
        <5>3. QED
          BY <5>1, <5>2 DEF u, v
      <4>5. ASSUME NEW p \in 1..i, NEW k \in 1..Len(ss[p])
            PROVE  at[p] + k \in 1..Len(g[i]) /\ g[i][at[p] + k] = ss[p][k]
        <5>1. CASE p = i
          <6>0. k \in 1..Len(ss[i]) /\ Len(ss[i]) \in Nat /\ Len(g[i - 1]) \in Nat
            BY <5>1, <4>3
          <6>1. k \in Nat /\ k >= 1 /\ k <= Len(ss[i])
            BY <6>0
          <6>2. /\ at[p] + k = Len(g[i - 1]) + k /\ (Len(g[i - 1]) + k) - Len(g[i - 1]) = k
                /\ ~(Len(g[i - 1]) + k <= Len(g[i - 1]))
                /\ Len(g[i - 1]) + k \in 1..(Len(g[i - 1]) + Len(ss[i]))
            <7> DEFINE a == Len(g[i - 1])
                       b == Len(ss[i])
            <7>1. a \in Nat /\ b \in Nat
              BY <6>0
            <7>2. at[p] = a
              BY <5>1, <4>2
            <7> HIDE DEF a, b
            <7>3. k \in Nat /\ k >= 1 /\ k <= b
              BY <6>1 DEF b
            <7>4. at[p] + k = a + k /\ (a + k) - a = k /\ ~(a + k <= a) /\ a + k \in 1..(a + b)
              BY <7>1, <7>2, <7>3
            <7>5. QED
              BY <7>4 DEF a, b
          <6>3. QED
            BY <6>2, <4>4, <5>1
        <5>2. CASE p # i
          <6>1. p \in 1..(i - 1)
            BY <5>2, <3>3, <2>n
          <6>2. at[p] + k \in 1..Len(g[i - 1]) /\ g[i - 1][at[p] + k] = ss[p][k]
            BY <6>1, <4>2
          <6>3. at[p] + k <= Len(g[i - 1]) /\ at[p] + k \in 1..(Len(g[i - 1]) + Len(ss[i]))
            <7> DEFINE a == Len(g[i - 1])
                       b == Len(ss[i])
                       x == at[p] + k
            <7>1. a \in Nat /\ b \in Nat /\ x \in 1..a
              BY <6>2, <4>3
            <7> HIDE DEF a, b, x
            <7>2. x <= a /\ x \in 1..(a + b)
              BY <7>1
            <7>3. QED
              BY <7>2 DEF a, b, x
          <6>4. QED
            BY <6>2, <6>3, <4>4
        <5>3. QED
          BY <5>1, <5>2
      <4>6. QED
        BY <4>5, <3>3
    <3>6. QED
      BY <3>4, <3>5
  <2>8. flat \in Seq(S) /\ at[n + 1] = Len(flat) /\ Filled(n)
    <3>1. n \in 1..n
      BY <2>n
    <3> HIDE DEF flat, n, Filled
    <3>2. g[n] \in Seq(S) /\ at[n + 1] = Len(g[n]) /\ Filled(n)
      BY <3>1, <2>4, <2>5, <2>7, Zenon
    <3>3. QED
      BY <3>2, <2>2
  <2>9. Cuts(ss, at)
    BY <2>5, <2>6, <2>8, <2>2 DEF Cuts
  <2>10. QED
    BY <2>8, <2>9
<1>3. QED
  BY <1>1, <1>2

(* Every place of the whole is one of some member.                         *)
LEMMA CutsCover ==
  ASSUME NEW S, NEW ss \in Seq(Seq(S)), NEW at, Cuts(ss, at), NEW i \in 1..Len(FlattenSeq(ss))
  PROVE  \E p \in 1..Len(ss) : \E k \in 1..Len(ss[p]) :
           i = at[p] + k /\ FlattenSeq(ss)[i] = ss[p][k]
<1> DEFINE n == Len(ss)
           T == {q \in 1..(n + 1) : i <= at[q]}
<1>1. n \in Nat /\ i \in Nat /\ i >= 1 /\ \A p \in 1..n : Len(ss[p]) \in Nat
  <2>1. FlattenSeq(ss) \in Seq(S)
    BY Flattened
  <2>2. QED
    BY <2>1
<1>2. /\ at \in [1..(n + 1) -> Nat] /\ at[1] = 0 /\ at[n + 1] = Len(FlattenSeq(ss))
      /\ \A p \in 1..n : at[p + 1] = at[p] + Len(ss[p])
      /\ \A p \in 1..n : \A k \in 1..Len(ss[p]) : FlattenSeq(ss)[at[p] + k] = ss[p][k]
  BY DEF Cuts
<1>3. n + 1 \in T
  BY <1>1, <1>2
<1>4. PICK q \in T : \A r \in T : q <= r
  <2>1. T \subseteq Nat
    BY <1>1
  <2> HIDE DEF T
  <2>2. QED
    BY <1>3, <2>1, Least
<1>5. q \in 1..(n + 1) /\ i <= at[q] /\ q # 1
  BY <1>1, <1>2, <1>4
<1>6. q - 1 \in 1..n /\ (q - 1) + 1 = q /\ q - 1 \in 1..(n + 1) /\ ~(q <= q - 1)
  BY <1>1, <1>5
<1>7. ~(i <= at[q - 1])
  BY <1>4, <1>6
<1> DEFINE k == i - at[q - 1]
<1>8. at[q - 1] \in Nat /\ at[q] = at[q - 1] + Len(ss[q - 1]) /\ Len(ss[q - 1]) \in Nat
  BY <1>1, <1>2, <1>6
<1>9. k \in 1..Len(ss[q - 1]) /\ i = at[q - 1] + k
  BY <1>1, <1>5, <1>7, <1>8
<1>10. FlattenSeq(ss)[at[q - 1] + k] = ss[q - 1][k]
  BY <1>2, <1>6, <1>9, Zenon
<1> HIDE DEF k
<1>11. QED
  BY <1>6, <1>9, <1>10


-----------------------------------------------------------------------------
(* What an object holds.  The units of its text:                           *)
TextUnit == [line: HeaderLines \cup {"blank", "garbage"}, value: Nat]
              \cup [line: {"version", "block"}, value: Seq(Nat)]

(* Unit h of T is the version line of record e of part p, and the record   *)
(* follows it.                                                             *)
Lies(T, h, o, p, e) ==
  LET r == o.parts[p].text[e]
      b == h + Len(r.head) + 1
  IN  /\ T[h].value = <<p, e>>
      /\ b + r.size <= Len(T)
      /\ T[b].line = "blank"
      /\ \A k \in 1..Len(r.head) : T[h + k].line \in HeaderLines
      /\ \A n \in 1..r.size : T[b + n] = [line |-> "block", value |-> <<p, e, n>>]

(* Every version line of T is one of a record of the parts ps.             *)
Told(T, o, ps) ==
  \A h \in 1..Len(T) : T[h].line = "version" =>
    \E p \in ps : \E e \in 1..Len(o.parts[p].text) : Lies(T, h, o, p, e)

(* A sequence of one.                                                      *)
LEMMA Singly ==
  ASSUME NEW S, NEW x \in S
  PROVE  <<x>> \in Seq(S) /\ Len(<<x>>) = 1 /\ <<x>>[1] = x
OBVIOUS

(* One sequence behind another.                                            *)
LEMMA Behind ==
  ASSUME NEW S, NEW s \in Seq(S), NEW t \in Seq(S)
  PROVE  /\ s \o t \in Seq(S) /\ Len(s \o t) = Len(s) + Len(t) /\ Len(t) \in Nat
         /\ \A i \in 1..Len(s) : (s \o t)[i] = s[i]
         /\ \A i \in 1..Len(t) : (s \o t)[Len(s) + i] = t[i]
OBVIOUS

(* The data of an element, as its type has it.                             *)
LEMMA PartOf ==
  ASSUME NEW o \in Objects, NEW p \in 1..Len(o.parts)
  PROVE  /\ o.parts \in Seq(PartType) /\ Len(o.parts) \in Nat
         /\ o.parts[p].opts \in Nat
         /\ o.parts[p].damage \in {"none", "magic", "deflate"}
         /\ o.parts[p].text \in Seq(Element) /\ Len(o.parts[p].text) \in Nat
<1>1. o.parts \in Seq(PartType)
  BY StreamAssumption
<1>2. o.parts[p] \in PartType /\ Len(o.parts) \in Nat
  BY <1>1
<1>3. QED
  BY <1>1, <1>2 DEF PartType

(* The type of an element.                                                 *)
LEMMA ElementOf ==
  ASSUME NEW o \in Objects, NEW p \in 1..Len(o.parts), NEW e \in 1..Len(o.parts[p].text)
  PROVE  LET r == o.parts[p].text[e] IN
         /\ r.kind \in Captured \cup {"blank", "garbage"}
         /\ r.head \in Seq([line: HeaderLines, value: Nat]) /\ Len(r.head) \in Nat
         /\ r.size \in Nat /\ p \in Nat /\ e \in Nat
<1>0. o.parts[p].text \in Seq(Element) /\ Len(o.parts[p].text) \in Nat /\ Len(o.parts) \in Nat
  BY PartOf
<1>1. o.parts[p].text[e] \in Element /\ e \in Nat
  BY <1>0
<1>2. p \in Nat
  BY <1>0
<1>3. /\ o.parts[p].text[e].kind \in Captured \cup {"blank", "garbage"}
      /\ o.parts[p].text[e].head \in Seq([line: HeaderLines, value: Nat])
      /\ o.parts[p].text[e].size \in Nat
  BY <1>1 DEF Element
<1>4. Len(o.parts[p].text[e].head) \in Nat
  BY <1>3, LenProperties, Zenon
<1>5. QED
  BY <1>1, <1>2, <1>3, <1>4

(* Record e of part p, unit by unit.                                       *)
Laid(T, o, p, e) ==
  LET r == o.parts[p].text[e]
      m == Len(r.head)
      z == r.size
  IN  /\ Len(T) = m + 4 + z
      /\ T[1] = [line |-> "version", value |-> <<p, e>>]
      /\ \A k \in 1..m : T[1 + k] = r.head[k]
      /\ T[m + 2].line = "blank"
      /\ \A n \in 1..z : T[(m + 2) + n].line = "block"
      /\ T[m + 3 + z].line = "blank" /\ T[m + 4 + z].line = "blank"

(* RecordText begins with its version line and holds its record.           *)
LEMMA RecordLies ==
  ASSUME NEW o \in Objects, NEW p \in 1..Len(o.parts), NEW e \in 1..Len(o.parts[p].text)
  PROVE  LET T == RecordText(o, p, e) IN
         /\ T \in Seq(TextUnit) /\ T[1].line = "version"
         /\ \A h \in 1..Len(T) : T[h].line = "version" => h = 1
         /\ Lies(T, 1, o, p, e) /\ Laid(T, o, p, e)
<1> DEFINE r == o.parts[p].text[e]
           version == [line |-> "version", value |-> <<p, e>>]
           m == Len(r.head)
           z == r.size
           block == [n \in 1..z |-> [line |-> "block", value |-> <<p, e, n>>]]
           t2 == <<version>> \o r.head
           t3 == t2 \o <<Blank>>
           t4 == t3 \o block
           T == t4 \o <<Blank, Blank>>
<1>1. /\ r.head \in Seq([line: HeaderLines, value: Nat]) /\ m \in Nat /\ z \in Nat
      /\ p \in Nat /\ e \in Nat
  BY ElementOf
<1>m. m = Len(r.head) /\ z = r.size
  OBVIOUS
<1>2. T = RecordText(o, p, e)
  BY DEF RecordText
<1>3. r.head \in Seq(TextUnit) /\ \A k \in 1..m : r.head[k].line \in HeaderLines
  <2>1. [line: HeaderLines, value: Nat] \subseteq TextUnit
    BY DEF TextUnit
  <2>2. r.head \in Seq(TextUnit)
    BY <2>1, <1>1, SeqMonotonic, Zenon
  <2>3. \A k \in 1..m : r.head[k] \in [line: HeaderLines, value: Nat]
    <3> DEFINE H == [line: HeaderLines, value: Nat]
               head == r.head
    <3>1. head \in Seq(H) /\ m = Len(head)
      BY <1>1
    <3> HIDE DEF H, head
    <3>2. \A k \in 1..m : head[k] \in H
      BY <3>1
    <3>3. QED
      BY <3>2 DEF H, head
  <2>4. QED
    BY <2>2, <2>3
<1>4. version \in TextUnit /\ version.line = "version" /\ version.value = <<p, e>>
  <2>1. <<p, e>> \in Seq(Nat)
    BY <1>1
  <2>2. QED
    BY <2>1 DEF TextUnit
<1>5. Blank \in TextUnit /\ Blank.line = "blank"
  BY DEF Blank, Line, TextUnit
<1>6. block \in Seq(TextUnit) /\ Len(block) = z
  <2> HIDE DEF z
  <2>1. \A n \in 1..z : <<p, e, n>> \in Seq(Nat)
    <3> SUFFICES ASSUME NEW n \in Nat PROVE <<p, e, n>> \in Seq(Nat)
      BY <1>1
    <3>1. p \in Nat /\ e \in Nat
      BY <1>1
    <3>2. QED
      BY <3>1
  <2>2. \A n \in 1..z : [line |-> "block", value |-> <<p, e, n>>] \in TextUnit
    BY <2>1 DEF TextUnit
  <2>3. QED
    BY <2>2, <1>1
<1>b. \A n \in 1..z : block[n] = [line |-> "block", value |-> <<p, e, n>>]
  OBVIOUS
<1> HIDE DEF version, block, m, z
<1>7. /\ t2 \in Seq(TextUnit) /\ Len(t2) = m + 1 /\ t2[1] = version
      /\ \A k \in 1..m : t2[1 + k] = r.head[k]
  <2>1. <<version>> \in Seq(TextUnit) /\ Len(<<version>>) = 1 /\ <<version>>[1] = version
    BY <1>4, Singly
  <2>2. /\ t2 \in Seq(TextUnit) /\ Len(t2) = Len(<<version>>) + Len(r.head)
        /\ \A k \in 1..Len(<<version>>) : t2[k] = <<version>>[k]
        /\ \A k \in 1..Len(r.head) : t2[Len(<<version>>) + k] = r.head[k]
    BY <2>1, <1>3, <1>m, Behind
  <2> HIDE DEF t2
  <2>3. 1 \in 1..Len(<<version>>)
    BY <2>1
  <2>4. QED
    BY <2>1, <2>2, <2>3, <1>1, <1>m
<1> HIDE DEF t2
<1>8. /\ t3 \in Seq(TextUnit) /\ Len(t3) = m + 2 /\ t3[m + 2] = Blank
      /\ \A k \in 1..(m + 1) : t3[k] = t2[k]
  <2>1. <<Blank>> \in Seq(TextUnit) /\ Len(<<Blank>>) = 1 /\ <<Blank>>[1] = Blank
    BY <1>5, Singly
  <2>2. /\ t3 \in Seq(TextUnit) /\ Len(t3) = Len(t2) + Len(<<Blank>>)
        /\ \A k \in 1..Len(t2) : t3[k] = t2[k]
        /\ \A k \in 1..Len(<<Blank>>) : t3[Len(t2) + k] = <<Blank>>[k]
    BY <2>1, <1>7, Behind
  <2> HIDE DEF t3
  <2>3. 1 \in 1..Len(<<Blank>>) /\ (m + 1) + 1 = m + 2
    BY <2>1, <1>1
  <2>4. QED
    BY <2>1, <2>2, <2>3, <1>7
<1> HIDE DEF t3
<1>9. /\ t4 \in Seq(TextUnit) /\ Len(t4) = m + 2 + z
      /\ \A k \in 1..(m + 2) : t4[k] = t3[k]
      /\ \A n \in 1..z : t4[(m + 2) + n] = block[n]
  <2>1. /\ t4 \in Seq(TextUnit) /\ Len(t4) = Len(t3) + Len(block)
        /\ \A k \in 1..Len(t3) : t4[k] = t3[k]
        /\ \A k \in 1..Len(block) : t4[Len(t3) + k] = block[k]
    <3>1. t3 \in Seq(TextUnit) /\ block \in Seq(TextUnit)
      BY <1>6, <1>8
    <3>2. QED
      BY <3>1, Behind
  <2> HIDE DEF t4
  <2>2. QED
    BY <2>1, <1>6, <1>8, <1>1
<1> HIDE DEF t4
<1>10. /\ T \in Seq(TextUnit) /\ Len(T) = m + 4 + z
       /\ \A k \in 1..(m + 2 + z) : T[k] = t4[k]
       /\ T[m + 3 + z] = Blank /\ T[m + 4 + z] = Blank
  <2> DEFINE two == <<Blank, Blank>>
  <2>1. two \in Seq(TextUnit) /\ Len(two) = 2 /\ two[1] = Blank /\ two[2] = Blank
    BY <1>5
  <2>2. 1 \in 1..2 /\ 2 \in 1..2
    OBVIOUS
  <2> HIDE DEF two
  <2>3. /\ t4 \o two \in Seq(TextUnit) /\ Len(t4 \o two) = Len(t4) + Len(two)
        /\ \A k \in 1..Len(t4) : (t4 \o two)[k] = t4[k]
        /\ \A k \in 1..Len(two) : (t4 \o two)[Len(t4) + k] = two[k]
    <3>1. t4 \in Seq(TextUnit) /\ two \in Seq(TextUnit)
      BY <2>1, <1>9
    <3>2. QED
      BY <3>1, Behind
  <2>4. T = t4 \o two
    BY DEF two
  <2> HIDE DEF T
  <2>5. /\ (m + 2 + z) + 2 = m + 4 + z /\ (m + 2 + z) + 1 = m + 3 + z
        /\ m + 2 + z \in Nat
    BY <1>1
  <2>6. /\ T \in Seq(TextUnit) /\ Len(T) = (m + 2 + z) + 2
        /\ \A k \in 1..(m + 2 + z) : T[k] = t4[k]
    BY <2>1, <2>3, <2>4, <1>9
  <2>7. T[(m + 2 + z) + 1] = two[1] /\ T[(m + 2 + z) + 2] = two[2]
    BY <2>1, <2>2, <2>3, <2>4, <1>9
  <2>8. QED
    BY <2>5, <2>6, <2>7, <2>1
<1> HIDE DEF T
<1>11. T[1] = version /\ T[m + 2] = Blank
  <2>1. 1 \in 1..(m + 2 + z) /\ m + 2 \in 1..(m + 2 + z) /\ 1 \in 1..(m + 2)
        /\ m + 2 \in 1..(m + 2) /\ 1 \in 1..(m + 1)
    BY <1>1
  <2>2. T[1] = t4[1] /\ T[m + 2] = t4[m + 2]
    BY <2>1, <1>10
  <2>3. t4[1] = t3[1] /\ t4[m + 2] = t3[m + 2] /\ t3[1] = t2[1]
    BY <2>1, <1>9, <1>8
  <2>4. QED
    BY <2>2, <2>3, <1>7, <1>8
<1>12. \A k \in 1..m : T[1 + k] = r.head[k]
  <2> SUFFICES ASSUME NEW k \in 1..m PROVE T[1 + k] = r.head[k]
    OBVIOUS
  <2>1. 1 + k \in 1..(m + 2 + z) /\ 1 + k \in 1..(m + 2) /\ 1 + k \in 1..(m + 1)
    BY <1>1
  <2>2. T[1 + k] = t4[1 + k] /\ t4[1 + k] = t3[1 + k] /\ t3[1 + k] = t2[1 + k]
    BY <2>1, <1>8, <1>9, <1>10
  <2>3. QED
    BY <2>2, <1>7
<1>13. \A n \in 1..z : T[(m + 2) + n] = [line |-> "block", value |-> <<p, e, n>>]
  <2> SUFFICES ASSUME NEW n \in 1..z
               PROVE  T[(m + 2) + n] = [line |-> "block", value |-> <<p, e, n>>]
    OBVIOUS
  <2>1. (m + 2) + n \in 1..(m + 2 + z)
    BY <1>1
  <2>2. T[(m + 2) + n] = t4[(m + 2) + n] /\ t4[(m + 2) + n] = block[n]
    BY <2>1, <1>9, <1>10
  <2>3. QED
    BY <2>2, <1>b
<1>14. ASSUME NEW h \in 1..Len(T), h # 1 PROVE T[h].line # "version"
  <2>1. \/ \E k \in 1..m : h = 1 + k
        \/ h = m + 2
        \/ \E n \in 1..z : h = (m + 2) + n
        \/ h = m + 3 + z \/ h = m + 4 + z
    <3>1. h \in Nat /\ h >= 2 /\ h <= m + 4 + z
      BY <1>14, <1>10, <1>1
    <3>2. CASE h <= m + 1
      <4>1. h - 1 \in 1..m /\ h = 1 + (h - 1)
        BY <3>1, <3>2, <1>1
      <4>2. QED
        BY <4>1
    <3>3. CASE h >= m + 3 /\ h <= m + 2 + z
      <4>1. h - (m + 2) \in 1..z /\ h = (m + 2) + (h - (m + 2))
        BY <3>1, <3>3, <1>1
      <4>2. QED
        BY <4>1
    <3>4. CASE ~(h <= m + 1) /\ ~(h >= m + 3 /\ h <= m + 2 + z)
      BY <3>1, <3>4, <1>1
    <3>5. QED
      BY <3>2, <3>3, <3>4
  <2>2. CASE \E k \in 1..m : h = 1 + k
    BY <2>2, <1>12, <1>3 DEF HeaderLines
  <2>3. CASE \E n \in 1..z : h = (m + 2) + n
    <3>1. PICK n \in 1..z : h = (m + 2) + n
      BY <2>3
    <3>2. T[h] = [line |-> "block", value |-> <<p, e, n>>]
      BY <3>1, <1>13
    <3>3. QED
      BY <3>2
  <2>4. QED
    BY <2>1, <2>2, <2>3, <1>10, <1>11, <1>5
<1>15. Lies(T, 1, o, p, e)
  <2>1. 1 + m + 1 = m + 2 /\ (m + 2) + z <= Len(T)
    BY <1>1, <1>10, SMTT(30)
  <2>2. \A k \in 1..m : T[1 + k].line \in HeaderLines
    BY <1>12, <1>3
  <2>3. QED
    BY <2>1, <2>2, <1>4, <1>5, <1>11, <1>13 DEF Lies, m, z
<1>16. Laid(T, o, p, e)
  <2>1. ASSUME NEW n \in 1..z PROVE T[(m + 2) + n].line = "block"
    <3>1. PICK x : x = T[(m + 2) + n]
      OBVIOUS
    <3>2. x = [line |-> "block", value |-> <<p, e, n>>]
      BY <3>1, <1>13
    <3>3. x.line = "block"
      BY <3>2
    <3>4. QED
      BY <3>1, <3>3
  <2>2. T[1] = [line |-> "version", value |-> <<p, e>>]
    BY <1>11 DEF version
  <2>3. Laid(T, o, p, e) <=>
          /\ Len(T) = m + 4 + z /\ T[1] = [line |-> "version", value |-> <<p, e>>]
          /\ \A k \in 1..m : T[1 + k] = r.head[k]
          /\ T[m + 2].line = "blank"
          /\ \A n \in 1..z : T[(m + 2) + n].line = "block"
          /\ T[m + 3 + z].line = "blank" /\ T[m + 4 + z].line = "blank"
    BY DEF Laid, m, z
  <2>4. QED
    BY <2>1, <2>2, <2>3, <1>5, <1>10, <1>11, <1>12
<1>17. QED
  BY <1>2, <1>4, <1>10, <1>11, <1>14, <1>15, <1>16

(* A record lies in a sequence wherever the sequence it lies in does.      *)
LEMMA LiesIn ==
  ASSUME NEW o \in Objects, NEW p \in 1..Len(o.parts), NEW e \in 1..Len(o.parts[p].text),
         NEW T \in Seq(TextUnit), NEW U \in Seq(TextUnit), NEW a \in Nat,
         \A k \in 1..Len(T) : a + k \in 1..Len(U) /\ U[a + k] = T[k],
         NEW h \in 1..Len(T), Lies(T, h, o, p, e)
  PROVE  Lies(U, a + h, o, p, e)
<1> DEFINE r == o.parts[p].text[e]
           m == Len(r.head)
           z == r.size
           b == h + m + 1
           c == (a + h) + m + 1
<1>1. m \in Nat /\ z \in Nat
  BY ElementOf
<1>2. /\ T[h].value = <<p, e>> /\ b + z <= Len(T) /\ T[b].line = "blank"
      /\ \A k \in 1..m : T[h + k].line \in HeaderLines
      /\ \A n \in 1..z : T[b + n] = [line |-> "block", value |-> <<p, e, n>>]
  BY SMTT(30) DEF Lies
<1>3. h \in Nat /\ h >= 1 /\ Len(T) \in Nat /\ Len(U) \in Nat
  OBVIOUS
<1> SUFFICES /\ U[a + h].value = <<p, e>> /\ c + z <= Len(U) /\ U[c].line = "blank"
             /\ \A k \in 1..m : U[(a + h) + k].line \in HeaderLines
             /\ \A n \in 1..z : U[c + n] = [line |-> "block", value |-> <<p, e, n>>]
  BY DEF Lies
<1> HIDE DEF m, z
<1>l. b + z <= Len(T)
  BY <1>2
<1>4. b \in 1..Len(T) /\ c = a + b /\ b + z \in 1..Len(T) /\ c + z = a + (b + z)
  BY <1>1, <1>l, <1>3
<1>5. \A k \in 1..m : h + k \in 1..Len(T) /\ (a + h) + k = a + (h + k)
  BY <1>1, <1>l, <1>3
<1>6. \A n \in 1..z : b + n \in 1..Len(T) /\ c + n = a + (b + n)
  BY <1>1, <1>l, <1>3
<1>7. U[a + h] = T[h] /\ U[c] = T[b]
  BY <1>4
<1>8. a + (b + z) \in 1..Len(U)
  BY <1>4
<1>9. c + z <= Len(U)
  BY <1>3, <1>4, <1>8
<1> HIDE DEF b, c
<1>10. QED
  BY <1>2, <1>5, <1>6, <1>7, <1>9

(* A text flattened from texts of these parts tells of these parts.        *)
LEMMA FlattenTold ==
  ASSUME NEW o \in Objects, NEW ps, ps \subseteq 1..Len(o.parts),
         NEW ss \in Seq(Seq(TextUnit)), \A i \in 1..Len(ss) : Told(ss[i], o, ps)
  PROVE  Told(FlattenSeq(ss), o, ps)
<1> DEFINE U == FlattenSeq(ss)
<1>1. PICK at : Cuts(ss, at)
  BY Flattened
<1>2. U \in Seq(TextUnit)
  BY Flattened
<1> SUFFICES ASSUME NEW h \in 1..Len(U), U[h].line = "version"
             PROVE  \E p \in ps : \E e \in 1..Len(o.parts[p].text) : Lies(U, h, o, p, e)
  BY DEF Told
<1>3. PICK i \in 1..Len(ss) : \E k \in 1..Len(ss[i]) : h = at[i] + k /\ U[h] = ss[i][k]
  BY <1>1, CutsCover
<1>4. PICK k \in 1..Len(ss[i]) : h = at[i] + k /\ U[h] = ss[i][k]
  BY <1>3
<1>5. PICK p \in ps : \E e \in 1..Len(o.parts[p].text) : Lies(ss[i], k, o, p, e)
  BY <1>4 DEF Told
<1>6. PICK e \in 1..Len(o.parts[p].text) : Lies(ss[i], k, o, p, e)
  BY <1>5
<1>7. /\ \A m \in 1..Len(ss[i]) : at[i] + m \in 1..Len(U) /\ U[at[i] + m] = ss[i][m]
      /\ at[i] \in Nat
  <2>1. i \in 1..(Len(ss) + 1)
    OBVIOUS
  <2>2. QED
    BY <1>1, <2>1 DEF Cuts
<1>8. ss[i] \in Seq(TextUnit) /\ p \in 1..Len(o.parts)
  OBVIOUS
<1> HIDE DEF U
<1>9. Lies(U, at[i] + k, o, p, e)
  BY <1>2, <1>6, <1>7, <1>8, LiesIn
<1>10. QED
  BY <1>4, <1>9

(* An element, the text of a part, and a plain object.                     *)
LEMMA ElementTold ==
  ASSUME NEW o \in Objects, NEW p \in 1..Len(o.parts), NEW e \in 1..Len(o.parts[p].text)
  PROVE  ElementText(o, p, e) \in Seq(TextUnit) /\ Told(ElementText(o, p, e), o, {p})
<1> DEFINE r == o.parts[p].text[e]
<1>1. CASE r.kind \in Captured
  <2>1. ElementText(o, p, e) = RecordText(o, p, e)
    BY <1>1 DEF ElementText, IsRecord
  <2>2. QED
    BY <2>1, RecordLies DEF Told
<1>2. CASE r.kind \notin Captured
  <2>1. ElementText(o, p, e) = <<Line(r.kind)>> /\ r.kind \in {"blank", "garbage"}
    BY <1>2, ElementOf DEF ElementText, IsRecord
  <2>2. Line(r.kind) \in TextUnit /\ Line(r.kind).line # "version"
    BY <2>1 DEF Line, TextUnit, HeaderLines
  <2>3. <<Line(r.kind)>> \in Seq(TextUnit) /\ \A h \in 1..Len(<<Line(r.kind)>>) : <<Line(r.kind)>>[h] = Line(r.kind)
    BY <2>2
  <2>4. QED
    BY <2>1, <2>2, <2>3 DEF Told
<1>3. QED
  BY <1>1, <1>2

(* The text of a part tells of that part alone.                            *)
LEMMA PartTold ==
  ASSUME NEW o \in Objects, NEW p \in 1..Len(o.parts)
  PROVE  PartText(o, p) \in Seq(TextUnit) /\ Told(PartText(o, p), o, {p})
<1> DEFINE ss == [e \in 1..Len(o.parts[p].text) |-> ElementText(o, p, e)]
<1>1. Len(o.parts[p].text) \in Nat
  BY PartOf
<1>2. \A e \in 1..Len(o.parts[p].text) :
        ElementText(o, p, e) \in Seq(TextUnit) /\ Told(ElementText(o, p, e), o, {p})
  BY ElementTold
<1>3. ss \in Seq(Seq(TextUnit)) /\ Len(ss) = Len(o.parts[p].text)
  BY <1>1, <1>2
<1>4. \A e \in 1..Len(ss) : Told(ss[e], o, {p})
  BY <1>2, <1>3
<1>5. PartText(o, p) = FlattenSeq(ss)
  BY DEF PartText
<1> HIDE DEF ss
<1>6. QED
  BY <1>3, <1>4, <1>5, Flattened, FlattenTold

(* What an object holds, its definition read for one object.               *)
LEMMA StoredIs ==
  ASSUME NEW o \in Objects
  PROVE  Stored[o] = FlattenSeq([p \in 1..Len(o.parts) |-> Part(o, p)])
BY DEF Stored

(* The text of a plain object tells of its parts.                          *)
LEMMA StoredTold ==
  ASSUME NEW o \in Objects, ~o.gz
  PROVE  Stored[o] \in Seq(TextUnit) /\ Told(Stored[o], o, 1..Len(o.parts))
<1> DEFINE n == Len(o.parts)
           ss == [p \in 1..n |-> Part(o, p)]
<1>1. n \in Nat
  <2>1. o.parts \in Seq(PartType)
    BY StreamAssumption
  <2>2. QED
    BY <2>1
<1>2. \A p \in 1..n : Part(o, p) \in Seq(TextUnit) /\ Told(Part(o, p), o, 1..n)
  BY PartTold DEF Part, Told
<1>3. ss \in Seq(Seq(TextUnit)) /\ Len(ss) = n
  BY <1>1, <1>2
<1>4. \A p \in 1..Len(ss) : Told(ss[p], o, 1..n)
  BY <1>2, <1>3
<1>5. Stored[o] = FlattenSeq(ss)
  BY StoredIs
<1> HIDE DEF ss
<1>6. QED
  BY <1>3, <1>4, <1>5, Flattened, FlattenTold

(* The units of a gzip member, and where each is.                          *)
PackedUnit == [packed: {"magic", "garbage", "flags", "option", "data", "crc", "isize"},
               content: Nat \cup Seq(TextUnit), end: BOOLEAN]
Unit == TextUnit \cup PackedUnit

(* Units that carry the text: one at least.                                *)
Carriers(o, p) == IF PartText(o, p) = <<>> THEN 1 ELSE Len(PartText(o, p))

MemberShape(M, o, p) ==
  LET t == PartText(o, p)
      q == o.parts[p].opts
      d == o.parts[p].damage
      c == Carriers(o, p)
  IN  /\ 2 + q + c + 2 <= Len(M)
      /\ d # "deflate" => Len(M) = 2 + q + c + 2
      /\ M[1].packed = "magic" <=> d # "magic"
      /\ M[2].packed = "flags" /\ M[2].content = q
      /\ \A i \in 1..q : M[2 + i].packed = "option"
      /\ \A i \in 1..c : /\ M[2 + q + i].packed = "data"
                         /\ M[2 + q + i].content = (IF t = <<>> THEN <<>> ELSE <<t[i]>>)
                         /\ M[2 + q + i].end <=> i = c /\ d # "deflate"
      /\ d = "deflate" => M[2 + q + c + 1].packed = "garbage"

(* Member lays a member out as MemberShape says.                           *)
LEMMA MemberIs ==
  ASSUME NEW o \in Objects, NEW p \in 1..Len(o.parts)
  PROVE  Member(o, p) \in Seq(PackedUnit) /\ MemberShape(Member(o, p), o, p)
<1> DEFINE t == PartText(o, p)
           q == o.parts[p].opts
           d == o.parts[p].damage
           c == Carriers(o, p)
           n == Len(t)
           F(kind) == Packed(kind, <<>>, FALSE)
           fixed == <<F(IF d = "magic" THEN "garbage" ELSE "magic"), Packed("flags", q, FALSE)>>
           options == [i \in 1..q |-> F("option")]
           data == IF n = 0 THEN <<Packed("data", <<>>, d # "deflate")>>
                   ELSE [i \in 1..n |-> Packed("data", <<t[i]>>, i = n /\ d # "deflate")]
           broken == IF d = "deflate" THEN <<F("garbage")>> ELSE <<>>
           trailer == <<F("crc"), F("isize")>>
           m2 == fixed \o options
           m3 == m2 \o data
           m4 == m3 \o broken
           M == m4 \o trailer
<1>1. M = Member(o, p)
  BY DEF Member
<1>2. q \in Nat /\ t \in Seq(TextUnit) /\ d \in {"none", "magic", "deflate"}
  BY PartOf, PartTold
<1>3. n \in Nat /\ (t = <<>> <=> n = 0) /\ c = (IF n = 0 THEN 1 ELSE n) /\ c \in Nat /\ c >= 1
      /\ \A i \in 1..n : t[i] \in TextUnit
  BY <1>2 DEF Carriers
<1> HIDE DEF t, q, d
<1>4. \A kind \in {"magic", "garbage", "flags", "option", "data", "crc", "isize"} :
        /\ F(kind) \in PackedUnit /\ F(kind).packed = kind
        /\ \A s \in Nat \cup Seq(TextUnit) : \A b \in BOOLEAN :
             /\ Packed(kind, s, b) \in PackedUnit
             /\ Packed(kind, s, b).packed = kind
             /\ Packed(kind, s, b).content = s /\ Packed(kind, s, b).end = b
  BY DEF Packed, PackedUnit
<1>5. /\ fixed \in Seq(PackedUnit) /\ Len(fixed) = 2
      /\ fixed[1].packed = "magic" <=> d # "magic"
      /\ fixed[2].packed = "flags" /\ fixed[2].content = q
  <2>1. /\ Packed("flags", q, FALSE) \in PackedUnit
        /\ Packed("flags", q, FALSE).packed = "flags" /\ Packed("flags", q, FALSE).content = q
    BY <1>2 DEF Packed, PackedUnit
  <2> DEFINE first == F(IF d = "magic" THEN "garbage" ELSE "magic")
  <2>2. first \in PackedUnit /\ (first.packed = "magic" <=> d # "magic")
    BY <1>2 DEF Packed, PackedUnit
  <2> DEFINE second == Packed("flags", q, FALSE)
  <2>3. fixed = <<first, second>>
    OBVIOUS
  <2>4. second \in PackedUnit /\ second.packed = "flags" /\ second.content = q
    BY <2>1
  <2> HIDE DEF first, second, fixed
  <2>5. QED
    BY <2>2, <2>3, <2>4
<1>6. options \in Seq(PackedUnit) /\ Len(options) = q /\ \A i \in 1..q : options[i].packed = "option"
  <2>1. F("option") \in PackedUnit /\ F("option").packed = "option"
    BY <1>4
  <2> HIDE DEF F
  <2>2. QED
    BY <2>1, <1>2
<1>7. /\ data \in Seq(PackedUnit) /\ Len(data) = c
      /\ \A i \in 1..c : /\ data[i].packed = "data"
                         /\ data[i].content = (IF t = <<>> THEN <<>> ELSE <<t[i]>>)
                         /\ data[i].end <=> i = c /\ d # "deflate"
  <2>1. CASE n = 0
    <3> DEFINE u == Packed("data", <<>>, d # "deflate")
    <3>1. u \in PackedUnit /\ u.packed = "data" /\ u.content = <<>> /\ (u.end <=> d # "deflate")
      <4>1. <<>> \in Seq(TextUnit)
        OBVIOUS
      <4>2. QED
        BY <4>1 DEF Packed, PackedUnit
    <3>2. data = <<u>> /\ c = 1 /\ t = <<>>
      BY <2>1, <1>3
    <3> HIDE DEF u, data
    <3>3. QED
      BY <3>1, <3>2
  <2>2. CASE n # 0
    <3> DEFINE u(i) == Packed("data", <<t[i]>>, i = n /\ d # "deflate")
    <3>1. ASSUME NEW i \in 1..n
          PROVE  /\ u(i) \in PackedUnit /\ u(i).packed = "data" /\ u(i).content = <<t[i]>>
                 /\ u(i).end <=> i = n /\ d # "deflate"
      <4>1. <<t[i]>> \in Seq(TextUnit)
        BY <1>3, Singly
      <4>2. QED
        BY <4>1 DEF Packed, PackedUnit
    <3>2. data = [i \in 1..n |-> u(i)] /\ c = n /\ t # <<>>
      BY <2>2, <1>3
    <3> HIDE DEF u, data
    <3>3. data \in Seq(PackedUnit) /\ Len(data) = n /\ \A i \in 1..n : data[i] = u(i)
      BY <3>1, <3>2, <1>3
    <3>4. QED
      BY <3>1, <3>2, <3>3
  <2>3. QED
    BY <2>1, <2>2
<1>8. /\ broken \in Seq(PackedUnit)
      /\ d # "deflate" => Len(broken) = 0
      /\ d = "deflate" => Len(broken) = 1 /\ broken[1].packed = "garbage"
  <2>1. F("garbage") \in PackedUnit /\ F("garbage").packed = "garbage"
    BY <1>4
  <2> HIDE DEF F
  <2>2. QED
    BY <2>1
<1>9. trailer \in Seq(PackedUnit) /\ Len(trailer) = 2
  <2>1. F("crc") \in PackedUnit /\ F("isize") \in PackedUnit
    BY <1>4
  <2> HIDE DEF F
  <2>2. QED
    BY <2>1
<1> HIDE DEF fixed, options, data, broken, trailer, c
<1>10. /\ m2 \in Seq(PackedUnit) /\ Len(m2) = 2 + q
       /\ \A i \in 1..2 : m2[i] = fixed[i]
       /\ \A i \in 1..q : m2[2 + i] = options[i]
  <2>1. fixed \in Seq(PackedUnit) /\ options \in Seq(PackedUnit)
    BY <1>5, <1>6
  <2>2. /\ m2 \in Seq(PackedUnit) /\ Len(m2) = Len(fixed) + Len(options)
        /\ \A i \in 1..Len(fixed) : m2[i] = fixed[i]
        /\ \A i \in 1..Len(options) : m2[Len(fixed) + i] = options[i]
    BY <2>1, Behind
  <2> HIDE DEF m2
  <2>3. QED
    BY <2>2, <1>5, <1>6
<1> HIDE DEF m2
<1>11. /\ m3 \in Seq(PackedUnit) /\ Len(m3) = (2 + q) + c
       /\ \A i \in 1..(2 + q) : m3[i] = m2[i]
       /\ \A i \in 1..c : m3[(2 + q) + i] = data[i]
  <2>1. m2 \in Seq(PackedUnit) /\ data \in Seq(PackedUnit)
    BY <1>7, <1>10
  <2>2. /\ m3 \in Seq(PackedUnit) /\ Len(m3) = Len(m2) + Len(data)
        /\ \A i \in 1..Len(m2) : m3[i] = m2[i]
        /\ \A i \in 1..Len(data) : m3[Len(m2) + i] = data[i]
    BY <2>1, Behind
  <2> HIDE DEF m3
  <2>3. QED
    BY <2>2, <1>7, <1>10
<1> HIDE DEF m3
<1>12. /\ m4 \in Seq(PackedUnit) /\ Len(m4) = (2 + q + c) + Len(broken)
       /\ \A i \in 1..(2 + q + c) : m4[i] = m3[i]
       /\ d = "deflate" => m4[2 + q + c + 1].packed = "garbage"
  <2>1. m3 \in Seq(PackedUnit) /\ broken \in Seq(PackedUnit)
    BY <1>8, <1>11
  <2>2. /\ m4 \in Seq(PackedUnit) /\ Len(m4) = Len(m3) + Len(broken)
        /\ \A i \in 1..Len(m3) : m4[i] = m3[i]
        /\ \A i \in 1..Len(broken) : m4[Len(m3) + i] = broken[i]
    BY <2>1, Behind
  <2> HIDE DEF m4
  <2>3. d = "deflate" => m4[Len(m3) + 1] = broken[1]
    <3>1. d = "deflate" => 1 \in 1..Len(broken)
      <4>1. d = "deflate" => Len(broken) = 1
        BY <1>8
      <4>2. QED
        BY <4>1
    <3>2. QED
      BY <2>2, <3>1
  <2>4. Len(m3) = 2 + q + c
    BY <1>11
  <2>5. QED
    BY <2>2, <2>3, <2>4, <1>8
<1> HIDE DEF m4
<1>13. /\ M \in Seq(PackedUnit) /\ Len(M) = (2 + q + c) + Len(broken) + 2
       /\ \A i \in 1..((2 + q + c) + Len(broken)) : M[i] = m4[i]
  <2>1. m4 \in Seq(PackedUnit) /\ trailer \in Seq(PackedUnit)
    BY <1>9, <1>12
  <2>2. /\ M \in Seq(PackedUnit) /\ Len(M) = Len(m4) + Len(trailer)
        /\ \A i \in 1..Len(m4) : M[i] = m4[i]
    BY <2>1, Behind
  <2> HIDE DEF M
  <2>3. QED
    BY <2>2, <1>9, <1>12
<1> HIDE DEF M
<1>14. Len(broken) \in {0, 1} /\ (d = "deflate" <=> Len(broken) = 1)
  <2>1. CASE d = "deflate"
    BY <1>8, <2>1
  <2>2. CASE d # "deflate"
    BY <1>8, <2>2
  <2>3. QED
    BY <2>1, <2>2
<1>a. q \in Nat /\ c \in Nat /\ c >= 1
  BY <1>2, <1>3
<1>l. Len(broken) \in Nat /\ Len(broken) >= 0
  BY <1>14
<1>15. \A i \in 1..(2 + q + c) : M[i] = m3[i]
  <2>1. \A i \in 1..(2 + q + c) : i \in 1..((2 + q + c) + Len(broken))
    BY <1>a, <1>l
  <2>2. QED
    BY <2>1, <1>12, <1>13
<1>16. \A i \in 1..(2 + q) : M[i] = m2[i]
  <2>1. \A i \in 1..(2 + q) : i \in 1..(2 + q + c)
    BY <1>a
  <2>2. QED
    BY <2>1, <1>11, <1>15
<1>17. (M[1].packed = "magic" <=> d # "magic") /\ M[2].packed = "flags" /\ M[2].content = q
  <2>1. 1 \in 1..(2 + q) /\ 2 \in 1..(2 + q) /\ 1 \in 1..2 /\ 2 \in 1..2
    BY <1>2
  <2>2. M[1] = fixed[1] /\ M[2] = fixed[2]
    BY <2>1, <1>10, <1>16
  <2>3. QED
    BY <2>2, <1>5
<1>18. \A i \in 1..q : M[2 + i].packed = "option"
  <2>1. \A i \in 1..q : 2 + i \in 1..(2 + q)
    BY <1>2
  <2>2. QED
    BY <2>1, <1>6, <1>10, <1>16
<1>19. \A i \in 1..c : M[2 + q + i] = data[i]
  <2>1. \A i \in 1..c : (2 + q) + i \in 1..(2 + q + c)
    BY <1>a
  <2>2. QED
    BY <2>1, <1>11, <1>15
<1>20. d = "deflate" => M[2 + q + c + 1].packed = "garbage"
  <2>1. d = "deflate" => 2 + q + c + 1 \in 1..((2 + q + c) + Len(broken))
    <3>1. d = "deflate" => Len(broken) = 1
      BY <1>14
    <3>2. QED
      BY <3>1, <1>a, SMTT(30)
  <2>2. QED
    BY <2>1, <1>12, <1>13
<1>21. 2 + q + c + 2 <= Len(M) /\ (d # "deflate" => Len(M) = 2 + q + c + 2)
  <2>1. Len(M) = (2 + q + c) + Len(broken) + 2
    BY <1>13
  <2>2. 2 + q + c + 2 <= Len(M)
    BY <2>1, <1>a, <1>l
  <2>3. d # "deflate" => Len(broken) = 0
    BY <1>8
  <2>4. QED
    BY <2>1, <2>2, <2>3, <1>a
<1>22. MemberShape(M, o, p)
  <2>1. \A i \in 1..c : /\ M[2 + q + i].packed = "data"
                        /\ M[2 + q + i].content = (IF t = <<>> THEN <<>> ELSE <<t[i]>>)
                        /\ M[2 + q + i].end <=> i = c /\ d # "deflate"
    BY <1>19, <1>7
  <2>2. QED
    BY <2>1, <1>17, <1>18, <1>20, <1>21 DEF MemberShape, t, q, d, c
<1>23. QED
  BY <1>1, <1>13, <1>22

(* An object is made of its parts; where each begins.                      *)
Parts(o) == [p \in 1..Len(o.parts) |-> Part(o, p)]
Starts(o) == CHOOSE at : Cuts(Parts(o), at)

(* What an object holds is a sequence of units.                            *)
LEMMA StoredUnits ==
  ASSUME NEW o \in Objects
  PROVE  Stored[o] \in Seq(Unit) /\ Len(Stored[o]) \in Nat
<1>1. o.gz \in BOOLEAN /\ o.parts \in Seq(PartType)
  BY StreamAssumption
<1>2. Len(o.parts) \in Nat
  BY <1>1
<1>3. \A p \in 1..Len(o.parts) : Part(o, p) \in Seq(Unit)
  <2> TAKE p \in 1..Len(o.parts)
  <2>1. CASE o.gz
    <3>1. Member(o, p) \in Seq(PackedUnit) /\ PackedUnit \subseteq Unit
      BY MemberIs DEF Unit
    <3>2. Member(o, p) \in Seq(Unit)
      BY <3>1, SeqMonotonic, Zenon
    <3>3. QED
      BY <2>1, <3>2 DEF Part
  <2>2. CASE ~o.gz
    <3>1. PartText(o, p) \in Seq(TextUnit) /\ TextUnit \subseteq Unit
      BY PartTold DEF Unit
    <3>2. PartText(o, p) \in Seq(Unit)
      BY <3>1, SeqMonotonic, Zenon
    <3>3. QED
      BY <2>2, <3>2 DEF Part
  <2>3. QED
    BY <2>1, <2>2
<1>4. Parts(o) \in Seq(Seq(Unit))
  BY <1>2, <1>3 DEF Parts
<1>5. Stored[o] = FlattenSeq(Parts(o))
  BY StoredIs DEF Parts
<1>6. QED
  BY <1>4, <1>5, Flattened

(* In a gzip object each member begins where the one before ends.          *)
LEMMA StoredParts ==
  ASSUME NEW o \in Objects, o.gz
  PROVE  LET n == Len(o.parts)
             A == Starts(o)
         IN  /\ n \in Nat /\ A \in [1..(n + 1) -> Nat] /\ A[1] = 0 /\ A[n + 1] = Len(Stored[o])
             /\ \A p \in 1..n : A[p + 1] = A[p] + Len(Member(o, p))
             /\ \A p \in 1..n : \A k \in 1..Len(Member(o, p)) :
                  /\ A[p] + k \in 1..Len(Stored[o])
                  /\ Stored[o][A[p] + k] = Member(o, p)[k]
<1> DEFINE n == Len(o.parts)
           ss == Parts(o)
<1>1. n \in Nat
  <2>1. o.parts \in Seq(PartType)
    BY StreamAssumption
  <2>2. QED
    BY <2>1
<1>2. \A p \in 1..n : ss[p] = Member(o, p) /\ Member(o, p) \in Seq(PackedUnit)
  BY MemberIs DEF Parts, Part
<1>3. ss \in Seq(Seq(PackedUnit)) /\ Len(ss) = n
  <2>1. \A p \in 1..n : Part(o, p) \in Seq(PackedUnit)
    BY MemberIs DEF Part
  <2>2. QED
    BY <2>1, <1>1 DEF Parts
<1>4. Stored[o] = FlattenSeq(ss)
  BY StoredIs DEF Parts
<1>5. Cuts(ss, Starts(o))
  <2>1. \E at : Cuts(ss, at)
    BY <1>3, Flattened
  <2>2. QED
    BY <2>1 DEF Starts
<1> HIDE DEF ss, n
<1> DEFINE A == Starts(o)
<1>6. A \in [1..(n + 1) -> Nat] /\ A[1] = 0 /\ A[n + 1] = Len(Stored[o])
  BY <1>3, <1>4, <1>5 DEF Cuts
<1>7. \A p \in 1..n : A[p + 1] = A[p] + Len(Member(o, p))
  BY <1>2, <1>3, <1>5 DEF Cuts
<1>8. ASSUME NEW p \in 1..n, NEW k \in 1..Len(Member(o, p))
      PROVE  A[p] + k \in 1..Len(Stored[o]) /\ Stored[o][A[p] + k] = Member(o, p)[k]
  <2>1. ss[p] = Member(o, p) /\ p \in 1..Len(ss)
    BY <1>2, <1>3
  <2>2. \A j \in 1..Len(ss[p]) : /\ A[p] + j \in 1..Len(FlattenSeq(ss))
                                 /\ FlattenSeq(ss)[A[p] + j] = ss[p][j]
    BY <2>1, <1>5 DEF Cuts
  <2>3. QED
    BY <2>1, <2>2, <1>4
<1>9. QED
  BY <1>1, <1>6, <1>7, <1>8 DEF n

-----------------------------------------------------------------------------
(* The stream.  s holds the units of T behind the first n.                 *)
Window(s, T, n) ==
  /\ s \in Seq(Unit) /\ n \in Nat /\ n + Len(s) <= Len(T)
  /\ \A k \in 1..Len(s) : s[k] = T[n + k]

(* The chunks in the channel are the units behind those read, and those    *)
(* read and not consumed are the ones behind pos.                          *)
Underway(at) ==
  /\ at \in [1..(Len(channel) + 1) -> Nat]
  /\ at[1] = raw_pos /\ at[Len(channel) + 1] = sent
  /\ \A i \in 1..Len(channel) :
       at[i + 1] = at[i] + Len(channel[i]) /\ Window(channel[i], Stored[obj], at[i])

Streamed ==
  /\ obj \in Objects
  /\ sent \in Nat /\ cut \in Nat /\ sent <= cut /\ cut <= Len(Stored[obj])
  /\ raw_pos \in Nat /\ channel \in Seq(Seq(Unit))
  /\ \E at : Underway(at)
  /\ Len(buf) <= raw_pos /\ Window(buf, Stored[obj], pos)

(* Two adjacent windows join: a chunk goes behind the buffer.              *)
LEMMA WindowJoin ==
  ASSUME NEW T \in Seq(Unit), NEW s, NEW u, NEW n, Window(s, T, n), Window(u, T, n + Len(s))
  PROVE  Window(s \o u, T, n) /\ Len(s \o u) = Len(s) + Len(u)
<1>1. s \in Seq(Unit) /\ u \in Seq(Unit) /\ n \in Nat /\ Len(s) \in Nat /\ Len(u) \in Nat
  BY DEF Window
<1> DEFINE j == s \o u
<1>2. /\ j \in Seq(Unit) /\ Len(j) = Len(s) + Len(u)
      /\ \A i \in 1..(Len(s) + Len(u)) :
           j[i] = IF i <= Len(s) THEN s[i] ELSE u[i - Len(s)]
  BY <1>1, ConcatProperties
<1> HIDE DEF j
<1>3. n + Len(j) <= Len(T)
  <2>1. (n + Len(s)) + Len(u) <= Len(T) /\ Len(T) \in Nat
    BY DEF Window
  <2>2. QED
    BY <2>1, <1>1, <1>2
<1>4. ASSUME NEW k \in 1..Len(j) PROVE j[k] = T[n + k]
  <2>1. k \in 1..(Len(s) + Len(u))
    BY <1>2
  <2>2. CASE k <= Len(s)
    <3>1. k \in 1..Len(s)
      BY <2>1, <2>2, <1>1
    <3>2. QED
      BY <2>1, <2>2, <3>1, <1>2 DEF Window
  <2>3. CASE ~(k <= Len(s))
    <3>1. k - Len(s) \in 1..Len(u) /\ (n + Len(s)) + (k - Len(s)) = n + k
      BY <2>1, <2>3, <1>1
    <3>2. u[k - Len(s)] = T[(n + Len(s)) + (k - Len(s))]
      BY <3>1 DEF Window
    <3>3. QED
      BY <2>1, <2>3, <3>1, <3>2, <1>2
  <2>4. QED
    BY <2>2, <2>3
<1>5. QED
  BY <1>1, <1>2, <1>3, <1>4 DEF Window, j

(* A subsequence is a window of what it is cut from.                       *)
LEMMA WindowCut ==
  ASSUME NEW T \in Seq(Unit), NEW n \in Nat, NEW m \in Nat, n <= m, m <= Len(T)
  PROVE  Window(SubSeq(T, n + 1, m), T, n) /\ Len(SubSeq(T, n + 1, m)) = m - n
<1> DEFINE s == SubSeq(T, n + 1, m)
<1>1. \A i \in (n + 1)..m : T[i] \in Unit
  BY ElementOfSeq
<1>2. /\ s \in Seq(Unit)
      /\ Len(s) = IF n + 1 <= m THEN m - (n + 1) + 1 ELSE 0
      /\ \A i \in 1..(m - (n + 1) + 1) : s[i] = T[(n + 1) + i - 1]
  BY <1>1, SubSeqProperties
<1> HIDE DEF s
<1>3. Len(s) = m - n /\ m - (n + 1) + 1 = m - n
  BY <1>2
<1>4. \A i \in 1..(m - n) : (n + 1) + i - 1 = n + i
  OBVIOUS
<1>5. n + Len(s) <= Len(T)
  BY <1>3
<1>6. QED
  BY <1>2, <1>3, <1>4, <1>5 DEF Window, s

(* What is left when w units have been consumed.                           *)
LEMMA WindowRest ==
  ASSUME NEW T \in Seq(Unit), NEW s, NEW n, Window(s, T, n), NEW w \in Nat, w <= Len(s)
  PROVE  LET r == SubSeq(s, w + 1, Len(s)) IN
         /\ Window(r, T, n + w) /\ Len(r) = Len(s) - w
         /\ \A k \in 1..Len(r) : r[k] = s[w + k]
<1> DEFINE r == SubSeq(s, w + 1, Len(s))
<1>1. s \in Seq(Unit) /\ Len(s) \in Nat /\ n \in Nat /\ n + Len(s) <= Len(T) /\ Len(T) \in Nat
  BY DEF Window
<1>2. Window(r, s, w) /\ Len(r) = Len(s) - w
  BY <1>1, WindowCut
<1> HIDE DEF r
<1>3. r \in Seq(Unit) /\ \A k \in 1..Len(r) : r[k] = s[w + k]
  BY <1>2 DEF Window
<1>4. \A k \in 1..Len(r) : w + k \in 1..Len(s) /\ n + (w + k) = (n + w) + k
  BY <1>1, <1>2
<1>5. \A k \in 1..Len(r) : r[k] = T[(n + w) + k]
  BY <1>3, <1>4 DEF Window
<1>6. (n + w) + Len(r) <= Len(T)
  BY <1>1, <1>2
<1>7. n + w \in Nat
  BY <1>1
<1>8. QED
  BY <1>2, <1>3, <1>5, <1>6, <1>7 DEF Window, r

(* Init: nothing is on its way.                                            *)
LEMMA StreamInit == Init => Streamed
<1> SUFFICES ASSUME Init PROVE Streamed
  OBVIOUS
<1>1. obj \in Objects /\ sent = 0 /\ raw_pos = 0 /\ buf = <<>> /\ channel = <<>>
  BY DEF Init
<1>2. Stored[obj] \in Seq(Unit) /\ Len(Stored[obj]) \in Nat
  BY <1>1, StoredUnits
<1>3. cut \in 0..Len(Stored[obj])
  BY <1>2 DEF Init
<1>4. Underway([i \in 1..1 |-> 0])
  BY <1>1 DEF Underway
<1>5. pos = 0 /\ Len(buf) = 0 /\ Window(buf, Stored[obj], 0)
  <2>1. Len(buf) = 0 /\ buf \in Seq(Unit)
    BY <1>1
  <2>2. QED
    BY <2>1, <1>1, <1>2 DEF pos, Window
<1>6. QED
  BY <1>1, <1>2, <1>3, <1>4, <1>5 DEF Streamed

(* Chunks are sent in order, ...                                           *)
LEMMA SendStep ==
  ASSUME Streamed, Send
  PROVE  Streamed' /\ pos' = pos
<1>1. obj' = obj /\ cut' = cut /\ buf' = buf /\ raw_pos' = raw_pos /\ pos' = pos
  BY DEF Send, parser, pos
<1> DEFINE T == Stored[obj]
<1>2. T \in Seq(Unit) /\ Len(T) \in Nat
  BY StoredUnits DEF Streamed
<1>3. PICK n \in 1..MaxChunk :
        /\ sent + n <= cut /\ sent' = sent + n
        /\ channel' = Append(channel, SubSeq(T, sent + 1, sent + n))
  BY DEF Send
<1>4. n \in Nat
  OBVIOUS
<1> HIDE DEF T
<1> DEFINE c == SubSeq(T, sent + 1, sent + n)
<1>5. sent \in Nat /\ sent + n <= Len(T) /\ sent' \in Nat /\ sent <= sent + n
  <2>1. sent \in Nat /\ cut \in Nat /\ cut <= Len(T)
    BY DEF Streamed, T
  <2>2. QED
    BY <2>1, <1>2, <1>3, <1>4
<1>6. Window(c, T, sent) /\ Len(c) = n
  <2>1. Window(c, T, sent) /\ Len(c) = (sent + n) - sent
    BY <1>2, <1>4, <1>5, WindowCut
  <2>2. QED
    BY <2>1, <1>4, <1>5
<1> HIDE DEF c
<1>7. /\ channel' \in Seq(Seq(Unit)) /\ Len(channel') = Len(channel) + 1
      /\ channel'[Len(channel) + 1] = c
      /\ \A i \in 1..Len(channel) : channel'[i] = channel[i]
  <2>1. c \in Seq(Unit) /\ channel \in Seq(Seq(Unit))
    BY <1>6 DEF Window, Streamed
  <2>2. channel' = Append(channel, c)
    BY <1>3 DEF c
  <2>3. QED
    BY <2>1, <2>2, AppendProperties
<1>8. PICK at : Underway(at)
  BY DEF Streamed
<1>9. Len(channel) \in Nat
  BY DEF Streamed
<1>f. PICK next :
        next = [i \in 1..(Len(channel') + 1) |-> IF i = Len(channel') + 1 THEN sent' ELSE at[i]]
  OBVIOUS
<1>10. Underway(next)'
  <2>1. \A i \in 1..(Len(channel) + 1) : next[i] = at[i] /\ at[i] \in Nat
    BY <1>f, <1>7, <1>8, <1>9 DEF Underway
  <2>2. next[Len(channel') + 1] = sent' /\ next \in [1..(Len(channel') + 1) -> Nat]
    <3>1. \A i \in 1..(Len(channel') + 1) : i = Len(channel') + 1 \/ i \in 1..(Len(channel) + 1)
      BY <1>7, <1>9
    <3>2. Len(channel') + 1 \in 1..(Len(channel') + 1)
      BY <1>7, <1>9
    <3>3. QED
      BY <3>1, <3>2, <2>1, <1>5, <1>f
  <2>3. ASSUME NEW i \in 1..Len(channel')
        PROVE  next[i + 1] = next[i] + Len(channel'[i]) /\ Window(channel'[i], T, next[i])
    <3>1. CASE i \in 1..Len(channel)
      <4>1. i \in 1..(Len(channel) + 1) /\ i + 1 \in 1..(Len(channel) + 1)
        BY <3>1, <1>9
      <4>2. at[i + 1] = at[i] + Len(channel[i]) /\ Window(channel[i], T, at[i])
        BY <3>1, <1>8 DEF Underway, T
      <4>3. QED
        BY <4>1, <4>2, <3>1, <2>1, <1>7
    <3>2. CASE i \notin 1..Len(channel)
      <4>1. i = Len(channel) + 1 /\ i + 1 = Len(channel') + 1 /\ i \in 1..(Len(channel) + 1)
        BY <3>2, <1>7, <1>9
      <4>2. next[i + 1] = sent + n /\ next[i] = sent /\ channel'[i] = c
        BY <4>1, <2>1, <2>2, <1>3, <1>7, <1>8 DEF Underway
      <4>3. QED
        BY <4>2, <1>6
    <3>3. QED
      BY <3>1, <3>2
  <2>4. next[1] = raw_pos'
    <3>1. 1 \in 1..(Len(channel) + 1)
      BY <1>9
    <3>2. QED
      BY <3>1, <2>1, <1>1, <1>8 DEF Underway
  <2>5. QED
    BY <2>2, <2>3, <2>4, <1>1 DEF Underway, T
<1>11. sent' <= cut'
  BY <1>1, <1>3
<1>12. (\E at2 : Underway(at2))'
  BY <1>10
<1>13. QED
  BY <1>1, <1>5, <1>7, <1>11, <1>12 DEF Streamed

(* ... read in order, ...                                                  *)
LEMMA ReadStep ==
  ASSUME Streamed, Read
  PROVE  Streamed' /\ pos' = pos
<1>1. /\ channel # <<>> /\ buf' = buf \o Head(channel)
      /\ raw_pos' = raw_pos + Len(Head(channel)) /\ channel' = Tail(channel)
      /\ obj' = obj /\ cut' = cut /\ sent' = sent
  BY DEF Read
<1> DEFINE T == Stored[obj]
           c == channel[1]
           n == Len(channel)
<1>2. T \in Seq(Unit) /\ Len(T) \in Nat
  BY StoredUnits DEF Streamed
<1>3. channel \in Seq(Seq(Unit)) /\ n \in Nat /\ n >= 1 /\ Head(channel) = c
  BY <1>1 DEF Streamed
<1>4. PICK at : Underway(at)
  BY DEF Streamed
<1> HIDE DEF T
<1>5. /\ at \in [1..(n + 1) -> Nat] /\ at[1] = raw_pos /\ at[n + 1] = sent
      /\ \A i \in 1..n : at[i + 1] = at[i] + Len(channel[i]) /\ Window(channel[i], T, at[i])
  BY <1>4 DEF Underway, T
<1>6. Window(c, T, raw_pos) /\ c \in Seq(Unit) /\ Len(c) \in Nat /\ at[2] = raw_pos + Len(c)
  <2>1. 1 \in 1..n /\ 1 + 1 = 2
    BY <1>3
  <2>2. Window(c, T, raw_pos) /\ at[2] = raw_pos + Len(c)
    BY <2>1, <1>5
  <2>3. c \in Seq(Unit)
    BY <2>2 DEF Window
  <2>4. QED
    BY <2>2, <2>3
<1> HIDE DEF c
<1>7. buf \in Seq(Unit) /\ Len(buf) \in Nat /\ raw_pos \in Nat /\ pos + Len(buf) = raw_pos
  <2>1. buf \in Seq(Unit) /\ raw_pos \in Nat
    BY DEF Streamed, Window
  <2>2. Len(buf) \in Nat
    BY <2>1
  <2>3. QED
    BY <2>1, <2>2 DEF pos
<1>8. Window(buf', T, pos) /\ Len(buf') = Len(buf) + Len(c)
  <2>1. Window(buf, T, pos) /\ Window(c, T, pos + Len(buf))
    BY <1>6, <1>7 DEF Streamed, T
  <2>2. QED
    BY <2>1, <1>1, <1>2, <1>3, WindowJoin
<1>9. pos' = pos /\ raw_pos' \in Nat /\ Len(buf') <= raw_pos'
  <2>1. raw_pos' = raw_pos + Len(c) /\ Len(buf') = Len(buf) + Len(c)
    BY <1>1, <1>3, <1>8
  <2>2. Len(buf) <= raw_pos
    BY DEF Streamed
  <2>3. pos' = raw_pos' - Len(buf') /\ pos = raw_pos - Len(buf)
    BY DEF pos
  <2>4. QED
    BY <2>1, <2>2, <2>3, <1>6, <1>7
<1>10. /\ channel' \in Seq(Seq(Unit)) /\ Len(channel') = n - 1
       /\ \A i \in 1..(n - 1) : channel'[i] = channel[i + 1]
  BY <1>1, <1>3, HeadTailProperties
<1> HIDE DEF n
<1>11. PICK next : next = [i \in 1..n |-> at[i + 1]]
  OBVIOUS
<1>12. Underway(next)'
  <2>1. next \in [1..n -> Nat] /\ n - 1 + 1 = n
    <3>1. \A i \in 1..n : i + 1 \in 1..(n + 1)
      BY <1>3
    <3>2. \A i \in 1..n : at[i + 1] \in Nat
      BY <3>1, <1>5
    <3>3. QED
      BY <3>2, <1>3, <1>11
  <2>2. next[1] = raw_pos' /\ next[n] = sent'
    <3>1. 1 \in 1..n /\ n \in 1..n /\ 1 + 1 = 2
      BY <1>3
    <3>2. next[1] = at[2] /\ next[n] = at[n + 1]
      BY <3>1, <1>11
    <3>3. QED
      BY <3>2, <1>1, <1>3, <1>5, <1>6
  <2>3. ASSUME NEW i \in 1..(n - 1)
        PROVE  next[i + 1] = next[i] + Len(channel'[i]) /\ Window(channel'[i], T, next[i])
    <3>1. i \in 1..n /\ i + 1 \in 1..n
      BY <1>3
    <3>2. next[i] = at[i + 1] /\ next[i + 1] = at[(i + 1) + 1] /\ channel'[i] = channel[i + 1]
      BY <3>1, <1>10, <1>11
    <3>3. at[(i + 1) + 1] = at[i + 1] + Len(channel[i + 1]) /\ Window(channel[i + 1], T, at[i + 1])
      BY <3>1, <1>5
    <3>4. QED
      BY <3>2, <3>3
  <2>4. QED
    BY <2>1, <2>2, <2>3, <1>1, <1>10 DEF Underway, T
<1>13. (\E at2 : Underway(at2))'
  BY <1>12
<1>14. QED
  BY <1>1, <1>8, <1>9, <1>10, <1>13 DEF Streamed, T

(* ... and consumed in order.                                              *)
LEMMA StreamKept ==
  ASSUME Streamed, UNCHANGED <<obj, cut, sent, channel, raw_pos, buf>>
  PROVE  Streamed' /\ pos' = pos
<1>1. pos' = pos
  BY DEF pos
<1>2. \A at : Underway(at) => Underway(at)'
  BY DEF Underway
<1>3. (\E at : Underway(at))'
  BY <1>2 DEF Streamed
<1>4. QED
  BY <1>1, <1>3 DEF Streamed

(* Consuming from the buffer moves pos by what is consumed.                *)
LEMMA ConsumeStep ==
  ASSUME Streamed, UNCHANGED <<obj, cut, sent, channel, raw_pos>>,
         want \in Nat, Len(buf) >= want, buf' = SubSeq(buf, want + 1, Len(buf))
  PROVE  Streamed' /\ pos' = pos + want
<1> DEFINE T == Stored[obj]
<1>1. T \in Seq(Unit) /\ Window(buf, T, pos) /\ Len(buf) \in Nat /\ raw_pos \in Nat
      /\ Len(buf) <= raw_pos
  BY StoredUnits DEF Streamed, Window
<1>2. want <= Len(buf)
  BY <1>1
<1> HIDE DEF T
<1>3. Window(buf', T, pos + want) /\ Len(buf') = Len(buf) - want
  BY <1>1, <1>2, WindowRest
<1>4. pos' = pos + want /\ Len(buf') <= raw_pos'
  <2>1. pos' = raw_pos - Len(buf') /\ pos = raw_pos - Len(buf) /\ raw_pos' = raw_pos
    BY DEF pos
  <2>2. QED
    <3> DEFINE a == Len(buf)
               b == Len(buf')
    <3>1. a \in Nat /\ raw_pos \in Nat /\ b = a - want /\ want <= a /\ a <= raw_pos
      BY <1>1, <1>2, <1>3
    <3>2. pos' = raw_pos - b /\ pos = raw_pos - a /\ raw_pos' = raw_pos
      BY <2>1
    <3> HIDE DEF a, b
    <3>3. pos' = pos + want /\ b <= raw_pos'
      BY <3>1, <3>2
    <3>4. QED
      BY <3>3 DEF b
<1>5. \A at : Underway(at) => Underway(at)'
  BY DEF Underway
<1>6. (\E at : Underway(at))'
  BY <1>5 DEF Streamed
<1>7. QED
  BY <1>3, <1>4, <1>6 DEF Streamed, T

-----------------------------------------------------------------------------
(* The records of a text T, read from its front: offset units of it are    *)
(* consumed.  The version line of the record being read is unit            *)
(* header.offset of T, no empty line follows it before unit b, which ends  *)
(* the header, and in a gzip member only empty lines precede it.           *)
Records == {"record", "header", "block", "terminator"}
HeaderType == [of: Seq(Nat), offset: Nat, length: Seq(Nat), last: {"none", "field", "length"},
               size: Nat]

OnlyBlank(T, n) == \A k \in 1..n : T[k].line = "blank"
NoBlank(T, n, m) == \A k \in n..m : T[k].line # "blank"

Began(T) ==
  /\ header.offset \in 1..Len(T)
  /\ T[header.offset].line = "version" /\ header.of = T[header.offset].value
  /\ obj.gz => OnlyBlank(T, header.offset - 1)

Declared == Len(header.length) = 1

Ended(T, b) ==
  /\ b \in (header.offset + 2)..Len(T) /\ T[b].line = "blank"
  /\ NoBlank(T, header.offset + 1, b - 1)

Parsed(T) ==
  /\ Window(Input, T, offset)
  /\ phase = "record" => want = 1 /\ (obj.gz => OnlyBlank(T, offset))
  /\ phase = "header" =>
       /\ want = 1 /\ Began(T)
       /\ header.offset <= offset /\ NoBlank(T, header.offset + 1, offset)
       /\ header.length = <<>> \/ (Declared /\ header.offset + 1 <= offset)
  /\ phase = "block" =>
       want = header.length[1] /\ Began(T) /\ Declared /\ Ended(T, offset)
  /\ phase = "terminator" =>
       /\ want = 2 /\ Began(T) /\ Declared
       /\ \E b \in Nat : b + header.length[1] = offset /\ Ended(T, b)

(* What a row claims of the text its record was read from.                 *)
Placed(T, row) ==
  /\ row.offset \in 1..Len(T)
  /\ T[row.offset].line = "version" /\ row.of = T[row.offset].value
  /\ \E b \in (row.offset + 2)..Len(T) :
       /\ T[b].line = "blank" /\ NoBlank(T, row.offset + 1, b - 1)
       /\ b + row.length + 1 \in 1..Len(T) /\ T[b + row.length + 1].line = "blank"

(* Where the parsing thread looks, what it reads, and what it takes.       *)
Reads(T) ==
  /\ T \in Seq(TextUnit) /\ T \in Seq(Unit) /\ obj.gz \in BOOLEAN
  /\ phase \in Records /\ header \in HeaderType /\ Parsed(T)

Takes(w) ==
  /\ obj' = obj /\ offset' = offset + w /\ w <= Len(Input) /\ w \in Nat
  /\ Input' = SubSeq(Input, w + 1, Len(Input))

(* After a step of the reader its input begins at the new offset.          *)
LEMMA Advance ==
  ASSUME NEW T, Reads(T), NEW w, Takes(w)
  PROVE  Window(Input, T, offset)'
<1>1. Window(Input, T, offset) /\ T \in Seq(Unit)
  BY DEF Reads, Parsed
<1>2. Window(SubSeq(Input, w + 1, Len(Input)), T, offset + w)
  BY <1>1, WindowRest DEF Takes
<1>3. QED
  BY <1>2 DEF Takes

(* What Consume does to the reader's input.                                *)
LEMMA Taken ==
  ASSUME phase \in Records, phase' \in Records, Consume, obj' = obj, obj.gz \in BOOLEAN
  PROVE  /\ Input' = SubSeq(Input, want + 1, Len(Input))
         /\ obj.gz => buf' = buf
         /\ ~obj.gz => buf' = SubSeq(buf, want + 1, Len(buf)) /\ Input = buf
BY DEF Consume, Input, InMemory, Rest, Records

(* The unit that is read next.                                             *)
LEMMA First ==
  ASSUME NEW T, Reads(T), NEW w \in Nat, w >= 1, Len(Input) >= w
  PROVE  /\ Input[1] = T[offset + 1] /\ offset + 1 \in 1..Len(T)
         /\ T[offset + 1] \in TextUnit /\ offset \in Nat /\ Len(T) \in Nat
         /\ offset + w <= Len(T)
<1>1. Window(Input, T, offset) /\ T \in Seq(TextUnit) /\ Len(T) \in Nat
  BY DEF Reads, Parsed
<1>2. offset \in Nat /\ offset + Len(Input) <= Len(T) /\ Len(Input) \in Nat
  BY <1>1 DEF Window
<1>3. 1 \in 1..Len(Input) /\ offset + 1 \in 1..Len(T) /\ offset + w <= Len(T)
  BY <1>1, <1>2
<1>4. Input[1] = T[offset + 1]
  BY <1>1, <1>3 DEF Window
<1>5. T[offset + 1] \in TextUnit
  BY <1>1, <1>3
<1>6. QED
  BY <1>1, <1>2, <1>3, <1>4, <1>5

(* An empty line before a record: the reader stays in its text.            *)
LEMMA SkipBlankStep ==
  ASSUME NEW T, Reads(T), SkipBlank
  PROVE  Reads(T)' /\ start' = start /\ rows' = rows /\ offset' = offset + want /\ Consume
<1>1. /\ phase = "record" /\ Ready /\ Input[1].line = "blank" /\ Consume
      /\ offset' = offset + 1 /\ phase' = phase /\ want' = want /\ start' = start
      /\ header' = header /\ rows' = rows /\ obj' = obj
  BY DEF SkipBlank, result, Here
<1>2. want = 1 /\ Len(Input) >= 1 /\ Len(Input) \in Nat
  BY <1>1 DEF Reads, Parsed, Ready, Window
<1>3. Input[1] = T[offset + 1] /\ offset \in Nat
  BY <1>2, First
<1>4. Takes(1)
  BY <1>1, <1>2, Taken DEF Takes, Reads
<1>5. Window(Input, T, offset)'
  BY <1>4, Advance
<1>6. obj.gz => OnlyBlank(T, offset + 1)
  <2> SUFFICES ASSUME obj.gz, NEW k \in 1..(offset + 1) PROVE T[k].line = "blank"
    BY DEF OnlyBlank
  <2>1. OnlyBlank(T, offset)
    BY <1>1 DEF Reads, Parsed
  <2>2. k = offset + 1 \/ k \in 1..offset
    BY <1>3
  <2>3. QED
    BY <2>1, <2>2, <1>1, <1>3 DEF OnlyBlank
<1>7. Parsed(T)'
  BY <1>1, <1>2, <1>5, <1>6 DEF Parsed
<1>8. QED
  BY <1>1, <1>2, <1>7 DEF Reads

(* The version line of a record: header.offset names it.                   *)
LEMMA VersionStep ==
  ASSUME NEW T, Reads(T), Version
  PROVE  Reads(T)' /\ start' = start /\ rows' = rows /\ offset' = offset + want /\ Consume
<1>1. /\ phase = "record" /\ Ready /\ Input[1].line = "version" /\ Consume
      /\ offset' = offset + 1 /\ phase' = "header" /\ want' = 1 /\ start' = start
      /\ header' = [NoHeader EXCEPT !.of = Input[1].value, !.offset = offset + 1]
      /\ rows' = rows /\ obj' = obj
  BY DEF Version, result, Here, Then
<1>2. want = 1 /\ Len(Input) >= 1 /\ Len(Input) \in Nat
  BY <1>1 DEF Reads, Parsed, Ready, Window
<1>3. /\ Input[1] = T[offset + 1] /\ offset \in Nat /\ offset + 1 \in 1..Len(T)
      /\ T[offset + 1] \in TextUnit
  BY <1>2, First
<1>4. Takes(1)
  BY <1>1, <1>2, Taken DEF Takes, Reads, Records
<1>5. Window(Input, T, offset)'
  BY <1>4, Advance
<1>6. T[offset + 1].value \in Seq(Nat)
  BY <1>1, <1>3 DEF TextUnit, HeaderLines
<1>7. /\ header'.of = T[offset + 1].value /\ header'.offset = offset + 1
      /\ header'.length = <<>> /\ header' \in HeaderType
  <2>1. header' = [of |-> T[offset + 1].value, offset |-> offset + 1, length |-> <<>>,
                   last |-> "none", size |-> 0]
    BY <1>1, <1>3 DEF NoHeader
  <2>2. <<>> \in Seq(Nat) /\ offset + 1 \in Nat
    BY <1>3
  <2>3. QED
    BY <2>1, <2>2, <1>6 DEF HeaderType
<1>8. Began(T)'
  <2>1. obj.gz => OnlyBlank(T, (offset + 1) - 1)
    <3>1. (offset + 1) - 1 = offset
      BY <1>3
    <3>2. QED
      BY <3>1, <1>1 DEF Reads, Parsed
  <2>2. QED
    BY <2>1, <1>1, <1>3, <1>7 DEF Began
<1>9. NoBlank(T, (offset + 1) + 1, offset + 1) /\ offset + 1 <= offset + 1
  BY <1>3 DEF NoBlank
<1>10. Parsed(T)'
  BY <1>1, <1>5, <1>7, <1>8, <1>9 DEF Parsed
<1>11. QED
  BY <1>1, <1>2, <1>7, <1>10 DEF Reads, Records

(* A header line: no empty line since the version line.                    *)
LEMMA HeaderLineStep ==
  ASSUME NEW T, Reads(T), HeaderLine
  PROVE  Reads(T)' /\ start' = start /\ rows' = rows /\ offset' = offset + want /\ Consume
<1> DEFINE last == IF Input[1].line = "folded" THEN header.last ELSE Input[1].line
           length == CASE Input[1].line = "length" -> <<Input[1].value>>
                       [] Input[1].line = "folded" /\ header.last = "length" -> <<>>
                       [] OTHER -> header.length
<1>1. /\ phase = "header" /\ Ready /\ Input[1].line \in {"field", "length", "folded"} /\ Consume
      /\ offset' = offset + 1 /\ phase' = phase /\ want' = want /\ start' = start
      /\ header' = [header EXCEPT !.size = @ + 1, !.last = last, !.length = length]
      /\ rows' = rows /\ obj' = obj
  BY DEF HeaderLine, result, Here
<1>2. want = 1 /\ Len(Input) >= 1 /\ Len(Input) \in Nat
  BY <1>1 DEF Reads, Parsed, Ready, Window
<1>3. /\ Input[1] = T[offset + 1] /\ offset \in Nat /\ offset + 1 \in 1..Len(T)
      /\ T[offset + 1] \in TextUnit
  BY <1>2, First
<1>4. Takes(1)
  BY <1>1, <1>2, Taken DEF Takes, Reads
<1>5. Window(Input, T, offset)'
  BY <1>4, Advance
<1>6. /\ Began(T) /\ header.offset <= offset /\ NoBlank(T, header.offset + 1, offset)
      /\ header.length = <<>> \/ (Declared /\ header.offset + 1 <= offset)
      /\ header \in HeaderType
  BY <1>1 DEF Reads, Parsed
<1>7. header.size \in Nat /\ header.offset \in Nat /\ header.length \in Seq(Nat)
      /\ header.last \in {"none", "field", "length"}
  BY <1>6 DEF HeaderType
<1>8. last \in {"none", "field", "length"}
  BY <1>1, <1>7
<1>9. length \in Seq(Nat) /\ (length = <<>> \/ Len(length) = 1)
  <2>1. CASE Input[1].line = "length"
    <3>1. Input[1].value \in Nat
      BY <2>1, <1>3 DEF TextUnit, HeaderLines
    <3>2. length = <<Input[1].value>>
      BY <2>1
    <3> HIDE DEF length
    <3>3. QED
      BY <3>1, <3>2
  <2>2. CASE Input[1].line # "length" /\ Input[1].line = "folded" /\ header.last = "length"
    <3>1. length = <<>>
      BY <2>2
    <3> HIDE DEF length
    <3>2. QED
      BY <3>1
  <2>3. CASE Input[1].line # "length" /\ ~(Input[1].line = "folded" /\ header.last = "length")
    <3>1. length = header.length
      BY <2>3
    <3> HIDE DEF length
    <3>2. QED
      BY <3>1, <1>6, <1>7 DEF Declared
  <2>4. QED
    BY <2>1, <2>2, <2>3
<1> HIDE DEF last, length
<1>10. /\ header' \in HeaderType /\ header'.of = header.of /\ header'.offset = header.offset
       /\ header'.length = length
  <2>1. header' = [header EXCEPT !.size = header.size + 1, !.last = last, !.length = length]
    BY <1>1
  <2>2. header' = [of |-> header.of, offset |-> header.offset, length |-> length,
                   last |-> last, size |-> header.size + 1]
    BY <2>1, <1>6 DEF HeaderType
  <2>3. header.of \in Seq(Nat) /\ header.size + 1 \in Nat
    BY <1>6, <1>7 DEF HeaderType
  <2>4. QED
    BY <2>2, <2>3, <1>7, <1>8, <1>9 DEF HeaderType
<1>11. Began(T)'
  BY <1>1, <1>6, <1>10 DEF Began
<1>12. header.offset <= offset + 1 /\ header.offset + 1 <= offset + 1
  BY <1>3, <1>6, <1>7
<1>13. NoBlank(T, header.offset + 1, offset + 1)
  <2> SUFFICES ASSUME NEW k \in (header.offset + 1)..(offset + 1) PROVE T[k].line # "blank"
    BY DEF NoBlank
  <2>1. k = offset + 1 \/ k \in (header.offset + 1)..offset
    BY <1>3, <1>7
  <2>2. QED
    BY <2>1, <1>1, <1>3, <1>6 DEF NoBlank
<1>14. Parsed(T)'
  <2>1. length = <<>> \/ (Len(length) = 1 /\ header.offset + 1 <= offset + 1)
    BY <1>9, <1>12
  <2>2. QED
    BY <2>1, <1>1, <1>2, <1>5, <1>10, <1>11, <1>12, <1>13 DEF Parsed, Declared
<1>15. QED
  BY <1>1, <1>2, <1>10, <1>14 DEF Reads

(* The first empty line ends the header; its length is known.              *)
LEMMA HeaderEndStep ==
  ASSUME NEW T, Reads(T), HeaderEnd
  PROVE  Reads(T)' /\ start' = start /\ rows' = rows /\ offset' = offset + want /\ Consume
<1>1. /\ phase = "header" /\ Ready /\ Input[1].line = "blank" /\ header.length # <<>> /\ Consume
      /\ offset' = offset + 1 /\ phase' = "block" /\ want' = header.length[1] /\ start' = start
      /\ header' = [header EXCEPT !.size = @ + 1]
      /\ rows' = rows /\ obj' = obj
  BY DEF HeaderEnd, result, Here, Then
<1>2. want = 1 /\ Len(Input) >= 1 /\ Len(Input) \in Nat
  BY <1>1 DEF Reads, Parsed, Ready, Window
<1>3. /\ Input[1] = T[offset + 1] /\ offset \in Nat /\ offset + 1 \in 1..Len(T)
      /\ T[offset + 1] \in TextUnit
  BY <1>2, First
<1>4. Takes(1)
  BY <1>1, <1>2, Taken DEF Takes, Reads, Records
<1>5. Window(Input, T, offset)'
  BY <1>4, Advance
<1>6. /\ Began(T) /\ NoBlank(T, header.offset + 1, offset)
      /\ Declared /\ header.offset + 1 <= offset /\ header \in HeaderType
  BY <1>1 DEF Reads, Parsed
<1>7. header.size \in Nat /\ header.offset \in Nat
  BY <1>6 DEF HeaderType
<1>10. /\ header' \in HeaderType /\ header'.of = header.of /\ header'.offset = header.offset
       /\ header'.length = header.length
  <2>1. header' = [header EXCEPT !.size = header.size + 1]
    BY <1>1
  <2>2. header' = [of |-> header.of, offset |-> header.offset, length |-> header.length,
                   last |-> header.last, size |-> header.size + 1]
    BY <2>1, <1>6 DEF HeaderType
  <2>3. /\ header.of \in Seq(Nat) /\ header.length \in Seq(Nat) /\ header.size + 1 \in Nat
        /\ header.last \in {"none", "field", "length"}
    BY <1>6, <1>7 DEF HeaderType
  <2>4. QED
    BY <2>2, <2>3, <1>7 DEF HeaderType
<1>11. Began(T)'
  BY <1>1, <1>6, <1>10 DEF Began
<1>12. Ended(T, offset + 1)
  <2>1. (offset + 1) - 1 = offset /\ offset + 1 \in (header.offset + 2)..Len(T)
    BY <1>3, <1>6, <1>7
  <2>2. QED
    BY <2>1, <1>1, <1>3, <1>6 DEF Ended
<1>13. Ended(T, offset)'
  BY <1>1, <1>10, <1>12 DEF Ended
<1>14. Parsed(T)'
  BY <1>1, <1>5, <1>6, <1>10, <1>11, <1>13 DEF Parsed, Declared
<1>15. QED
  BY <1>1, <1>2, <1>10, <1>14 DEF Reads, Records

(* The block: as many units as the header declares.                        *)
LEMMA BlockStep ==
  ASSUME NEW T, Reads(T), Block
  PROVE  Reads(T)' /\ start' = start /\ rows' = rows /\ offset' = offset + want /\ Consume
         /\ want \in Nat
<1>1. /\ phase = "block" /\ Ready /\ Consume
      /\ offset' = offset + want /\ phase' = "terminator" /\ want' = 2 /\ start' = start
      /\ header' = header /\ rows' = rows /\ obj' = obj
  BY DEF Block, result, Here, Then
<1>2. /\ want = header.length[1] /\ Began(T) /\ Declared /\ Ended(T, offset)
      /\ header \in HeaderType /\ offset \in Nat
  BY <1>1 DEF Reads, Parsed, Window
<1>3. want \in Nat
  <2>1. header.length \in Seq(Nat) /\ 1 \in 1..Len(header.length)
    BY <1>2 DEF HeaderType, Declared
  <2>2. QED
    BY <2>1, <1>2
<1>4. Takes(want)
  <2>1. Len(Input) >= want /\ Len(Input) \in Nat
    BY <1>1 DEF Ready, Reads, Parsed, Window
  <2>2. QED
    BY <2>1, <1>1, <1>3, Taken DEF Takes, Reads, Records
<1>5. Window(Input, T, offset)'
  BY <1>4, Advance
<1>6. Began(T)' /\ Ended(T, offset)
  BY <1>1, <1>2 DEF Began
<1>7. offset + header'.length[1] = offset' /\ (Ended(T, offset))
  BY <1>1, <1>2
<1>8. \E b \in Nat : b + header'.length[1] = offset' /\ Ended(T, b)'
  <2>1. \A b : Ended(T, b)' <=> Ended(T, b)
    BY <1>1 DEF Ended
  <2>2. QED
    BY <2>1, <1>2, <1>7
<1>9. Parsed(T)'
  BY <1>1, <1>2, <1>5, <1>6, <1>8 DEF Parsed, Declared
<1>10. QED
  BY <1>1, <1>2, <1>3, <1>9 DEF Reads, Records

(* A record that is complete is where its row says.                        *)
LEMMA TerminatorPlaces ==
  ASSUME NEW T, Reads(T), Terminator
  PROVE  /\ Placed(T, Row) /\ header.length[1] \in Nat
         /\ obj.gz => OnlyBlank(T, header.offset - 1)
<1>1. phase = "terminator" /\ Ready /\ Input[1].line = "blank"
  BY DEF Terminator
<1>2. /\ want = 2 /\ Began(T) /\ Declared /\ header \in HeaderType
      /\ \E b \in Nat : b + header.length[1] = offset /\ Ended(T, b)
  BY <1>1 DEF Reads, Parsed
<1>3. PICK b \in Nat : b + header.length[1] = offset /\ Ended(T, b)
  BY <1>2
<1>4. header.length[1] \in Nat
  <2>1. header.length \in Seq(Nat) /\ 1 \in 1..Len(header.length)
    BY <1>2 DEF HeaderType, Declared
  <2>2. QED
    BY <2>1
<1>5. Input[1] = T[offset + 1] /\ offset + 1 \in 1..Len(T)
  <2>1. Len(Input) >= 2 /\ 2 \in Nat
    BY <1>1, <1>2 DEF Ready
  <2>2. QED
    BY <2>1, First
<1>6. Row.of = header.of /\ Row.offset = header.offset /\ Row.length = header.length[1]
  BY DEF Row
<1>7. b + Row.length + 1 = offset + 1
  BY <1>3, <1>4, <1>6
<1>8. QED
  BY <1>1, <1>2, <1>3, <1>4, <1>5, <1>6, <1>7 DEF Placed, Began, Ended

-----------------------------------------------------------------------------
(* The inductive invariant.  In a gzip object: the member of part p, which *)
(* begins at start, is being read, or it has been and its text is parsed.  *)
Phases == {"member", "fixed", "option", "data", "trailer", "done"} \cup Records
RowType == [of: Seq(Nat), offset: Nat, length: Nat, c_offset: Nat]

(* i carriers of part p have been inflated.                                *)
Inflated(p, i) ==
  LET t == PartText(obj, p) IN
  /\ pos = Starts(obj)[p] + 2 + obj.parts[p].opts + i
  /\ i = Carriers(obj, p) => obj.parts[p].damage = "deflate"
  /\ Len(text) = IF i <= Len(t) THEN i ELSE Len(t)
  /\ \A k \in 1..Len(text) : text[k] = t[k]

Framed(p) ==
  LET t == PartText(obj, p)
      q == obj.parts[p].opts
      d == obj.parts[p].damage
      a == Starts(obj)[p]
  IN  /\ start = a
      /\ phase = "fixed" => want = 2 /\ pos = a
      /\ phase = "option" => want = q /\ pos = a + 2 /\ d # "magic"
      /\ phase = "data" =>
           /\ want = 1 /\ d # "magic" /\ text \in Seq(TextUnit)
           /\ \E i \in 0..Carriers(obj, p) : Inflated(p, i)
      /\ phase = "trailer" =>
           want = 2 /\ d = "none" /\ text = t /\ pos = a + 2 + q + Carriers(obj, p)
      /\ phase \in Records =>
           d = "none" /\ pos = Starts(obj)[p + 1] /\ Parsed(t)

Splits ==
  obj.gz =>
    /\ phase = "member" =>
         want = 1 /\ \E p \in 1..(Len(obj.parts) + 1) : pos = Starts(obj)[p]
    /\ phase \notin {"member", "done"} => \E p \in 1..Len(obj.parts) : Framed(p)

(* A plain object is parsed as it arrives.                                 *)
Plain ==
  ~obj.gz =>
    /\ phase \in Records \cup {"done"}
    /\ phase \in Records => offset = pos /\ Parsed(Stored[obj])

RowOk(row) ==
  IF obj.gz
    THEN \E p \in 1..Len(obj.parts) :
           /\ obj.parts[p].damage = "none" /\ row.c_offset = Starts(obj)[p]
           /\ Placed(PartText(obj, p), row) /\ OnlyBlank(PartText(obj, p), row.offset - 1)
    ELSE Placed(Stored[obj], row)

IInv ==
  /\ Streamed /\ phase \in Phases /\ header \in HeaderType /\ start \in Nat /\ want \in Nat
  /\ Splits /\ Plain
  /\ rows \in Seq(RowType) /\ \A i \in 1..Len(rows) : RowOk(rows[i])

(* What the invariant says of the object and of the position in it.        *)
LEMMA ObjectIs ==
  ASSUME IInv
  PROVE  /\ obj \in Objects /\ obj.gz \in BOOLEAN /\ Len(obj.parts) \in Nat
         /\ Stored[obj] \in Seq(Unit) /\ Len(Stored[obj]) \in Nat
         /\ pos \in Nat /\ Len(buf) \in Nat /\ Window(buf, Stored[obj], pos)
<1>1. obj \in Objects
  BY DEF IInv, Streamed
<1>2. obj.gz \in BOOLEAN /\ obj.parts \in Seq(PartType)
  BY <1>1, StreamAssumption
<1>3. Len(obj.parts) \in Nat
  BY <1>2
<1>4. Stored[obj] \in Seq(Unit) /\ Len(Stored[obj]) \in Nat
  BY <1>1, StoredUnits
<1>5. Window(buf, Stored[obj], pos)
  BY DEF IInv, Streamed
<1>6. pos \in Nat /\ Len(buf) \in Nat
  BY <1>5 DEF Window
<1>7. QED
  BY <1>1, <1>2, <1>3, <1>4, <1>5, <1>6

(* The rows stay true: they speak of the object alone.                     *)
LEMMA RowsStay ==
  ASSUME IInv, obj' = obj, rows' = rows
  PROVE  (rows \in Seq(RowType) /\ \A i \in 1..Len(rows) : RowOk(rows[i]))'
<1>1. \A r : RowOk(r)' <=> RowOk(r)
  BY DEF RowOk
<1>2. rows \in Seq(RowType) /\ \A i \in 1..Len(rows) : RowOk(rows[i])
  BY DEF IInv
<1>3. QED
  BY <1>1, <1>2

(* The invariant after a step that adds no row, from its parts.            *)
LEMMA InvKeeps ==
  ASSUME IInv, Streamed', obj' = obj, rows' = rows, phase' \in Phases,
         header' \in HeaderType, start' \in Nat, want' \in Nat, Splits', Plain'
  PROVE  IInv'
BY RowsStay DEF IInv

(* The invariant after a step inside a member, from Framed alone.          *)
LEMMA FramedKeeps ==
  ASSUME IInv, Streamed', obj' = obj, rows' = rows, phase' \in Phases \ {"member", "done"},
         header' \in HeaderType, want' \in Nat, obj.gz,
         NEW p \in 1..Len(obj.parts), Framed(p)'
  PROVE  IInv'
<1>1. Splits' /\ Plain'
  BY DEF Splits, Plain
<1>2. start' \in Nat
  <2>1. start' = Starts(obj)[p]
    BY DEF Framed
  <2>2. Starts(obj) \in [1..(Len(obj.parts) + 1) -> Nat] /\ Len(obj.parts) \in Nat
    BY ObjectIs, StoredParts
  <2>3. p \in 1..(Len(obj.parts) + 1)
    BY <2>2
  <2>4. QED
    BY <2>1, <2>2, <2>3
<1>3. QED
  BY <1>1, <1>2, InvKeeps

(* The parsing thread has returned.                                        *)
LEMMA ReturnKeeps ==
  ASSUME IInv, Return
  PROVE  IInv'
<1>1. Streamed'
  BY StreamKept DEF IInv, Return, Here
<1>2. obj' = obj /\ rows' = rows /\ phase' = "done" /\ header' = header /\ start' = start /\ want' = want
  BY DEF Return, Here
<1>3. Splits' /\ Plain'
  BY <1>2 DEF Splits, Plain, Records
<1>4. QED
  BY <1>1, <1>2, <1>3, InvKeeps DEF IInv, Phases

(* Sending and reading leave the parser where it is.                       *)
LEMMA StreamKeeps ==
  ASSUME IInv, Streamed', pos' = pos,
         UNCHANGED <<obj, phase, want, start, text, offset, header, rows>>
  PROVE  IInv'
<1>1. Splits'
  <2> SUFFICES ASSUME obj.gz PROVE Splits'
    BY DEF Splits
  <2>1. ASSUME NEW T, phase \in Records, Parsed(T) PROVE Parsed(T)'
    <3>1. Input = text /\ Input' = text
      BY <2>1 DEF Input, InMemory, Records
    <3>2. Window(Input, T, offset)'
      BY <2>1, <3>1 DEF Parsed
    <3>3. (Began(T)' <=> Began(T)) /\ (Declared' <=> Declared)
          /\ \A b : Ended(T, b)' <=> Ended(T, b)
      BY DEF Began, Declared, Ended
    <3>4. QED
      BY <2>1, <3>2, <3>3 DEF Parsed
  <2>2. ASSUME NEW p \in 1..Len(obj.parts), Framed(p) PROVE Framed(p)'
    <3>1. phase \in Records => Parsed(PartText(obj, p))'
      BY <2>1, <2>2 DEF Framed
    <3>2. \A i : Inflated(p, i) => Inflated(p, i)'
      BY DEF Inflated
    <3>3. QED
      BY <2>2, <3>1, <3>2 DEF Framed
  <2>3. QED
    BY <2>2 DEF Splits, IInv
<1>2. Plain'
  <2> SUFFICES ASSUME ~obj.gz, phase \in Records PROVE offset = pos /\ Parsed(Stored[obj])'
    BY DEF Plain, IInv
  <2>1. offset = pos /\ Parsed(Stored[obj])
    BY DEF Plain, IInv
  <2> DEFINE T == Stored[obj]
  <2>2. Window(Input, T, offset)'
    <3>1. Window(buf', T, pos)
      BY DEF Streamed
    <3>2. Input' = buf'
      BY DEF Input, InMemory
    <3>3. QED
      BY <2>1, <3>1, <3>2
  <2>3. (Began(T)' <=> Began(T)) /\ (Declared' <=> Declared)
        /\ \A b : Ended(T, b)' <=> Ended(T, b)
    BY DEF Began, Declared, Ended
  <2> HIDE DEF T
  <2>4. Parsed(T)'
    BY <2>1, <2>2, <2>3 DEF Parsed, T
  <2>5. QED
    BY <2>1, <2>4 DEF T
<1>3. QED
  BY <1>1, <1>2, InvKeeps DEF IInv

-----------------------------------------------------------------------------
(* The splitter's steps, one by one.  Where the units of part p are:       *)
LEMMA MemberAt ==
  ASSUME IInv, obj.gz, NEW p \in 1..Len(obj.parts)
  PROVE  LET a == Starts(obj)[p]
             M == Member(obj, p)
         IN  /\ a \in Nat /\ M \in Seq(PackedUnit) /\ Len(M) \in Nat
             /\ MemberShape(M, obj, p)
             /\ \A k \in 1..Len(M) : Stored[obj][a + k] = M[k]
             /\ Starts(obj)[p + 1] = a + Len(M)
             /\ obj.parts[p].opts \in Nat
             /\ obj.parts[p].damage \in {"none", "magic", "deflate"}
             /\ PartText(obj, p) \in Seq(TextUnit) /\ Len(PartText(obj, p)) \in Nat
             /\ Carriers(obj, p) = (IF PartText(obj, p) = <<>> THEN 1 ELSE Len(PartText(obj, p)))
             /\ Carriers(obj, p) \in Nat /\ Carriers(obj, p) >= 1
<1>1. obj \in Objects
  BY ObjectIs
<1>2. p \in 1..(Len(obj.parts) + 1)
  BY ObjectIs
<1>3. Starts(obj)[p] \in Nat /\ Starts(obj)[p + 1] = Starts(obj)[p] + Len(Member(obj, p))
      /\ \A k \in 1..Len(Member(obj, p)) : Stored[obj][Starts(obj)[p] + k] = Member(obj, p)[k]
  BY <1>1, <1>2, StoredParts
<1>4. Member(obj, p) \in Seq(PackedUnit) /\ MemberShape(Member(obj, p), obj, p)
  BY <1>1, MemberIs
<1>5. obj.parts[p].opts \in Nat /\ obj.parts[p].damage \in {"none", "magic", "deflate"}
  BY <1>1, PartOf
<1>6. PartText(obj, p) \in Seq(TextUnit) /\ Len(PartText(obj, p)) \in Nat
  <2>1. PartText(obj, p) \in Seq(TextUnit)
    BY <1>1, PartTold
  <2>2. QED
    BY <2>1
<1>7. /\ Carriers(obj, p) = (IF PartText(obj, p) = <<>> THEN 1 ELSE Len(PartText(obj, p)))
      /\ Carriers(obj, p) \in Nat /\ Carriers(obj, p) >= 1
  BY <1>6 DEF Carriers
<1>8. Len(Member(obj, p)) \in Nat
  BY <1>4
<1>9. QED
  BY <1>3, <1>4, <1>5, <1>6, <1>7, <1>8

(* The unit that is read next is unit pos + 1 of the object.               *)
LEMMA NextUnit ==
  ASSUME IInv, phase \notin Records, Ready, NEW k \in Nat, k >= 1, k <= want
  PROVE  buf[k] = Stored[obj][pos + k] /\ Len(buf) >= want /\ pos + k <= Len(Stored[obj])
<1>1. Input = buf
  BY DEF Input, InMemory, Records
<1>2. Len(buf) >= want /\ Len(buf) \in Nat /\ want \in Nat
  BY <1>1, ObjectIs DEF Ready, IInv
<1>3. k \in 1..Len(buf)
  BY <1>2
<1>4. Window(buf, Stored[obj], pos)
  BY ObjectIs
<1>5. pos + Len(buf) <= Len(Stored[obj]) /\ pos \in Nat /\ Len(Stored[obj]) \in Nat
  BY <1>4, ObjectIs DEF Window
<1>6. pos + k <= Len(Stored[obj])
  BY <1>2, <1>3, <1>5
<1>7. QED
  BY <1>2, <1>3, <1>4, <1>6 DEF Window

(* BeginMember: start is where the next member begins.                     *)
LEMMA BeginMemberKeeps == ASSUME IInv, BeginMember PROVE IInv'
<1>1. /\ phase = "member" /\ Ready /\ start' = pos /\ phase' = "fixed" /\ want' = 2
      /\ buf' = buf /\ obj' = obj /\ header' = header /\ rows' = rows
      /\ UNCHANGED <<cut, sent, channel, raw_pos>>
  BY DEF BeginMember, Then, InMember, Here, result
<1>2. Streamed' /\ pos' = pos
  BY <1>1, StreamKept DEF IInv
<1>3. obj.gz
  BY <1>1 DEF IInv, Plain, Records
<1>4. PICK p \in 1..(Len(obj.parts) + 1) : pos = Starts(obj)[p] /\ want = 1
  BY <1>1, <1>3 DEF IInv, Splits
<1>5. p # Len(obj.parts) + 1
  <2>1. phase \notin Records
    BY <1>1 DEF Records
  <2>2. pos + 1 <= Len(Stored[obj])
    BY <2>1, <1>1, <1>4, NextUnit
  <2>3. Starts(obj)[Len(obj.parts) + 1] = Len(Stored[obj])
    BY <1>3, ObjectIs, StoredParts
  <2>4. pos \in Nat /\ Len(Stored[obj]) \in Nat
    BY ObjectIs
  <2>5. QED
    BY <2>2, <2>3, <2>4, <1>4
<1>6. p \in 1..Len(obj.parts)
  BY <1>5, ObjectIs
<1>7. Framed(p)'
  BY <1>1, <1>2, <1>4 DEF Framed, Records
<1>8. phase' \in Phases \ {"member", "done"} /\ header' \in HeaderType /\ want' \in Nat
  BY <1>1 DEF IInv, Phases
<1>9. QED
  BY <1>1, <1>2, <1>3, <1>6, <1>7, <1>8, FramedKeeps

(* FixedHeader: a magic number, so the member is one.                      *)
LEMMA FixedHeaderKeeps == ASSUME IInv, FixedHeader PROVE IInv'
<1>1. /\ phase = "fixed" /\ Ready /\ buf[1].packed = "magic" /\ Consume /\ start' = start
      /\ phase' = "option" /\ want' = buf[2].content
      /\ obj' = obj /\ header' = header /\ rows' = rows
      /\ UNCHANGED <<cut, sent, channel, raw_pos>>
  BY DEF FixedHeader, Then, InMember, Here, result
<1>2. obj.gz /\ phase \notin Records
  BY <1>1 DEF IInv, Plain, Records
<1>3. PICK p \in 1..Len(obj.parts) : Framed(p)
  BY <1>1, <1>2 DEF IInv, Splits
<1> DEFINE a == Starts(obj)[p]
           M == Member(obj, p)
           q == obj.parts[p].opts
<1>4. want = 2 /\ start = a /\ pos = a
  BY <1>1, <1>3 DEF Framed
<1>5. /\ a \in Nat /\ Len(M) \in Nat /\ Len(M) >= 2 /\ q \in Nat
      /\ M[1].packed = "magic" <=> obj.parts[p].damage # "magic"
      /\ M[2].content = q
      /\ \A k \in 1..Len(M) : Stored[obj][a + k] = M[k]
  <2>1. MemberShape(M, obj, p) /\ a \in Nat /\ q \in Nat /\ Len(M) \in Nat
        /\ Carriers(obj, p) \in Nat /\ \A k \in 1..Len(M) : Stored[obj][a + k] = M[k]
    BY <1>2, MemberAt
  <2>2. 2 + q + Carriers(obj, p) + 2 <= Len(M) /\ M[2].content = q
        /\ (M[1].packed = "magic" <=> obj.parts[p].damage # "magic")
    BY <2>1 DEF MemberShape
  <2> HIDE DEF a, M, q
  <2>3. Len(M) >= 2
    BY <2>1, <2>2
  <2>4. QED
    BY <2>1, <2>2, <2>3
<1>6. Len(buf) >= want /\ buf[1] = M[1] /\ buf[2] = M[2]
  <2>1. 1 \in 1..Len(M) /\ 2 \in 1..Len(M)
    BY <1>5
  <2>2. buf[1] = Stored[obj][pos + 1] /\ buf[2] = Stored[obj][pos + 2] /\ Len(buf) >= want
    BY <1>1, <1>2, <1>4, NextUnit
  <2>3. QED
    BY <2>1, <2>2, <1>4, <1>5
<1> HIDE DEF a, M, q
<1>7. buf' = SubSeq(buf, want + 1, Len(buf))
  BY <1>1, <1>2 DEF Consume, InMemory, Rest, Input, Records
<1>8. Streamed' /\ pos' = a + 2
  <2>1. want \in Nat
    BY <1>4
  <2>2. Streamed' /\ pos' = pos + want
    BY <2>1, <1>1, <1>6, <1>7, ConsumeStep DEF IInv
  <2>3. QED
    BY <2>2, <1>4
<1>9. want' = q /\ obj.parts[p].damage # "magic"
  BY <1>1, <1>5, <1>6
<1>10. Framed(p)'
  BY <1>1, <1>4, <1>8, <1>9 DEF Framed, Records, a, q
<1>11. phase' \in Phases \ {"member", "done"} /\ header' \in HeaderType /\ want' \in Nat
  BY <1>1, <1>5, <1>9 DEF IInv, Phases
<1>12. QED
  BY <1>1, <1>2, <1>8, <1>10, <1>11, FramedKeeps

(* OptionalHeader: as many units as the flags say.                         *)
LEMMA OptionalHeaderKeeps == ASSUME IInv, OptionalHeader PROVE IInv'
<1>1. /\ phase = "option" /\ Ready /\ buf' = Rest /\ text' = <<>> /\ start' = start
      /\ phase' = "data" /\ want' = 1
      /\ obj' = obj /\ header' = header /\ rows' = rows
      /\ UNCHANGED <<cut, sent, channel, raw_pos>>
  BY DEF OptionalHeader, Then, InMember, Here, result
<1>2. obj.gz /\ phase \notin Records
  BY <1>1 DEF IInv, Plain, Records
<1>3. PICK p \in 1..Len(obj.parts) : Framed(p)
  BY <1>1, <1>2 DEF IInv, Splits
<1> DEFINE a == Starts(obj)[p]
           q == obj.parts[p].opts
           c == Carriers(obj, p)
           t == PartText(obj, p)
<1>4. want = q /\ start = a /\ pos = a + 2 /\ obj.parts[p].damage # "magic"
  BY <1>1, <1>3 DEF Framed
<1>5. a \in Nat /\ q \in Nat /\ c \in Nat /\ c >= 1 /\ Len(t) \in Nat
  BY <1>2, MemberAt
<1>6. Input = buf /\ buf' = SubSeq(buf, want + 1, Len(buf))
  BY <1>1, <1>2 DEF InMemory, Rest, Input, Records
<1> HIDE DEF a, q, c, t
<1>7. Streamed' /\ pos' = pos + want
  <2>1. want \in Nat /\ Len(buf) >= want
    BY <1>1, <1>4, <1>5, <1>6 DEF Ready
  <2>2. QED
    BY <2>1, <1>1, <1>6, ConsumeStep DEF IInv
<1>8. pos' = a + 2 + q + 0 /\ 0 \in 0..c /\ 0 # c /\ Len(text') = 0
      /\ 0 = (IF 0 <= Len(t) THEN 0 ELSE Len(t)) /\ text' \in Seq(TextUnit)
  BY <1>1, <1>4, <1>5, <1>7
<1>9. Inflated(p, 0)'
  BY <1>1, <1>8 DEF Inflated, a, q, c, t
<1>10. \E i \in 0..c : Inflated(p, i)'
  BY <1>8, <1>9
<1>11. Framed(p)'
  BY <1>1, <1>4, <1>8, <1>10 DEF Framed, Records, a, c
<1>12. phase' \in Phases \ {"member", "done"} /\ header' \in HeaderType /\ want' \in Nat
  BY <1>1 DEF IInv, Phases
<1>13. QED
  BY <1>1, <1>2, <1>7, <1>11, <1>12, FramedKeeps

(* Inflate: text is what the carriers so far hold of the member's text.    *)
LEMMA InflateKeeps == ASSUME IInv, Inflate PROVE IInv'
<1>1. /\ phase = "data" /\ Ready /\ buf[1].packed = "data"
      /\ buf' = Rest /\ text' = text \o buf[1].content /\ start' = start
      /\ IF buf[1].end THEN phase' = "trailer" /\ want' = 2 ELSE phase' = "data" /\ want' = 1
      /\ obj' = obj /\ header' = header /\ rows' = rows
      /\ UNCHANGED <<cut, sent, channel, raw_pos>>
  BY DEF Inflate, Then, InMember, Here, result
<1>2. obj.gz /\ phase \notin Records
  BY <1>1 DEF IInv, Plain, Records
<1>3. PICK p \in 1..Len(obj.parts) : Framed(p)
  BY <1>1, <1>2 DEF IInv, Splits
<1> DEFINE a == Starts(obj)[p]
           M == Member(obj, p)
           q == obj.parts[p].opts
           d == obj.parts[p].damage
           c == Carriers(obj, p)
           t == PartText(obj, p)
           n == Len(t)
<1>4. want = 1 /\ start = a /\ d # "magic" /\ text \in Seq(TextUnit)
  BY <1>1, <1>3 DEF Framed
<1>5. PICK i \in 0..c : Inflated(p, i)
  BY <1>1, <1>3 DEF Framed
<1>6. /\ pos = a + 2 + q + i /\ (i = c => d = "deflate")
      /\ Len(text) = (IF i <= n THEN i ELSE n)
      /\ \A k \in 1..Len(text) : text[k] = t[k]
  BY <1>5 DEF Inflated
<1>7. /\ a \in Nat /\ Len(M) \in Nat /\ q \in Nat /\ d \in {"none", "magic", "deflate"}
      /\ t \in Seq(TextUnit) /\ n \in Nat /\ c = (IF t = <<>> THEN 1 ELSE n)
      /\ c \in Nat /\ c >= 1 /\ MemberShape(M, obj, p)
      /\ \A k \in 1..Len(M) : Stored[obj][a + k] = M[k]
  BY <1>2, MemberAt
<1>8. /\ 2 + q + c + 2 <= Len(M)
      /\ \A j \in 1..c : /\ M[2 + q + j].packed = "data"
                         /\ M[2 + q + j].content = (IF t = <<>> THEN <<>> ELSE <<t[j]>>)
                         /\ M[2 + q + j].end <=> j = c /\ d # "deflate"
      /\ d = "deflate" => M[2 + q + c + 1].packed = "garbage"
  BY <1>7 DEF MemberShape
<1>9. Input = buf /\ buf' = SubSeq(buf, want + 1, Len(buf))
  BY <1>1, <1>2 DEF InMemory, Rest, Input, Records
<1> DEFINE j == i + 1
<1>10. i \in Nat /\ i <= c /\ j = i + 1 /\ j \in Nat /\ j >= 1
  BY <1>7
<1> HIDE DEF a, M, q, d, c, t, n, j
<1>11. buf[1] = M[2 + q + j] /\ Len(buf) >= want
  <2>1. buf[1] = Stored[obj][pos + 1] /\ Len(buf) >= want
    BY <1>1, <1>2, <1>4, NextUnit
  <2>2. pos + 1 = a + (2 + q + j)
    BY <1>6, <1>7, <1>10
  <2>3. 2 + q + j \in 1..Len(M)
    <3>1. 2 + q + c + 2 <= Len(M)
      BY <1>8
    <3>2. QED
      BY <3>1, <1>7, <1>10
  <2>4. Stored[obj][a + (2 + q + j)] = M[2 + q + j]
    BY <2>3, <1>7
  <2>5. QED
    BY <2>1, <2>2, <2>4
<1>12. j \in 1..c
  <2>1. SUFFICES ASSUME i = c PROVE FALSE
    BY <1>7, <1>10
  <2>2. d = "deflate" /\ 2 + q + j = 2 + q + c + 1
    BY <2>1, <1>6, <1>7, <1>10
  <2>3. M[2 + q + j].packed = "garbage"
    BY <2>2, <1>8
  <2>4. QED
    BY <2>3, <1>1, <1>11
<1>13. /\ buf[1].content = (IF t = <<>> THEN <<>> ELSE <<t[j]>>)
       /\ buf[1].end <=> j = c /\ d # "deflate"
  BY <1>8, <1>11, <1>12
<1>14. /\ text' \in Seq(TextUnit) /\ Len(text') = (IF j <= n THEN j ELSE n)
       /\ \A k \in 1..Len(text') : text'[k] = t[k]
  <2>1. CASE t = <<>>
    <3>1. buf[1].content = <<>> /\ n = 0
      BY <2>1, <1>13 DEF n
    <3>2. text' = text
      BY <3>1, <1>1, <1>4, ConcatEmptySeq
    <3>3. Len(text) = 0 /\ 0 = (IF j <= n THEN j ELSE n)
      BY <3>1, <1>6, <1>10
    <3>4. QED
      BY <3>2, <3>3, <1>4, <1>6
  <2>2. CASE t # <<>>
    <3>1. c = n /\ buf[1].content = <<t[j]>> /\ j <= n /\ i <= n /\ j \in 1..Len(t)
      BY <2>2, <1>7, <1>10, <1>12, <1>13 DEF n
    <3>2. t[j] \in TextUnit
      BY <3>1, <1>7
    <3>3. <<t[j]>> \in Seq(TextUnit) /\ Len(<<t[j]>>) = 1 /\ <<t[j]>>[1] = t[j]
      BY <3>2, Singly
    <3> DEFINE one == <<t[j]>>
    <3>4. one \in Seq(TextUnit) /\ Len(one) = 1 /\ one[1] = t[j] /\ text' = text \o one
      BY <3>1, <3>3, <1>1
    <3>5. Len(text) = i
      BY <3>1, <1>6
    <3> HIDE DEF one
    <3>6. /\ text' \in Seq(TextUnit) /\ Len(text') = Len(text) + Len(one)
          /\ \A k \in 1..Len(text) : text'[k] = text[k]
          /\ \A k \in 1..Len(one) : text'[Len(text) + k] = one[k]
      BY <3>4, <1>4, Behind, SMTT(30)
    <3>7. Len(text') = j
      BY <3>4, <3>5, <3>6, <1>10
    <3>8. text'[j] = t[j]
      <4>1. 1 \in 1..Len(one)
        BY <3>4
      <4>2. QED
        BY <4>1, <3>4, <3>5, <3>6, <1>10
    <3>9. ASSUME NEW k \in 1..Len(text') PROVE text'[k] = t[k]
      <4>1. k = j \/ k \in 1..Len(text)
        BY <3>5, <3>7, <1>10
      <4>2. QED
        BY <4>1, <3>6, <3>8, <1>6
    <3>10. QED
      BY <3>1, <3>6, <3>7, <3>9
  <2>3. QED
    BY <2>1, <2>2
<1>15. Streamed' /\ pos' = a + 2 + q + j
  <2>1. want \in Nat
    BY <1>4
  <2>2. Streamed' /\ pos' = pos + want
    BY <2>1, <1>1, <1>9, <1>11, ConsumeStep DEF IInv
  <2>3. pos + want = a + 2 + q + j
    BY <1>4, <1>6, <1>7, <1>10
  <2>4. QED
    BY <2>2, <2>3
<1>16. CASE j = c /\ d # "deflate"
  <2>1. phase' = "trailer" /\ want' = 2 /\ d = "none"
    BY <1>16, <1>1, <1>4, <1>7, <1>13
  <2>2. text' = t
    <3>1. Len(text') = Len(t)
      <4>1. CASE t = <<>>
        BY <4>1, <1>14, <1>10 DEF n
      <4>2. CASE t # <<>>
        <5>1. j = n
          BY <4>2, <1>16, <1>7
        <5>2. QED
          BY <5>1, <1>14, <1>7 DEF n
      <4>3. QED
        BY <4>1, <4>2
    <3>2. QED
      BY <3>1, <1>7, <1>14, SeqEqual
  <2>3. Framed(p)'
    BY <2>1, <2>2, <1>1, <1>4, <1>15, <1>16 DEF Framed, Records, a, q, d, c, t
  <2>4. phase' \in Phases \ {"member", "done"} /\ header' \in HeaderType /\ want' \in Nat
    BY <2>1, <1>1 DEF IInv, Phases
  <2>5. QED
    BY <2>3, <2>4, <1>1, <1>2, <1>15, FramedKeeps
<1>17. CASE ~(j = c /\ d # "deflate")
  <2>1. phase' = "data" /\ want' = 1
    BY <1>17, <1>1, <1>13
  <2>2. Inflated(p, j)'
    BY <1>1, <1>14, <1>15, <1>17 DEF Inflated, a, q, d, c, t, n
  <2>3. j \in 0..c
    BY <1>12, <1>7
  <2>4. \E k \in 0..c : Inflated(p, k)'
    BY <2>2, <2>3
  <2>5. Framed(p)'
    BY <2>1, <2>4, <1>1, <1>4, <1>14 DEF Framed, Records, a, d, c
  <2>6. phase' \in Phases \ {"member", "done"} /\ header' \in HeaderType /\ want' \in Nat
    BY <2>1, <1>1 DEF IInv, Phases
  <2>7. QED
    BY <2>5, <2>6, <1>1, <1>2, <1>15, FramedKeeps
<1>18. QED
  BY <1>16, <1>17

(* The member is complete, and its text begins.                            *)
LEMMA TrailerKeeps == ASSUME IInv, Trailer PROVE IInv'
<1>1. /\ phase = "trailer" /\ Ready /\ Consume /\ start' = start /\ rows' = rows
      /\ phase' = "record" /\ want' = 1 /\ offset' = 0 /\ header' = NoHeader
      /\ obj' = obj /\ UNCHANGED <<cut, sent, channel, raw_pos>>
  BY DEF Trailer, Then, Here
<1>2. obj.gz /\ phase \notin Records
  BY <1>1 DEF IInv, Plain, Records
<1>3. PICK p \in 1..Len(obj.parts) : Framed(p)
  BY <1>1, <1>2 DEF IInv, Splits
<1> DEFINE a == Starts(obj)[p]
           M == Member(obj, p)
           q == obj.parts[p].opts
           d == obj.parts[p].damage
           c == Carriers(obj, p)
           t == PartText(obj, p)
<1>4. want = 2 /\ start = a /\ d = "none" /\ text = t /\ pos = a + 2 + q + c
  BY <1>1, <1>3 DEF Framed
<1>5. /\ a \in Nat /\ q \in Nat /\ c \in Nat /\ MemberShape(M, obj, p)
      /\ Starts(obj)[p + 1] = a + Len(M) /\ t \in Seq(TextUnit) /\ Len(t) \in Nat
  BY <1>2, MemberAt
<1>6. Len(M) = 2 + q + c + 2
  BY <1>4, <1>5 DEF MemberShape
<1>7. Input = buf /\ buf' = SubSeq(buf, want + 1, Len(buf)) /\ text' = text
  BY <1>1, <1>2 DEF Consume, InMemory, Rest, Input, Records
<1> HIDE DEF a, M, q, d, c, t
<1>8. Streamed' /\ pos' = Starts(obj)[p + 1]
  <2>1. want \in Nat /\ Len(buf) >= want
    BY <1>1, <1>4, <1>7 DEF Ready
  <2>2. Streamed' /\ pos' = pos + want
    BY <2>1, <1>1, <1>7, ConsumeStep DEF IInv
  <2>3. pos + want = a + (2 + q + c + 2)
    BY <1>4, <1>5
  <2>4. QED
    BY <2>2, <2>3, <1>5, <1>6
<1>9. Input' = t
  BY <1>1, <1>2, <1>4, <1>7 DEF Input, InMemory
<1>10. Window(t, t, 0)
  <2>1. TextUnit \subseteq Unit
    BY DEF Unit
  <2>2. t \in Seq(Unit)
    BY <2>1, <1>5, SeqMonotonic, Zenon
  <2>3. 0 + Len(t) <= Len(t) /\ \A k \in 1..Len(t) : 0 + k = k
    BY <1>5
  <2>4. QED
    BY <2>2, <2>3 DEF Window
<1>11. Parsed(t)'
  <2>1. PICK T : T = t
    OBVIOUS
  <2>2. Window(Input, T, offset)'
    BY <2>1, <1>1, <1>9, <1>10
  <2>3. OnlyBlank(T, 0)
    BY DEF OnlyBlank
  <2>4. Parsed(T)'
    BY <2>2, <2>3, <1>1 DEF Parsed
  <2>5. t' = T
    BY <2>1, <1>1 DEF t
  <2>6. QED
    BY <2>4, <2>5
<1>12. Framed(p)'
  BY <1>1, <1>4, <1>8, <1>11 DEF Framed, Records, a, d, t
<1>13. NoHeader \in HeaderType
  <2>1. <<0, 0>> \in Seq(Nat) /\ <<>> \in Seq(Nat)
    OBVIOUS
  <2>2. QED
    BY <2>1 DEF NoHeader, HeaderType
<1>14. phase' \in Phases \ {"member", "done"} /\ header' \in HeaderType /\ want' \in Nat
  BY <1>1, <1>13 DEF Phases, Records
<1>15. QED
  BY <1>1, <1>2, <1>8, <1>12, <1>14, FramedKeeps

-----------------------------------------------------------------------------
(* The reader's steps.  What is read of a member, or of a plain object:    *)
LEMMA ReadsMember ==
  ASSUME IInv, obj.gz, NEW p \in 1..Len(obj.parts), Framed(p), phase \in Records
  PROVE  Reads(PartText(obj, p))
<1>1. PartText(obj, p) \in Seq(TextUnit) /\ TextUnit \subseteq Unit
  BY MemberAt DEF Unit
<1>2. PartText(obj, p) \in Seq(Unit)
  BY <1>1, SeqMonotonic, Zenon
<1>3. obj.gz \in BOOLEAN
  BY ObjectIs
<1>4. QED
  BY <1>1, <1>2, <1>3 DEF Reads, Framed, IInv

(* The reader reads the object itself.                                     *)
LEMMA ReadsPlain ==
  ASSUME IInv, ~obj.gz, phase \in Records
  PROVE  Reads(Stored[obj])
<1>1. Stored[obj] \in Seq(TextUnit) /\ Stored[obj] \in Seq(Unit) /\ obj.gz \in BOOLEAN
  BY ObjectIs, StoredTold
<1>2. QED
  BY <1>1 DEF Reads, Plain, IInv

(* A step of the reader that stays in its text.                            *)
LEMMA ReaderKeeps ==
  ASSUME IInv, phase \in Records, Ready, want \in Nat,
         Consume, start' = start, rows' = rows, offset' = offset + want, Here, want' \in Nat,
         \A T : Reads(T) => Reads(T)'
  PROVE  IInv'
<1>1. obj' = obj /\ UNCHANGED <<cut, sent, channel, raw_pos>>
  BY DEF Here
<1>2. phase' \in Records /\ header' \in HeaderType
  <2>1. \E T : Reads(T)
    <3>1. CASE obj.gz
      <4>1. \E p \in 1..Len(obj.parts) : Framed(p)
        BY <3>1 DEF IInv, Splits, Records
      <4>2. QED
        BY <4>1, <3>1, ReadsMember
    <3>2. CASE ~obj.gz
      BY <3>2, ReadsPlain
    <3>3. QED
      BY <3>1, <3>2
  <2>2. QED
    BY <2>1 DEF Reads
<1>3. CASE obj.gz
  <2>1. buf' = buf
    BY <1>1, <1>2, <1>3, Taken, ObjectIs
  <2>2. Streamed' /\ pos' = pos
    BY <2>1, <1>1, StreamKept DEF IInv
  <2>3. PICK p \in 1..Len(obj.parts) : Framed(p)
    BY <1>3 DEF IInv, Splits, Records
  <2>4. PICK T : T = PartText(obj, p)
    OBVIOUS
  <2>5. Reads(T)
    BY <2>3, <2>4, <1>3, ReadsMember
  <2>6. Parsed(T)'
    BY <2>5 DEF Reads
  <2>7. PartText(obj, p)' = T
    BY <2>4, <1>1
  <2>8. obj.parts[p].damage = "none" /\ pos = Starts(obj)[p + 1] /\ start = Starts(obj)[p]
    BY <2>3 DEF Framed
  <2>9. Framed(p)'
    BY <1>1, <1>2, <2>2, <2>6, <2>7, <2>8 DEF Framed, Records
  <2>10. phase' \in Phases \ {"member", "done"}
    BY <1>2 DEF Phases, Records
  <2>11. QED
    BY <1>1, <1>2, <1>3, <2>2, <2>9, <2>10, FramedKeeps
<1>4. CASE ~obj.gz
  <2>1. buf' = SubSeq(buf, want + 1, Len(buf)) /\ Input = buf
    BY <1>1, <1>2, <1>4, Taken, ObjectIs
  <2>2. Streamed' /\ pos' = pos + want
    <3>1. Len(buf) >= want
      BY <2>1 DEF Ready
    <3>2. QED
      BY <3>1, <2>1, <1>1, ConsumeStep DEF IInv
  <2>3. PICK T : T = Stored[obj]
    OBVIOUS
  <2>4. Reads(T) /\ offset = pos
    BY <2>3, <1>4, ReadsPlain DEF IInv, Plain
  <2>5. Parsed(T)'
    BY <2>4 DEF Reads
  <2>6. Stored[obj]' = T
    BY <2>3, <1>1
  <2>7. Plain' /\ Splits'
    BY <1>1, <1>2, <1>4, <2>2, <2>4, <2>5, <2>6 DEF Plain, Splits
  <2>8. phase' \in Phases /\ start' \in Nat
    BY <1>2 DEF Phases, IInv
  <2>9. QED
    BY <1>1, <1>2, <2>2, <2>7, <2>8, InvKeeps
<1>5. QED
  BY <1>3, <1>4, ObjectIs

(* Every step of the reader before the end of a record.                    *)
LEMMA ReaderSteps ==
  ASSUME IInv, SkipBlank \/ Version \/ HeaderLine \/ HeaderEnd \/ Block
  PROVE  IInv'
<1>1. phase \in Records /\ Ready /\ Here /\ want \in Nat
  BY DEF SkipBlank, Version, HeaderLine, HeaderEnd, Block, Records, IInv
<1>2. ASSUME NEW T, Reads(T)
      PROVE  Reads(T)' /\ start' = start /\ rows' = rows /\ offset' = offset + want /\ Consume
  BY <1>2, SkipBlankStep, VersionStep, HeaderLineStep, HeaderEndStep, BlockStep
<1>3. \E T : Reads(T)
  <2>1. CASE obj.gz
    <3>1. \E p \in 1..Len(obj.parts) : Framed(p)
      BY <1>1, <2>1 DEF IInv, Splits, Records
    <3>2. QED
      BY <3>1, <1>1, <2>1, ReadsMember
  <2>2. CASE ~obj.gz
    BY <1>1, <2>2, ReadsPlain
  <2>3. QED
    BY <2>1, <2>2
<1>4. start' = start /\ rows' = rows /\ offset' = offset + want /\ Consume
  BY <1>2, <1>3
<1>5. want' \in Nat
  <2>1. CASE HeaderEnd
    <3>1. want' = header.length[1] /\ header.length # <<>> /\ phase = "header"
      BY <2>1 DEF HeaderEnd, Then
    <3>2. PICK T : Reads(T)
      BY <1>3
    <3>3. header.length \in Seq(Nat) /\ Len(header.length) = 1
      BY <3>1, <3>2 DEF Reads, Parsed, Declared, HeaderType
    <3>4. 1 \in 1..Len(header.length)
      BY <3>3
    <3>5. QED
      BY <3>1, <3>3, <3>4
  <2>2. CASE SkipBlank \/ Version \/ HeaderLine \/ Block
    BY <2>2, <1>1 DEF SkipBlank, Version, HeaderLine, Block, Then
  <2>3. QED
    BY <2>1, <2>2
<1>6. QED
  BY <1>1, <1>2, <1>4, <1>5, ReaderKeeps

(* A record is complete: its row says where it is.                         *)
LEMMA RowAdded ==
  ASSUME IInv, Terminator
  PROVE  Row \in RowType /\ RowOk(Row)
<1>1. phase = "terminator" /\ phase \in Records
  BY DEF Terminator, Records
<1>2. Row = [of |-> header.of, offset |-> header.offset, length |-> header.length[1],
             c_offset |-> IF obj.gz THEN start ELSE 0]
  BY DEF Row
<1>3. header \in HeaderType /\ start \in Nat
  BY DEF IInv
<1>4. header.of \in Seq(Nat) /\ header.offset \in Nat
  BY <1>3 DEF HeaderType
<1>5. CASE obj.gz
  <2>1. PICK p \in 1..Len(obj.parts) : Framed(p)
    BY <1>1, <1>5 DEF IInv, Splits
  <2>2. Reads(PartText(obj, p))
    BY <1>1, <1>5, <2>1, ReadsMember
  <2>3. /\ Placed(PartText(obj, p), Row) /\ header.length[1] \in Nat
        /\ OnlyBlank(PartText(obj, p), header.offset - 1)
    BY <2>2, <1>5, TerminatorPlaces
  <2>4. obj.parts[p].damage = "none" /\ start = Starts(obj)[p]
    BY <1>1, <2>1 DEF Framed
  <2>5. Row.c_offset = start /\ Row.offset = header.offset
    BY <1>2, <1>5
  <2>6. RowOk(Row)
    BY <2>3, <2>4, <2>5, <1>5 DEF RowOk
  <2>7. Row \in RowType
    BY <2>3, <1>2, <1>3, <1>4, <1>5 DEF RowType
  <2>8. QED
    BY <2>6, <2>7
<1>6. CASE ~obj.gz
  <2>1. Placed(Stored[obj], Row) /\ header.length[1] \in Nat
    BY <1>1, <1>6, ReadsPlain, TerminatorPlaces
  <2>2. Row \in RowType
    BY <2>1, <1>2, <1>4, <1>6 DEF RowType
  <2>3. QED
    BY <2>1, <2>2, <1>6 DEF RowOk
<1>7. QED
  BY <1>5, <1>6

(* Terminator: a row is placed where its record begins.                    *)
LEMMA TerminatorKeeps == ASSUME IInv, Terminator PROVE IInv'
<1>1. /\ phase = "terminator" /\ Ready /\ Consume /\ offset' = offset + 2
      /\ rows' = (IF KindOf(obj, header.of) = "capture" THEN Append(rows, Row) ELSE rows)
      /\ phase' = (IF obj.gz THEN "member" ELSE "record") /\ want' = 1
      /\ start' = start /\ header' = header
      /\ obj' = obj /\ UNCHANGED <<cut, sent, channel, raw_pos>>
  BY DEF Terminator, handle_record, Then, Here
<1>2. phase \in Records /\ start \in Nat /\ header \in HeaderType
  BY <1>1 DEF Records, IInv
<1>3. (rows \in Seq(RowType) /\ \A i \in 1..Len(rows) : RowOk(rows[i]))'
  <2>1. \A r : RowOk(r)' <=> RowOk(r)
    BY <1>1 DEF RowOk
  <2>2. rows \in Seq(RowType) /\ \A i \in 1..Len(rows) : RowOk(rows[i])
    BY DEF IInv
  <2>3. CASE rows' = rows
    BY <2>1, <2>2, <2>3
  <2>4. CASE rows' = Append(rows, Row)
    <3>1. PICK r : r = Row
      OBVIOUS
    <3>2. r \in RowType /\ RowOk(r) /\ rows' = Append(rows, r)
      BY <3>1, <2>4, RowAdded
    <3>3. rows' \in Seq(RowType) /\ Len(rows') = Len(rows) + 1 /\ Len(rows) \in Nat
      BY <3>2, <2>2
    <3>4. ASSUME NEW i \in 1..Len(rows') PROVE RowOk(rows'[i])
      <4>1. CASE i \in 1..Len(rows)
        BY <4>1, <2>2, <3>2
      <4>2. CASE i \notin 1..Len(rows)
        <5>1. i = Len(rows) + 1
          BY <4>2, <3>3
        <5>2. rows'[i] = r
          BY <5>1, <3>2, <2>2
        <5>3. QED
          BY <5>2, <3>2
      <4>3. QED
        BY <4>1, <4>2
    <3>5. \A i \in 1..Len(rows') : RowOk(rows[i])'
      <4>1. ASSUME NEW i \in 1..Len(rows') PROVE RowOk(rows[i])'
        <5>1. PICK x : x = rows'[i]
          OBVIOUS
        <5>2. RowOk(x)
          BY <5>1, <3>4
        <5>3. RowOk(x)'
          BY <5>2, <2>1
        <5>4. QED
          BY <5>1, <5>3
      <4>2. QED
        BY <4>1
    <3>6. QED
      BY <3>3, <3>5
  <2>5. QED
    BY <2>3, <2>4, <1>1
<1>4. CASE obj.gz
  <2>1. buf' = buf
    BY <1>1, <1>2, <1>4 DEF Consume, InMemory, Records
  <2>2. Streamed' /\ pos' = pos
    BY <2>1, <1>1, StreamKept DEF IInv
  <2>3. PICK p \in 1..Len(obj.parts) : Framed(p)
    BY <1>1, <1>4 DEF IInv, Splits
  <2>4. pos = Starts(obj)[p + 1] /\ p + 1 \in 1..(Len(obj.parts) + 1)
    BY <1>2, <2>3, ObjectIs DEF Framed
  <2>5. Splits' /\ Plain'
    BY <1>1, <1>4, <2>2, <2>4 DEF Splits, Plain
  <2>6. QED
    BY <1>1, <1>2, <1>3, <1>4, <2>2, <2>5 DEF IInv, Phases
<1>5. CASE ~obj.gz
  <2>1. buf' = SubSeq(buf, want + 1, Len(buf)) /\ Input = buf /\ Input' = buf'
    BY <1>1, <1>5 DEF Consume, Input, InMemory, Rest
  <2>2. PICK T : T = Stored[obj]
    OBVIOUS
  <2>3. Reads(T) /\ offset = pos
    BY <2>2, <1>2, <1>5, ReadsPlain DEF IInv, Plain
  <2>4. want = 2 /\ Len(Input) >= want /\ Len(Input) \in Nat
    BY <2>3, <1>1 DEF Reads, Parsed, Ready, Window
  <2>5. Streamed' /\ pos' = pos + 2
    BY <2>1, <2>4, <1>1, ConsumeStep DEF IInv
  <2>6. Window(Input, T, offset)'
    <3>1. Takes(2)
      BY <2>1, <2>4, <1>1 DEF Takes
    <3>2. QED
      BY <3>1, <2>3, Advance
  <2>7. Parsed(T)'
    BY <2>6, <1>1, <1>5 DEF Parsed
  <2>8. Stored[obj]' = T
    BY <2>2, <1>1
  <2>9. Splits' /\ Plain'
    BY <1>1, <1>5, <2>3, <2>5, <2>7, <2>8 DEF Splits, Plain, Records
  <2>10. QED
    BY <1>1, <1>2, <1>3, <1>5, <2>5, <2>9 DEF IInv, Phases, Records
<1>6. QED
  BY <1>4, <1>5

(* A member that is no record is passed over.                              *)
LEMMA PassedOver ==
  ASSUME IInv, obj.gz, phase \in Records, phase' = "member", want' = 1, Here,
         UNCHANGED <<buf, start, header, rows>>
  PROVE  IInv'
<1>1. obj' = obj /\ UNCHANGED <<cut, sent, channel, raw_pos>>
  BY DEF Here
<1>2. Streamed' /\ pos' = pos
  BY <1>1, StreamKept DEF IInv
<1>3. PICK p \in 1..Len(obj.parts) : Framed(p)
  BY DEF IInv, Splits, Records
<1>4. pos = Starts(obj)[p + 1] /\ p + 1 \in 1..(Len(obj.parts) + 1)
  BY <1>3, ObjectIs DEF Framed
<1>5. Splits' /\ Plain'
  BY <1>1, <1>2, <1>4 DEF Splits, Plain
<1>6. QED
  BY <1>1, <1>2, <1>5, InvKeeps DEF IInv, Phases

(* RecordFails, NoRecord: the member, or the rest, is given up.            *)
LEMMA FailKeeps ==
  ASSUME IInv, RecordFails \/ NoRecord
  PROVE  IInv'
<1>1. phase \in Records
  BY DEF RecordFails, NoRecord, Malformed, Records
<1>2. CASE obj.gz
  BY <1>1, <1>2, PassedOver DEF RecordFails, NoRecord, Then
<1>3. CASE ~obj.gz
  BY <1>3, ReturnKeeps DEF RecordFails, NoRecord
<1>4. QED
  BY <1>2, <1>3

(* Init establishes the invariant.                                         *)
LEMMA InvInit == Init => IInv
<1> SUFFICES ASSUME Init PROVE IInv
  OBVIOUS
<1>1. Streamed
  BY StreamInit
<1>2. /\ obj \in Objects /\ raw_pos = 0 /\ buf = <<>> /\ want = 1 /\ start = 0 /\ offset = 0
      /\ header = NoHeader /\ rows = <<>> /\ phase = (IF obj.gz THEN "member" ELSE "record")
  BY DEF Init
<1>3. obj.gz \in BOOLEAN /\ pos = 0
  <2>1. Len(buf) = 0
    BY <1>2
  <2>2. QED
    BY <2>1, <1>2, StreamAssumption DEF pos
<1>4. NoHeader \in HeaderType
  <2>1. <<0, 0>> \in Seq(Nat) /\ <<>> \in Seq(Nat)
    OBVIOUS
  <2>2. QED
    BY <2>1 DEF NoHeader, HeaderType
<1>5. Splits
  <2> SUFFICES ASSUME obj.gz PROVE Splits
    BY DEF Splits
  <2>1. Starts(obj)[1] = 0 /\ 1 \in 1..(Len(obj.parts) + 1)
    BY <1>2, StoredParts
  <2>2. QED
    BY <2>1, <1>2, <1>3 DEF Splits
<1>6. Plain
  <2> SUFFICES ASSUME ~obj.gz PROVE Plain
    BY DEF Plain
  <2>1. Input = buf
    BY DEF Input, InMemory
  <2>2. Window(Input, Stored[obj], offset)
    BY <2>1, <1>1, <1>2, <1>3 DEF Streamed
  <2>3. QED
    BY <2>2, <1>2, <1>3 DEF Plain, Parsed, Records
<1>7. rows \in Seq(RowType) /\ Len(rows) = 0
  BY <1>2
<1>8. phase \in Phases /\ header \in HeaderType /\ start \in Nat /\ want \in Nat
  BY <1>2, <1>4 DEF Phases, Records
<1>9. QED
  BY <1>1, <1>5, <1>6, <1>7, <1>8 DEF IInv

(* Every step keeps the invariant.                                         *)
LEMMA InvNext == IInv /\ [Next]_vars => IInv'
<1> SUFFICES ASSUME IInv, [Next]_vars PROVE IInv'
  OBVIOUS
<1>1. CASE Send
  <2>1. Streamed' /\ pos' = pos
    BY <1>1, SendStep DEF IInv
  <2>2. UNCHANGED <<obj, phase, want, start, text, offset, header, rows>>
    BY <1>1 DEF Send, parser, result
  <2>3. QED
    BY <2>1, <2>2, StreamKeeps
<1>2. CASE SenderStops \/ UNCHANGED vars
  <2>1. UNCHANGED <<obj, cut, sent, channel, parser, result>>
    BY <1>2 DEF SenderStops, vars
  <2>2. UNCHANGED <<obj, phase, want, start, text, offset, header, rows>>
        /\ UNCHANGED <<obj, cut, sent, channel, raw_pos, buf>>
    BY <2>1 DEF parser, result
  <2>3. QED
    BY <2>2, StreamKept, StreamKeeps DEF IInv
<1>3. CASE Read
  <2>1. Streamed' /\ pos' = pos
    BY <1>3, ReadStep DEF IInv
  <2>2. UNCHANGED <<obj, phase, want, start, text, offset, header, rows>>
    BY <1>3 DEF Read, result
  <2>3. QED
    BY <2>1, <2>2, StreamKeeps
<1>4. CASE CleanEnd \/ SplitterFails
  BY <1>4, ReturnKeeps DEF CleanEnd, SplitterFails
<1>5. CASE BeginMember \/ FixedHeader \/ OptionalHeader \/ Inflate \/ Trailer
  BY <1>5, BeginMemberKeeps, FixedHeaderKeeps, OptionalHeaderKeeps, InflateKeeps, TrailerKeeps
<1>6. CASE SkipBlank \/ Version \/ HeaderLine \/ HeaderEnd \/ Block
  BY <1>6, ReaderSteps
<1>7. CASE Terminator \/ RecordFails \/ NoRecord
  BY <1>7, TerminatorKeeps, FailKeeps
<1>8. QED
  BY <1>1, <1>2, <1>3, <1>4, <1>5, <1>6, <1>7 DEF Next, Sender, Parser

-----------------------------------------------------------------------------
(* fetch_warc_record.  Units flattened one by one are the sequence.        *)
LEMMA FlattenUnits ==
  ASSUME NEW S, NEW t \in Seq(S), NEW ss, ss = [i \in 1..Len(t) |-> <<t[i]>>]
  PROVE  FlattenSeq(ss) = t
<1> DEFINE n == Len(t)
<1>1. n \in Nat /\ \A i \in 1..n : t[i] \in S
  OBVIOUS
<1>2. \A i \in 1..n : <<t[i]>> \in Seq(S)
  <2> TAKE i \in 1..n
  <2>1. t[i] \in S
    BY <1>1
  <2>2. QED
    BY <2>1, Singly
<1>3. ss \in Seq(Seq(S)) /\ Len(ss) = n /\ \A i \in 1..n : ss[i] = <<t[i]>>
  BY <1>1, <1>2
<1>4. PICK at : Cuts(ss, at)
  BY <1>3, Flattened
<1>5. \A i \in 1..n : Len(ss[i]) = 1 /\ ss[i][1] = t[i] /\ 1 \in 1..Len(ss[i])
  BY <1>3
<1> HIDE DEF n
<1>6. /\ at \in [1..(n + 1) -> Nat] /\ at[1] = 0 /\ at[n + 1] = Len(FlattenSeq(ss))
      /\ \A i \in 1..n : at[i + 1] = at[i] + 1
      /\ \A i \in 1..n : FlattenSeq(ss)[at[i] + 1] = t[i]
  <2>1. /\ at \in [1..(n + 1) -> Nat] /\ at[1] = 0 /\ at[n + 1] = Len(FlattenSeq(ss))
        /\ \A i \in 1..n : at[i + 1] = at[i] + Len(ss[i])
    BY <1>3, <1>4 DEF Cuts
  <2>2. \A i \in 1..n : \A k \in 1..Len(ss[i]) : FlattenSeq(ss)[at[i] + k] = ss[i][k]
    BY <1>3, <1>4 DEF Cuts
  <2>3. \A i \in 1..n : FlattenSeq(ss)[at[i] + 1] = t[i]
    BY <2>2, <1>5
  <2>4. \A i \in 1..n : at[i + 1] = at[i] + 1
    BY <2>1, <1>5
  <2>5. QED
    BY <2>1, <2>3, <2>4
<1>7. \A i \in 1..(n + 1) : at[i] = i - 1
  <2> DEFINE Bad == {i \in 1..(n + 1) : at[i] # i - 1}
  <2>1. SUFFICES ASSUME Bad # {} PROVE FALSE
    OBVIOUS
  <2>2. PICK i \in Bad : \A j \in Bad : i <= j
    <3>1. Bad \subseteq Nat
      BY <1>1
    <3> HIDE DEF Bad
    <3>2. QED
      BY <2>1, <3>1, Least
  <2>3. i \in 1..(n + 1) /\ at[i] # i - 1 /\ i # 1
    BY <2>2, <1>6
  <2>4. i - 1 \in 1..n /\ i - 1 \in 1..(n + 1) /\ (i - 1) + 1 = i /\ ~(i <= i - 1)
    BY <2>3, <1>1
  <2>5. at[i - 1] = (i - 1) - 1
    BY <2>2, <2>4
  <2>6. at[i] = at[i - 1] + 1
    BY <2>4, <1>6
  <2>7. QED
    BY <2>3, <2>4, <2>5, <2>6, <1>1
<1>8. Len(FlattenSeq(ss)) = n
  BY <1>1, <1>6, <1>7
<1>9. \A i \in 1..n : FlattenSeq(ss)[i] = t[i]
  <2> TAKE i \in 1..n
  <2>1. at[i] + 1 = i
    BY <1>1, <1>7
  <2>2. QED
    BY <2>1, <1>6
<1>10. FlattenSeq(ss) \in Seq(S)
  BY <1>3, Flattened
<1>11. QED
  BY <1>8, <1>9, <1>10, SeqEqual, Zenon DEF n

(* A range that begins with a sound member decodes to its text.            *)
LEMMA DecodedIs ==
  ASSUME NEW o \in Objects, NEW p \in 1..Len(o.parts), o.parts[p].damage = "none",
         PartText(o, p) # <<>>,
         NEW range, range \in Seq(Unit), Len(Member(o, p)) <= Len(range),
         \A k \in 1..Len(Member(o, p)) : range[k] = Member(o, p)[k]
  PROVE  Decoded(range) = PartText(o, p)
<1> DEFINE M == Member(o, p)
           t == PartText(o, p)
           q == o.parts[p].opts
           n == Len(t)
           ends == {i \in 1..Len(range) : range[i].packed = "data" /\ range[i].end}
           E == 2 + q + n
<1>1. /\ M \in Seq(PackedUnit) /\ MemberShape(M, o, p) /\ q \in Nat
      /\ t \in Seq(TextUnit) /\ Carriers(o, p) = n
  BY MemberIs, PartOf, PartTold DEF Carriers
<1>2. n \in Nat /\ n >= 1 /\ Len(range) \in Nat
  BY <1>1, EmptySeq
<1>3. /\ Len(M) = 2 + q + n + 2 /\ M[1].packed = "magic"
      /\ M[2].packed = "flags" /\ M[2].content = q
      /\ \A i \in 1..q : M[2 + i].packed = "option"
      /\ \A i \in 1..n : /\ M[2 + q + i].packed = "data" /\ M[2 + q + i].content = <<t[i]>>
                         /\ M[2 + q + i].end <=> i = n
  <2>1. /\ Len(M) = 2 + q + n + 2 /\ M[1].packed = "magic"
        /\ M[2].packed = "flags" /\ M[2].content = q
        /\ \A i \in 1..q : M[2 + i].packed = "option"
    BY <1>1 DEF MemberShape
  <2>2. \A i \in 1..n : /\ M[2 + q + i].packed = "data"
                        /\ M[2 + q + i].content = (IF t = <<>> THEN <<>> ELSE <<t[i]>>)
                        /\ M[2 + q + i].end <=> i = n /\ o.parts[p].damage # "deflate"
    <3>1. \A i \in 1..n : M[2 + q + i].packed = "data"
      BY <1>1 DEF MemberShape
    <3>2. \A i \in 1..n : M[2 + q + i].content = (IF t = <<>> THEN <<>> ELSE <<t[i]>>)
      BY <1>1 DEF MemberShape
    <3>3. \A i \in 1..n : M[2 + q + i].end <=> i = n /\ o.parts[p].damage # "deflate"
      <4> DEFINE c == Carriers(o, p)
      <4>1. \A i \in 1..c : M[2 + q + i].end <=> i = c /\ o.parts[p].damage # "deflate"
        <5> HIDE DEF M
        <5>1. QED
          BY <1>1 DEF MemberShape
      <4>2. c = n
        BY <1>1
      <4> HIDE DEF c, M, q, n
      <4>3. QED
        BY <4>1, <4>2
    <3> HIDE DEF M, t, q, n
    <3>4. QED
      BY <3>1, <3>2, <3>3
  <2>3. t # <<>> /\ o.parts[p].damage # "deflate"
    OBVIOUS
  <2> HIDE DEF M, t, q, n
  <2>4. ASSUME NEW i \in 1..n
        PROVE  /\ M[2 + q + i].packed = "data" /\ M[2 + q + i].content = <<t[i]>>
               /\ M[2 + q + i].end <=> i = n
    <3>1. M[2 + q + i].packed = "data" /\ M[2 + q + i].content = <<t[i]>>
      BY <2>2, <2>3
    <3>2. M[2 + q + i].end <=> i = n
      BY <2>2, <2>3
    <3>3. QED
      BY <3>1, <3>2
  <2>5. QED
    BY <2>1, <2>4
<1>4. \A k \in 1..(2 + q + n + 2) : range[k] = M[k]
  BY <1>3
<1>5. 2 + q + n + 2 <= Len(range)
  BY <1>3
<1> HIDE DEF M, t, q, n
<1>6. range[1].packed = "magic" /\ range[2].packed = "flags" /\ range[2].content = q
  <2>1. 1 \in 1..(2 + q + n + 2) /\ 2 \in 1..(2 + q + n + 2)
    BY <1>1, <1>2
  <2>2. QED
    BY <2>1, <1>3, <1>4
<1>7. \A i \in 1..q : range[2 + i].packed = "option"
  <2>1. \A i \in 1..q : 2 + i \in 1..(2 + q + n + 2)
    BY <1>1, <1>2
  <2>2. QED
    BY <2>1, <1>3, <1>4
<1>8. \A i \in 1..n : /\ range[2 + q + i].packed = "data" /\ range[2 + q + i].content = <<t[i]>>
                      /\ range[2 + q + i].end <=> i = n
  <2>1. \A i \in 1..n : 2 + q + i \in 1..(2 + q + n + 2)
    BY <1>1, <1>2
  <2>2. QED
    BY <2>1, <1>3, <1>4
<1>9. E \in ends
  <2>1. n \in 1..n /\ 2 + q + n \in 1..Len(range)
    BY <1>1, <1>2, <1>5
  <2>2. QED
    BY <2>1, <1>8
<1>10. ASSUME NEW j \in ends PROVE E <= j
  <2>1. j \in 1..Len(range) /\ range[j].packed = "data" /\ range[j].end
    OBVIOUS
  <2>2. j \in Nat /\ E \in Nat
    BY <2>1, <1>1, <1>2
  <2>3. SUFFICES ASSUME j < E PROVE FALSE
    BY <2>2
  <2>4. CASE j <= 2
    <3>1. j = 1 \/ j = 2
      BY <2>1, <2>2, <2>4
    <3>2. QED
      BY <3>1, <2>1, <1>6
  <2>5. CASE j > 2 /\ j <= 2 + q
    <3>1. j - 2 \in 1..q /\ 2 + (j - 2) = j
      BY <2>2, <2>5, <1>1
    <3>2. QED
      BY <3>1, <2>1, <1>7
  <2>6. CASE j > 2 + q
    <3>1. j - (2 + q) \in 1..n /\ 2 + q + (j - (2 + q)) = j /\ j - (2 + q) # n
      BY <2>2, <2>3, <2>6, <1>1, <1>2
    <3>2. QED
      BY <3>1, <2>1, <1>8
  <2>7. QED
    BY <2>2, <2>4, <2>5, <2>6, <1>1
<1> DEFINE end == CHOOSE i \in ends : \A j \in ends : i <= j
<1>11. end = E
  <2>1. ends \subseteq Nat
    OBVIOUS
  <2>2. end \in ends /\ \A j \in ends : end <= j
    BY <1>9, <1>10
  <2> HIDE DEF ends, end
  <2>3. end <= E /\ E <= end
    BY <2>2, <1>9, <1>10
  <2>4. end \in Nat /\ E \in Nat
    BY <2>1, <2>2, <1>9
  <2> HIDE DEF E
  <2>5. QED
    BY <2>3, <2>4
<1>12. ~(range = <<>> \/ range[1].packed # "magic" \/ ends = {} \/ end + 2 > Len(range))
  <2>1. range # <<>>
    BY <1>5, <1>1, <1>2
  <2>2. ~(end + 2 > Len(range))
    <3>1. end + 2 = 2 + q + n + 2
      BY <1>11
    <3> HIDE DEF end
    <3>2. q \in Nat /\ n \in Nat /\ Len(range) \in Nat
      BY <1>1, <1>2
    <3>3. QED
      BY <3>1, <3>2, <1>5
  <2>3. QED
    BY <2>1, <2>2, <1>6, <1>9
<1> DEFINE ss == [i \in 1..(end - 2 - range[2].content) |-> range[i + 2 + range[2].content].content]
<1>13. Decoded(range) = FlattenSeq(ss)
  BY <1>12 DEF Decoded
<1>14. ss = [i \in 1..n |-> <<t[i]>>]
  <2>1. end - 2 - range[2].content = n
    <3>1. end - 2 - range[2].content = (2 + q + n) - 2 - q
      BY <1>6, <1>11
    <3> HIDE DEF end
    <3>2. q \in Nat /\ n \in Nat
      BY <1>1, <1>2
    <3>3. QED
      BY <3>1, <3>2
  <2>2. ss = [i \in 1..n |-> range[i + 2 + q].content]
    BY <2>1, <1>6
  <2>3. \A i \in 1..n : i + 2 + q = 2 + q + i
    BY <1>1, <1>2
  <2> HIDE DEF ss
  <2>4. \A i \in 1..n : range[i + 2 + q].content = <<t[i]>>
    BY <2>3, <1>8
  <2>5. QED
    BY <2>2, <2>4
<1> HIDE DEF ss
<1>15. FlattenSeq(ss) = t
  BY <1>1, <1>14, FlattenUnits DEF n
<1>16. QED
  BY <1>13, <1>15 DEF t

(* The first empty line that another line precedes ends the header.        *)
LEMMA BlockBehind ==
  ASSUME NEW F \in Seq(Unit), NEW b \in 2..Len(F), F[b].line = "blank", NoBlank(F, 2, b - 1)
  PROVE  warc_http_block(F) = SubSeq(F, b + 1, Len(F))
<1> DEFINE blanks == {i \in 2..Len(F) : F[i].line = "blank"}
           first == CHOOSE i \in blanks : \A j \in blanks : i <= j
<1>1. b \in blanks /\ Len(F) \in Nat /\ b \in Nat
  OBVIOUS
<1>2. ASSUME NEW j \in blanks PROVE b <= j
  <2>1. j \in Nat /\ j >= 2 /\ F[j].line = "blank"
    BY <1>1
  <2>2. j \notin 2..(b - 1)
    BY <2>1 DEF NoBlank
  <2>3. QED
    BY <2>1, <2>2, <1>1
<1>3. first \in blanks /\ \A j \in blanks : first <= j
  BY <1>1, <1>2, Zenon
<1>4. blanks \subseteq Nat
  BY <1>1
<1>5. warc_http_block(F) = IF blanks = {} THEN F ELSE SubSeq(F, first + 1, Len(F))
  BY DEF warc_http_block
<1> HIDE DEF blanks, first
<1>6. first = b
  BY <1>1, <1>2, <1>3, <1>4
<1>7. QED
  BY <1>1, <1>5, <1>6

(* Record e of part p, where a row of text T says it is.                   *)
Names(T, row, o, p, e) ==
  LET r == o.parts[p].text[e]
      b == row.offset + Len(r.head) + 1
  IN  /\ row.of = <<p, e>> /\ row.offset \in 1..Len(T) /\ Len(r.head) \in Nat \ {0}
      /\ b + r.size <= Len(T) /\ T[b].line = "blank"
      /\ T[row.offset].line = "version" /\ NoBlank(T, row.offset + 1, b - 1)
      /\ \A n \in 1..r.size : T[b + n] = [line |-> "block", value |-> <<p, e, n>>]
      /\ r.size \in Nat /\ r.size <= row.length

(* What a row claims of a text, with the record that lies there.           *)
LEMMA PlacedRecord ==
  ASSUME NEW o \in Objects, NEW ps, ps \subseteq 1..Len(o.parts),
         NEW T \in Seq(TextUnit), Told(T, o, ps), NEW row \in RowType, Placed(T, row)
  PROVE  \E p \in ps : \E e \in 1..Len(o.parts[p].text) : Names(T, row, o, p, e)
<1> DEFINE h == row.offset
<1>1. h \in 1..Len(T) /\ T[h].line = "version" /\ row.of = T[h].value
  BY DEF Placed
<1>2. PICK b \in (h + 2)..Len(T) :
        /\ T[b].line = "blank" /\ NoBlank(T, h + 1, b - 1)
        /\ b + row.length + 1 \in 1..Len(T) /\ T[b + row.length + 1].line = "blank"
  BY DEF Placed
<1>3. PICK p \in ps : \E e \in 1..Len(o.parts[p].text) : Lies(T, h, o, p, e)
  BY <1>1 DEF Told
<1>4. PICK e \in 1..Len(o.parts[p].text) : Lies(T, h, o, p, e)
  BY <1>3
<1> DEFINE r == o.parts[p].text[e]
           m == Len(r.head)
           z == r.size
           B == h + m + 1
<1>5. m \in Nat /\ z \in Nat
  <2>1. p \in 1..Len(o.parts)
    OBVIOUS
  <2>2. QED
    BY <2>1, ElementOf
<1>6. /\ T[h].value = <<p, e>> /\ B + z <= Len(T) /\ T[B].line = "blank"
      /\ \A k \in 1..m : T[h + k].line \in HeaderLines
      /\ \A n \in 1..z : T[B + n] = [line |-> "block", value |-> <<p, e, n>>]
  BY <1>4 DEF Lies
<1>7. h \in Nat /\ h >= 1 /\ row.length \in Nat /\ Len(T) \in Nat
  BY <1>1 DEF RowType
<1> HIDE DEF h, m, z
<1>8. b \in Nat /\ b >= h + 2
  BY <1>2, <1>7
<1>9. ~(b < B)
  <2> SUFFICES ASSUME b < B PROVE FALSE
    OBVIOUS
  <2>1. b - h \in 1..m /\ h + (b - h) = b
    BY <1>5, <1>7, <1>8
  <2>2. T[b].line \in HeaderLines
    BY <2>1, <1>6
  <2>3. QED
    BY <2>2, <1>2 DEF HeaderLines
<1>10. ~(b > B)
  <2> SUFFICES ASSUME b > B PROVE FALSE
    OBVIOUS
  <2>1. B \in (h + 1)..(b - 1)
    BY <1>5, <1>7, <1>8
  <2>2. T[B].line # "blank"
    BY <2>1, <1>2 DEF NoBlank
  <2>3. QED
    BY <2>2, <1>6
<1>11. b = B /\ m # 0
  BY <1>5, <1>7, <1>8, <1>9, <1>10
<1>12. z <= row.length
  <2> SUFFICES ASSUME row.length < z PROVE FALSE
    BY <1>5, <1>7
  <2>1. row.length + 1 \in 1..z /\ b + row.length + 1 = B + (row.length + 1)
    BY <1>5, <1>7, <1>8, <1>11, SMTT(30)
  <2>2. T[B + (row.length + 1)] = [line |-> "block", value |-> <<p, e, row.length + 1>>]
    BY <2>1, <1>6
  <2>3. QED
    BY <2>1, <2>2, <1>2
<1>13. NoBlank(T, h + 1, B - 1)
  BY <1>2, <1>11
<1>14. /\ row.of = <<p, e>> /\ h \in 1..Len(T) /\ m \in Nat \ {0}
       /\ B + z <= Len(T) /\ T[B].line = "blank"
       /\ T[h].line = "version" /\ NoBlank(T, h + 1, B - 1)
       /\ \A n \in 1..z : T[B + n] = [line |-> "block", value |-> <<p, e, n>>]
       /\ z \in Nat /\ z <= row.length
  BY <1>1, <1>5, <1>6, <1>11, <1>12, <1>13
<1>15. Names(T, row, o, p, e)
  BY <1>14, Zenon DEF h, m, z, Names
<1>16. QED
  BY <1>15

(* The block of a record.                                                  *)
LEMMA BlockIs ==
  ASSUME obj \in Objects, NEW p \in 1..Len(obj.parts), NEW e \in 1..Len(obj.parts[p].text)
  PROVE  LET s == BlockOf(<<p, e>>)
             r == obj.parts[p].text[e]
         IN  /\ s \in Seq(TextUnit) /\ Len(s) = r.size
             /\ \A n \in 1..r.size : s[n] = [line |-> "block", value |-> <<p, e, n>>]
<1> DEFINE r == obj.parts[p].text[e]
           m == Len(r.head)
           z == r.size
           T == RecordText(obj, p, e)
           s == SubSeq(T, m + 3, m + 2 + z)
<1>1. BlockOf(<<p, e>>) = s
  BY DEF BlockOf
<1>2. m \in Nat /\ z \in Nat
  BY ElementOf
<1>3. T \in Seq(TextUnit) /\ Lies(T, 1, obj, p, e)
  BY RecordLies
<1>4. /\ 1 + m + 1 + z <= Len(T)
      /\ \A n \in 1..z : T[(1 + m + 1) + n] = [line |-> "block", value |-> <<p, e, n>>]
  BY <1>3 DEF Lies
<1>5. Len(T) \in Nat
  BY <1>3
<1> HIDE DEF m, z, T
<1>6. \A i \in (m + 3)..(m + 2 + z) : i \in 1..Len(T)
  BY <1>2, <1>4, <1>5
<1>7. \A i \in (m + 3)..(m + 2 + z) : T[i] \in TextUnit
  BY <1>3, <1>6
<1>8. m + 3 \in Int /\ m + 2 + z \in Int
  BY <1>2
<1>9. /\ s \in Seq(TextUnit)
      /\ Len(s) = IF m + 3 <= m + 2 + z THEN (m + 2 + z) - (m + 3) + 1 ELSE 0
      /\ \A i \in 1..((m + 2 + z) - (m + 3) + 1) : s[i] = T[(m + 3) + i - 1]
  BY <1>7, <1>8, SubSeqProperties, SMTT(30)
<1> HIDE DEF s
<1>10. (m + 2 + z) - (m + 3) + 1 = z /\ Len(s) = z
  BY <1>2, <1>9
<1>11. \A n \in 1..z : (m + 3) + n - 1 = (1 + m + 1) + n
  BY <1>2
<1>12. QED
  BY <1>1, <1>4, <1>9, <1>10, <1>11 DEF z

(* A sequence that holds the block behind its unit b has it as prefix of   *)
(* what is behind b.                                                       *)
LEMMA PrefixBehind ==
  ASSUME NEW s \in Seq(TextUnit), NEW F \in Seq(Unit), NEW b \in Nat, b + Len(s) <= Len(F),
         \A n \in 1..Len(s) : F[b + n] = s[n]
  PROVE  IsPrefix(s, SubSeq(F, b + 1, Len(F)))
<1> DEFINE u == SubSeq(F, b + 1, Len(F))
           z == Len(s)
<1>1. z \in Nat /\ Len(F) \in Nat /\ b <= Len(F)
  OBVIOUS
<1>2. Window(u, F, b) /\ Len(u) = Len(F) - b
  BY <1>1, WindowCut
<1> HIDE DEF u
<1>3. u \in Seq(Unit) /\ \A k \in 1..Len(u) : u[k] = F[b + k]
  BY <1>2 DEF Window
<1>4. z <= Len(u) /\ Len(u) \in Nat
  BY <1>1, <1>2
<1>5. \A n \in 1..z : u[n] = s[n]
  <2>1. \A n \in 1..z : n \in 1..Len(u)
    BY <1>1, <1>4
  <2>2. \A n \in 1..z : F[b + n] = s[n]
    OBVIOUS
  <2>3. QED
    BY <2>1, <2>2, <1>3
<1>6. SubSeq(s, 1, z) = s
  BY SubSeqFull
<1>7. SubSeq(u, 1, z) = s
  <2> DEFINE v == SubSeq(u, 1, z)
  <2>1. /\ v \in Seq(Unit) /\ Len(v) = z
        /\ \A i \in 1..z : v[i] = u[i]
    <3>1. \A i \in 1..z : u[i] \in Unit
      BY <1>3, <1>4
    <3>2. /\ v \in Seq(Unit)
          /\ Len(v) = IF 1 <= z THEN z - 1 + 1 ELSE 0
          /\ \A i \in 1..(z - 1 + 1) : v[i] = u[1 + i - 1]
      BY <3>1, <1>1, SubSeqProperties
    <3> HIDE DEF v
    <3>3. z - 1 + 1 = z /\ (IF 1 <= z THEN z - 1 + 1 ELSE 0) = z /\ \A i \in 1..z : 1 + i - 1 = i
      BY <1>1
    <3>4. QED
      BY <3>2, <3>3
  <2>2. s \in Seq(Unit)
    <3>1. TextUnit \subseteq Unit
      BY DEF Unit
    <3>2. QED
      BY <3>1, SeqMonotonic, Zenon
  <2> HIDE DEF v
  <2>3. \A i \in 1..Len(v) : v[i] = s[i]
    BY <2>1, <1>5
  <2>4. v = s
    BY <2>1, <2>2, <2>3, SeqEqual
  <2>5. QED
    BY <2>4 DEF v
<1>8. QED
  BY <1>4, <1>6, <1>7 DEF IsPrefix, u

(* What fetch_warc_record asks for, cut off at the end of the object.      *)
Asked(from, n) ==
  SubSeq(Stored[obj], from + 1,
         IF from + n < Len(Stored[obj]) THEN from + n ELSE Len(Stored[obj]))

(* The units of such a range.                                              *)
LEMMA RangeIs ==
  ASSUME IInv, NEW from \in Nat, NEW n \in Nat, from <= Len(Stored[obj])
  PROVE  LET range == Asked(from, n) IN
         /\ range \in Seq(Unit)
         /\ Len(range) = IF from + n < Len(Stored[obj]) THEN n ELSE Len(Stored[obj]) - from
         /\ \A k \in 1..Len(range) : range[k] = Stored[obj][from + k]
<1> DEFINE T == Stored[obj]
           to == IF from + n < Len(T) THEN from + n ELSE Len(T)
           range == SubSeq(T, from + 1, to)
<1>1. T \in Seq(Unit) /\ Len(T) \in Nat
  BY ObjectIs
<1>2. to \in Nat /\ from <= to /\ to <= Len(T)
        /\ to - from = IF from + n < Len(T) THEN n ELSE Len(T) - from
  BY <1>1
<1>3. range = Asked(from, n)
  BY DEF Asked
<1> HIDE DEF T, to
<1>4. Window(range, T, from) /\ Len(range) = to - from
  BY <1>1, <1>2, WindowCut
<1> HIDE DEF range
<1>5. range \in Seq(Unit) /\ \A k \in 1..Len(range) : range[k] = T[from + k]
  BY <1>4 DEF Window
<1>6. QED
  BY <1>2, <1>3, <1>4, <1>5 DEF T

(* No member begins with two empty lines: warc_http_block would take the   *)
(* record's header for its block, though next_record reads on.             *)
OneBlank ==
  \A o \in Objects : o.gz =>
    \A p \in 1..Len(o.parts) :
      LET t == PartText(o, p)
      IN  Len(t) < 2 \/ t[1].line # "blank" \/ t[2].line # "blank"

(* In a gzip object: the member is decoded to its text.                    *)
LEMMA FindsInMember ==
  ASSUME OneBlank, IInv, obj.gz, NEW row \in RowType, RowOk(row), Fits(row)
  PROVE  IsPrefix(BlockOf(row.of), warc_http_block(fetch_warc_record(row)))
<1>1. PICK p \in 1..Len(obj.parts) :
        /\ obj.parts[p].damage = "none" /\ row.c_offset = Starts(obj)[p]
        /\ Placed(PartText(obj, p), row) /\ OnlyBlank(PartText(obj, p), row.offset - 1)
  BY DEF RowOk
<1> DEFINE t == PartText(obj, p)
           M == Member(obj, p)
           a == Starts(obj)[p]
           n == row.length + SlackGz
           range == Asked(a, n)
           h == row.offset
<1>2. obj \in Objects /\ {p} \subseteq 1..Len(obj.parts)
  BY ObjectIs
<1>3. t \in Seq(TextUnit) /\ Told(t, obj, {p})
  BY <1>2, PartTold
<1> DEFINE ps == {p}
<1> HIDE DEF t, ps
<1>4. PICK x \in ps : \E e \in 1..Len(obj.parts[x].text) : Names(t, row, obj, x, e)
  <2>1. ps \subseteq 1..Len(obj.parts) /\ Told(t, obj, ps)
    BY <1>2, <1>3 DEF ps
  <2>2. Placed(t, row)
    BY <1>1 DEF t
  <2>3. t \in Seq(TextUnit) /\ obj \in Objects
    BY <1>2, <1>3
  <2>4. QED
    BY <2>1, <2>2, <2>3, PlacedRecord
<1>5. PICK e \in 1..Len(obj.parts[p].text) : Names(t, row, obj, p, e)
  <2>1. x = p
    BY SMTT(30) DEF ps
  <2>2. QED
    BY <1>4, <2>1
<1> DEFINE z == obj.parts[p].text[e].size
           m == Len(obj.parts[p].text[e].head)
           b == h + m + 1
           s == BlockOf(<<p, e>>)
<1>6. /\ row.of = <<p, e>> /\ h \in 1..Len(t) /\ m \in Nat \ {0}
      /\ b + z <= Len(t) /\ t[b].line = "blank"
      /\ t[h].line = "version" /\ NoBlank(t, h + 1, b - 1)
      /\ \A k \in 1..z : t[b + k] = [line |-> "block", value |-> <<p, e, k>>]
      /\ z \in Nat
  BY <1>5 DEF Names
<1>7. /\ s \in Seq(TextUnit) /\ Len(s) = z
      /\ \A k \in 1..z : s[k] = [line |-> "block", value |-> <<p, e, k>>]
  BY <1>2, BlockIs
<1> HIDE DEF z, m, s
<1>8. Len(t) \in Nat /\ h \in Nat /\ h >= 1
  BY <1>3, <1>6, SMTT(30)
<1>9. b \in 2..Len(t) /\ b \in Nat
  <2>1. m \in Nat /\ m # 0 /\ z \in Nat /\ h + m + 1 + z <= Len(t)
    BY <1>6
  <2> HIDE DEF h
  <2>2. QED
    BY <2>1, <1>8
<1>10. fetch_warc_record(row) = t
  <2>1. /\ a \in Nat /\ M \in Seq(PackedUnit) /\ Len(M) \in Nat
        /\ \A k \in 1..Len(M) : Stored[obj][a + k] = M[k]
        /\ MemberShape(M, obj, p)
    BY MemberAt
  <2>2. a + Len(M) <= Len(Stored[obj]) /\ Len(Stored[obj]) \in Nat
    <3>1. 2 + obj.parts[p].opts + Carriers(obj, p) + 2 <= Len(M)
      BY <2>1 DEF MemberShape
    <3>2. obj.parts[p].opts \in Nat /\ Carriers(obj, p) \in Nat
      BY MemberAt
    <3>3. Len(M) \in 1..Len(M)
      BY <2>1, <3>1, <3>2
    <3>4. a + Len(M) \in 1..Len(Stored[obj])
      BY <1>2, <3>3, StoredParts
    <3>5. QED
      BY <3>4, ObjectIs
  <2>3. n \in Nat /\ Len(M) <= n
    <3>1. row.length \in Nat /\ SlackGz \in Nat
      BY StreamAssumption DEF RowType
    <3>2. row.of[1] = p
      BY <1>6
    <3>3. QED
      BY <3>1, <3>2 DEF Fits
  <2> HIDE DEF a, M, n
  <2>4. /\ range \in Seq(Unit)
        /\ Len(range) = IF a + n < Len(Stored[obj]) THEN n ELSE Len(Stored[obj]) - a
        /\ \A k \in 1..Len(range) : range[k] = Stored[obj][a + k]
    <3>1. a <= Len(Stored[obj])
      BY <2>1, <2>2
    <3>2. QED
      BY <3>1, <2>1, <2>3, RangeIs
  <2> HIDE DEF range
  <2>5. Len(M) <= Len(range) /\ Len(range) \in Nat
    BY <2>1, <2>2, <2>3, <2>4
  <2>6. \A k \in 1..Len(M) : range[k] = M[k]
    BY <2>1, <2>4, <2>5
  <2>7. PartText(obj, p) # <<>>
    BY <1>6, <1>8 DEF t
  <2>8. Decoded(range) = t
    BY <1>1, <1>2, <2>4, <2>5, <2>6, <2>7, DecodedIs DEF M, t
  <2>9. fetch_warc_record(row) = Decoded(range)
    BY <1>1 DEF fetch_warc_record, Asked, range, a, n
  <2>10. QED
    BY <2>8, <2>9
<1>11. NoBlank(t, 2, b - 1)
  <2> SUFFICES ASSUME NEW k \in 2..(b - 1) PROVE t[k].line # "blank"
    BY DEF NoBlank
  <2>1. h <= 2
    <3> SUFFICES ASSUME h >= 3 PROVE FALSE
      BY <1>8
    <3>1. 1 \in 1..(h - 1) /\ 2 \in 1..(h - 1) /\ ~(Len(t) < 2)
      <4>1. h <= Len(t)
        BY <1>6, <1>8
      <4> HIDE DEF h
      <4>2. QED
        BY <4>1, <1>8
    <3>2. t[1].line = "blank" /\ t[2].line = "blank"
      BY <1>1, <3>1 DEF OnlyBlank, t
    <3>3. QED
      BY <1>2, <3>1, <3>2 DEF OneBlank, t
  <2>2. k = h \/ k \in (h + 1)..(b - 1)
    BY <2>1, <1>8, <1>9
  <2>3. QED
    BY <2>2, <1>6 DEF NoBlank
<1>12. t \in Seq(Unit)
  <2>1. TextUnit \subseteq Unit
    BY DEF Unit
  <2>2. QED
    BY <2>1, <1>3, SeqMonotonic, Zenon
<1> HIDE DEF b
<1>13. warc_http_block(t) = SubSeq(t, b + 1, Len(t))
  BY <1>6, <1>9, <1>11, <1>12, BlockBehind
<1>14. IsPrefix(s, SubSeq(t, b + 1, Len(t)))
  BY <1>6, <1>7, <1>9, <1>12, PrefixBehind
<1>15. QED
  BY <1>6, <1>10, <1>13, <1>14 DEF s

(* In a plain object: the range begins behind the version line.            *)
LEMMA FindsInPlain ==
  ASSUME IInv, ~obj.gz, NEW row \in RowType, RowOk(row), Fits(row)
  PROVE  IsPrefix(BlockOf(row.of), warc_http_block(fetch_warc_record(row)))
<1> DEFINE T == Stored[obj]
           ps == 1..Len(obj.parts)
           n == row.length + SlackPlain
           h == row.offset
           F == Asked(h, n)
<1>1. obj \in Objects /\ T \in Seq(TextUnit) /\ Told(T, obj, ps) /\ ps \subseteq ps
  BY ObjectIs, StoredTold
<1>2. Placed(T, row)
  BY DEF RowOk
<1> HIDE DEF T
<1>3. PICK p \in ps : \E e \in 1..Len(obj.parts[p].text) : Names(T, row, obj, p, e)
  BY <1>1, <1>2, PlacedRecord, SMTT(30)
<1>4. PICK e \in 1..Len(obj.parts[p].text) : Names(T, row, obj, p, e)
  BY <1>3
<1> DEFINE z == obj.parts[p].text[e].size
           m == Len(obj.parts[p].text[e].head)
           b == h + m + 1
           s == BlockOf(<<p, e>>)
<1>5. /\ row.of = <<p, e>> /\ h \in 1..Len(T) /\ m \in Nat \ {0}
      /\ b + z <= Len(T) /\ T[b].line = "blank" /\ NoBlank(T, h + 1, b - 1)
      /\ \A k \in 1..z : T[b + k] = [line |-> "block", value |-> <<p, e, k>>]
      /\ z \in Nat /\ z <= row.length
  BY <1>4 DEF Names
<1>6. /\ s \in Seq(TextUnit) /\ Len(s) = z
      /\ \A k \in 1..z : s[k] = [line |-> "block", value |-> <<p, e, k>>]
  BY <1>1, BlockIs
<1>7. m < SlackPlain /\ m \in Nat /\ m # 0 /\ z \in Nat /\ z <= row.length
  <2>1. row.of[1] = p /\ row.of[2] = e
    BY <1>5
  <2>2. QED
    BY <1>5, <2>1, SMTT(30) DEF Fits
<1>8. row.length \in Nat /\ SlackPlain \in Nat /\ h \in Nat /\ Len(T) \in Nat
  BY <1>1, StreamAssumption DEF RowType
<1> HIDE DEF z, m, s
<1> DEFINE l == row.length
<1>9. n \in Nat /\ m + 1 + z <= n
  <2>1. n = l + SlackPlain /\ l \in Nat /\ SlackPlain \in Nat
    BY <1>8
  <2>2. m < SlackPlain /\ m \in Nat /\ z \in Nat /\ z <= l
    BY <1>7
  <2> HIDE DEF n, l
  <2>3. QED
    BY <2>1, <2>2
<1>10. h <= Len(T)
  BY <1>5, <1>8
<1> HIDE DEF n
<1>11. /\ F \in Seq(Unit)
       /\ Len(F) = IF h + n < Len(T) THEN n ELSE Len(T) - h
       /\ \A k \in 1..Len(F) : F[k] = T[h + k]
  BY <1>8, <1>9, <1>10, RangeIs DEF T
<1>12. fetch_warc_record(row) = F
  BY DEF fetch_warc_record, Asked, T, n
<1> HIDE DEF F, h
<1>13. m + 1 + z <= Len(F) /\ Len(F) \in Nat /\ m \in Nat /\ m # 0 /\ z \in Nat
  <2>1. h + m + 1 + z <= Len(T)
    BY <1>5
  <2>2. Len(F) = n \/ Len(F) = Len(T) - h
    BY <1>11
  <2>3. QED
    BY <2>1, <2>2, <1>7, <1>8, <1>9, <1>10
<1>14. m + 1 \in 2..Len(F) /\ m + 1 \in 1..Len(F)
  BY <1>13
<1>15. F[m + 1].line = "blank"
  <2>1. F[m + 1] = T[h + (m + 1)]
    BY <1>11, <1>14
  <2>2. h + (m + 1) = h + m + 1
    BY <1>8, <1>13
  <2>3. QED
    BY <2>1, <2>2, <1>5
<1>16. NoBlank(F, 2, (m + 1) - 1)
  <2> SUFFICES ASSUME NEW k \in 2..((m + 1) - 1) PROVE F[k].line # "blank"
    BY DEF NoBlank
  <2>1. k \in 1..Len(F) /\ h + k \in (h + 1)..(h + m + 1 - 1)
    BY <1>8, <1>13
  <2>2. F[k] = T[h + k]
    BY <2>1, <1>11
  <2>3. T[h + k].line # "blank"
    BY <2>1, <1>5 DEF NoBlank
  <2>4. QED
    BY <2>2, <2>3
<1>17. warc_http_block(F) = SubSeq(F, (m + 1) + 1, Len(F))
  BY <1>11, <1>14, <1>15, <1>16, BlockBehind
<1>18. \A k \in 1..z : F[(m + 1) + k] = s[k]
  <2> SUFFICES ASSUME NEW k \in 1..z PROVE F[(m + 1) + k] = s[k]
    OBVIOUS
  <2>1. (m + 1) + k \in 1..Len(F) /\ h + ((m + 1) + k) = h + m + 1 + k
    BY <1>8, <1>13
  <2>2. F[(m + 1) + k] = T[h + m + 1 + k]
    BY <2>1, <1>11
  <2>3. QED
    BY <2>2, <1>5, <1>6
<1>19. IsPrefix(s, SubSeq(F, (m + 1) + 1, Len(F)))
  <2>1. m + 1 \in Nat /\ (m + 1) + Len(s) <= Len(F)
    BY <1>6, <1>13
  <2>2. QED
    BY <2>1, <1>6, <1>11, <1>18, PrefixBehind
<1>20. QED
  BY <1>5, <1>12, <1>17, <1>19 DEF s

-----------------------------------------------------------------------------
(* However an object was cut into chunks and wherever its stream broke     *)
(* off, whatever its records declare: the coordinates of every row that    *)
(* index_warc_object made of it give the block of the row's record back to *)
(* fetch_warc_record and warc_http_block, where the member or the header   *)
(* fits the slack - and no member begins with two empty lines.             *)
THEOREM FetchesFind == OneBlank => (Spec => []FetchFinds)
<1> SUFFICES ASSUME OneBlank
             PROVE  Spec => []FetchFinds
  OBVIOUS
<1>1. IInv => FetchFinds
  <2> SUFFICES ASSUME IInv PROVE FetchFinds
    OBVIOUS
  <2> SUFFICES ASSUME NEW i \in 1..Len(rows), Fits(rows[i])
               PROVE  IsPrefix(BlockOf(rows[i].of), warc_http_block(fetch_warc_record(rows[i])))
    BY DEF FetchFinds
  <2>1. rows[i] \in RowType /\ RowOk(rows[i])
    BY DEF IInv
  <2>2. obj.gz \in BOOLEAN
    BY ObjectIs
  <2>3. CASE obj.gz
    BY <2>1, <2>3, FindsInMember
  <2>4. CASE ~obj.gz
    BY <2>1, <2>4, FindsInPlain
  <2>5. QED
    BY <2>2, <2>3, <2>4
<1>2. QED
  BY <1>1, InvInit, InvNext, PTL DEF Spec

-----------------------------------------------------------------------------
(* RowsAreCaptures.  Where the parts of a family begin grows with them.    *)
LEMMA CutsGrow ==
  ASSUME NEW S, NEW ss \in Seq(Seq(S)), NEW at, Cuts(ss, at),
         NEW i \in 1..(Len(ss) + 1), NEW j \in 1..(Len(ss) + 1), i <= j
  PROVE  at[i] <= at[j]
<1> DEFINE n == Len(ss)
           Bad == {k \in 1..(n + 1) : i <= k /\ ~(at[i] <= at[k])}
<1>1. n \in Nat /\ \A p \in 1..n : Len(ss[p]) \in Nat
  OBVIOUS
<1>2. at \in [1..(n + 1) -> Nat] /\ \A p \in 1..n : at[p + 1] = at[p] + Len(ss[p])
  BY DEF Cuts
<1>3. SUFFICES ASSUME Bad # {} PROVE FALSE
  <2>1. j \notin Bad
    BY <1>3
  <2>2. QED
    BY <2>1
<1>4. PICK k \in Bad : \A l \in Bad : k <= l
  <2>1. Bad \subseteq Nat
    BY <1>1
  <2> HIDE DEF Bad
  <2>2. QED
    BY <1>3, <2>1, Least
<1>5. k \in 1..(n + 1) /\ i <= k /\ ~(at[i] <= at[k])
  BY <1>4
<1>6. k # i
  <2>1. at[i] \in Nat
    BY <1>2
  <2>2. QED
    BY <2>1, <1>5
<1>7. k - 1 \in 1..n /\ i <= k - 1 /\ (k - 1) + 1 = k /\ k - 1 \in 1..(n + 1) /\ ~(k <= k - 1)
  BY <1>1, <1>5, <1>6
<1>8. at[i] <= at[k - 1]
  BY <1>4, <1>7
<1>9. at[k] = at[k - 1] + Len(ss[k - 1]) /\ Len(ss[k - 1]) \in Nat
  BY <1>1, <1>2, <1>7
<1>10. at[i] \in Nat /\ at[k - 1] \in Nat /\ at[k] \in Nat
  BY <1>2, <1>5, <1>7
<1>11. QED
  BY <1>5, <1>8, <1>9, <1>10

(* The first k members of a family fill it up to where the next begins.    *)
LEMMA PrefixCut ==
  ASSUME NEW S, NEW ss \in Seq(Seq(S)), NEW at, Cuts(ss, at), NEW k \in 0..Len(ss)
  PROVE  Len(FlattenSeq([i \in 1..k |-> ss[i]])) = at[k + 1]
<1> DEFINE n == Len(ss)
           tt == [i \in 1..k |-> ss[i]]
<1>1. n \in Nat /\ k \in Nat /\ k <= n /\ \A p \in 1..n : Len(ss[p]) \in Nat /\ ss[p] \in Seq(S)
  OBVIOUS
<1>2. tt \in Seq(Seq(S)) /\ Len(tt) = k /\ \A i \in 1..k : tt[i] = ss[i]
  <2>1. \A i \in 1..k : ss[i] \in Seq(S)
    BY <1>1
  <2>2. QED
    BY <2>1, <1>1
<1> HIDE DEF tt
<1>3. PICK bt : Cuts(tt, bt)
  BY <1>2, Flattened
<1>4. /\ bt \in [1..(k + 1) -> Nat] /\ bt[1] = 0 /\ bt[k + 1] = Len(FlattenSeq(tt))
      /\ \A p \in 1..k : bt[p + 1] = bt[p] + Len(ss[p])
  BY <1>2, <1>3 DEF Cuts
<1>5. at \in [1..(n + 1) -> Nat] /\ at[1] = 0 /\ \A p \in 1..n : at[p + 1] = at[p] + Len(ss[p])
  BY DEF Cuts
<1> DEFINE Bad == {i \in 1..(k + 1) : bt[i] # at[i]}
<1>6. Bad = {}
  <2>1. SUFFICES ASSUME Bad # {} PROVE FALSE
    OBVIOUS
  <2>2. PICK i \in Bad : \A l \in Bad : i <= l
    <3>1. Bad \subseteq Nat
      BY <1>1
    <3> HIDE DEF Bad
    <3>2. QED
      BY <2>1, <3>1, Least
  <2>3. i \in 1..(k + 1) /\ bt[i] # at[i] /\ i # 1
    BY <2>2, <1>4, <1>5
  <2>4. i - 1 \in 1..k /\ i - 1 \in 1..n /\ (i - 1) + 1 = i /\ i - 1 \in 1..(k + 1) /\ ~(i <= i - 1)
    BY <1>1, <2>3
  <2>5. bt[i - 1] = at[i - 1]
    BY <2>2, <2>4
  <2>6. bt[i] = bt[i - 1] + Len(ss[i - 1]) /\ at[i] = at[i - 1] + Len(ss[i - 1])
    BY <1>4, <1>5, <2>4
  <2>7. QED
    BY <2>3, <2>5, <2>6
<1>7. k + 1 \in 1..(k + 1)
  BY <1>1
<1>8. bt[k + 1] = at[k + 1]
  BY <1>6, <1>7
<1>9. QED
  BY <1>4, <1>8 DEF tt

(* The elements of a part, and where each of them begins in its text.      *)
Texts(o, p) == [e \in 1..Len(o.parts[p].text) |-> ElementText(o, p, e)]
Local(o, p, e) == Len(FlattenSeq([f \in 1..(e - 1) |-> ElementText(o, p, f)]))

(* The text of a part is that of its elements.                             *)
LEMMA TextsCut ==
  ASSUME NEW o \in Objects, NEW p \in 1..Len(o.parts)
  PROVE  /\ Texts(o, p) \in Seq(Seq(TextUnit)) /\ Len(Texts(o, p)) = Len(o.parts[p].text)
         /\ Len(o.parts[p].text) \in Nat
         /\ PartText(o, p) = FlattenSeq(Texts(o, p))
         /\ \E at : /\ Cuts(Texts(o, p), at)
                    /\ \A e \in 1..Len(o.parts[p].text) : Local(o, p, e) = at[e]
<1> DEFINE n == Len(o.parts[p].text)
           ss == Texts(o, p)
<1>1. n \in Nat
  BY PartOf
<1>2. \A e \in 1..n : ElementText(o, p, e) \in Seq(TextUnit)
  BY ElementTold
<1>3. ss \in Seq(Seq(TextUnit)) /\ Len(ss) = n /\ \A e \in 1..n : ss[e] = ElementText(o, p, e)
  BY <1>1, <1>2 DEF Texts
<1>4. PartText(o, p) = FlattenSeq(ss)
  BY DEF PartText, Texts
<1> HIDE DEF ss
<1>5. PICK at : Cuts(ss, at)
  BY <1>3, Flattened
<1>6. ASSUME NEW e \in 1..n PROVE Local(o, p, e) = at[e]
  <2> DEFINE k == e - 1
  <2>1. k \in 0..Len(ss) /\ k + 1 = e /\ \A f \in 1..k : f \in 1..n
    BY <1>1, <1>3
  <2> HIDE DEF k
  <2>2. Len(FlattenSeq([f \in 1..k |-> ss[f]])) = at[e]
    BY <2>1, <1>3, <1>5, PrefixCut
  <2>3. [f \in 1..k |-> ss[f]] = [f \in 1..k |-> ElementText(o, p, f)]
    BY <2>1, <1>3
  <2>4. QED
    BY <2>2, <2>3 DEF Local, k
<1>7. QED
  BY <1>1, <1>3, <1>4, <1>5, <1>6 DEF ss

(* No element is without a unit.                                           *)
LEMMA ElementSolid ==
  ASSUME NEW o \in Objects, NEW p \in 1..Len(o.parts), NEW e \in 1..Len(o.parts[p].text)
  PROVE  LET u == ElementText(o, p, e) IN u \in Seq(TextUnit) /\ Len(u) \in Nat /\ Len(u) >= 1
<1> DEFINE r == o.parts[p].text[e]
           u == ElementText(o, p, e)
<1>1. u \in Seq(TextUnit)
  BY ElementTold
<1>2. Len(u) >= 1
  <2>1. CASE r.kind \in Captured
    <3>1. u = RecordText(o, p, e)
      BY <2>1 DEF ElementText, IsRecord
    <3>2. Len(RecordText(o, p, e)) = Len(r.head) + 4 + r.size /\ Len(r.head) \in Nat /\ r.size \in Nat
      <4>1. Laid(RecordText(o, p, e), o, p, e)
        BY RecordLies
      <4>2. Len(r.head) \in Nat /\ r.size \in Nat
        BY ElementOf
      <4>3. QED
        BY <4>1, <4>2 DEF Laid
    <3> HIDE DEF u, r
    <3>3. QED
      BY <3>1, <3>2
  <2>2. CASE r.kind \notin Captured
    <3>1. u = <<Line(r.kind)>>
      BY <2>2 DEF ElementText, IsRecord
    <3>2. QED
      BY <3>1
  <2>3. QED
    BY <2>1, <2>2
<1>3. Len(u) \in Nat
  BY <1>1, LenProperties, Zenon
<1>4. QED
  BY <1>1, <1>2, <1>3

(* The elements of a part tile its text.                                   *)
LEMMA LocalAt ==
  ASSUME NEW o \in Objects, NEW p \in 1..Len(o.parts), NEW e \in 1..Len(o.parts[p].text)
  PROVE  LET a == Local(o, p, e)
             u == ElementText(o, p, e)
             t == PartText(o, p)
         IN  /\ a \in Nat /\ u \in Seq(TextUnit) /\ Len(u) \in Nat /\ Len(u) >= 1
             /\ a + Len(u) <= Len(t) /\ \A k \in 1..Len(u) : t[a + k] = u[k]
             /\ \A f \in 1..Len(o.parts[p].text) : e < f => a + Len(u) <= Local(o, p, f)
<1> DEFINE n == Len(o.parts[p].text)
           ss == Texts(o, p)
           u == ElementText(o, p, e)
           t == PartText(o, p)
           a == Local(o, p, e)
<1>1. /\ ss \in Seq(Seq(TextUnit)) /\ Len(ss) = n /\ n \in Nat /\ t = FlattenSeq(ss)
      /\ \E at : Cuts(ss, at) /\ \A f \in 1..n : Local(o, p, f) = at[f]
  BY TextsCut
<1>2. PICK at : Cuts(ss, at) /\ \A f \in 1..n : Local(o, p, f) = at[f]
  BY <1>1
<1>3. ss[e] = u /\ a = at[e]
  BY <1>2 DEF Texts
<1>4. u \in Seq(TextUnit) /\ Len(u) \in Nat /\ Len(u) >= 1
  BY ElementSolid
<1> HIDE DEF ss, u, t, a
<1>5. /\ at \in [1..(n + 1) -> Nat] /\ at[e + 1] = a + Len(u) /\ at[n + 1] = Len(t)
      /\ \A k \in 1..Len(u) : t[a + k] = u[k]
  <2>1. e \in 1..Len(ss)
    BY <1>1
  <2>2. QED
    BY <2>1, <1>1, <1>2, <1>3 DEF Cuts
<1>6. e + 1 \in 1..(n + 1) /\ n + 1 \in 1..(n + 1) /\ e + 1 <= n + 1 /\ e \in 1..(n + 1)
  BY <1>1
<1>7. a + Len(u) <= Len(t)
  <2>1. e + 1 \in 1..(Len(ss) + 1) /\ n + 1 \in 1..(Len(ss) + 1) /\ e + 1 <= n + 1
        /\ ss \in Seq(Seq(TextUnit)) /\ Cuts(ss, at)
    BY <1>1, <1>2, <1>6
  <2>2. at[e + 1] <= at[n + 1]
    BY <2>1, CutsGrow
  <2>3. QED
    BY <2>2, <1>5
<1>8. ASSUME NEW f \in 1..n, e < f PROVE a + Len(u) <= Local(o, p, f)
  <2>1. f \in 1..(n + 1) /\ e + 1 <= f
    BY <1>1, <1>8
  <2>2. at[e + 1] <= at[f]
    BY <2>1, <1>1, <1>2, <1>6, CutsGrow
  <2>3. QED
    BY <2>2, <1>2, <1>5
<1>9. a \in Nat
  BY <1>3, <1>5, <1>6
<1>10. QED
  BY <1>4, <1>5, <1>7, <1>8, <1>9 DEF u, t, a

(* Every unit of the text is one of some element.                          *)
LEMMA LocalCover ==
  ASSUME NEW o \in Objects, NEW p \in 1..Len(o.parts), NEW k \in 1..Len(PartText(o, p))
  PROVE  \E e \in 1..Len(o.parts[p].text) :
           Local(o, p, e) < k /\ k <= Local(o, p, e) + Len(ElementText(o, p, e))
<1> DEFINE n == Len(o.parts[p].text)
           ss == Texts(o, p)
<1>1. /\ ss \in Seq(Seq(TextUnit)) /\ Len(ss) = n /\ n \in Nat /\ PartText(o, p) = FlattenSeq(ss)
      /\ \E at : Cuts(ss, at) /\ \A f \in 1..n : Local(o, p, f) = at[f]
  BY TextsCut
<1>2. PICK at : Cuts(ss, at) /\ \A f \in 1..n : Local(o, p, f) = at[f]
  BY <1>1
<1>3. \A e \in 1..n : ss[e] = ElementText(o, p, e)
  BY DEF Texts
<1> HIDE DEF ss
<1>4. PICK e \in 1..Len(ss) : \E j \in 1..Len(ss[e]) : k = at[e] + j
  <2>1. k \in 1..Len(FlattenSeq(ss)) /\ ss \in Seq(Seq(TextUnit)) /\ Cuts(ss, at)
    BY <1>1, <1>2
  <2>2. \E e \in 1..Len(ss) : \E j \in 1..Len(ss[e]) :
          k = at[e] + j /\ FlattenSeq(ss)[k] = ss[e][j]
    <3> HIDE DEF n
    <3>1. PICK i : i = k
      OBVIOUS
    <3>2. i \in 1..Len(FlattenSeq(ss)) /\ ss \in Seq(Seq(TextUnit)) /\ Cuts(ss, at)
      BY <2>1, <3>1
    <3>3. \E q \in 1..Len(ss) : \E j \in 1..Len(ss[q]) :
            i = at[q] + j /\ FlattenSeq(ss)[i] = ss[q][j]
      BY <3>2, CutsCover
    <3>4. QED
      BY <3>1, <3>3
  <2>3. QED
    BY <2>2
<1>5. e \in 1..n
  BY <1>1
<1>6. PICK j \in 1..Len(ss[e]) : k = at[e] + j
  BY <1>4
<1>7. at[e] = Local(o, p, e) /\ ss[e] = ElementText(o, p, e) /\ Local(o, p, e) \in Nat
      /\ Len(ElementText(o, p, e)) \in Nat
  BY <1>2, <1>3, <1>5, LocalAt
<1>8. j \in 1..Len(ElementText(o, p, e)) /\ k = Local(o, p, e) + j
  BY <1>6, <1>7
<1> DEFINE a == Local(o, p, e)
           l == Len(ElementText(o, p, e))
<1>9. a \in Nat /\ l \in Nat /\ j \in 1..l /\ k = a + j
  BY <1>7, <1>8
<1> HIDE DEF a, l
<1>10. a < k /\ k <= a + l
  BY <1>9
<1>11. QED
  BY <1>5, <1>10 DEF a, l

(* What is read of an object at a time: a member of a gzip object, or all  *)
(* of a plain one; and where its elements begin and end in it.             *)
TextOf(o, p) == IF o.gz THEN PartText(o, p) ELSE Stored[o]
Among(o, p) == IF o.gz THEN {x \in Elements(o) : x[1] = p} ELSE Elements(o)
From(o, x) == (IF o.gz THEN 0 ELSE Starts(o)[x[1]]) + Local(o, x[1], x[2])
To(o, x) == From(o, x) + Len(ElementText(o, x[1], x[2]))

(* The elements of an object, as pairs.                                    *)
LEMMA ElementsAre ==
  ASSUME NEW o \in Objects, NEW x \in Elements(o)
  PROVE  /\ x = <<x[1], x[2]>> /\ x[1] \in 1..Len(o.parts)
         /\ x[2] \in 1..Len(o.parts[x[1]].text) /\ x[1] \in Nat /\ x[2] \in Nat
<1>1. PICK p \in 1..Len(o.parts) : x \in {p} \X (1..Len(o.parts[p].text))
  BY DEF Elements
<1>2. Len(o.parts) \in Nat /\ Len(o.parts[p].text) \in Nat
  BY PartOf
<1>3. x = <<x[1], x[2]>> /\ x[1] = p /\ x[2] \in 1..Len(o.parts[p].text)
  BY <1>1
<1>4. QED
  BY <1>2, <1>3

(* A pair of numbers in these bounds is an element.                        *)
LEMMA ElementIn ==
  ASSUME NEW o \in Objects, NEW p \in 1..Len(o.parts), NEW e \in 1..Len(o.parts[p].text)
  PROVE  <<p, e>> \in Elements(o)
BY DEF Elements

(* Of two elements one comes before the other.                             *)
LEMMA OneBefore ==
  ASSUME NEW o \in Objects, NEW x \in Elements(o), NEW y \in Elements(o)
  PROVE  x = y \/ Before(x, y) \/ Before(y, x)
<1>1. x = <<x[1], x[2]>> /\ x[1] \in Nat /\ x[2] \in Nat
  BY ElementsAre
<1>2. y = <<y[1], y[2]>> /\ y[1] \in Nat /\ y[2] \in Nat
  BY ElementsAre
<1>3. CASE x[1] = y[1] /\ x[2] = y[2]
  BY <1>1, <1>2, <1>3
<1>4. CASE ~(x[1] = y[1] /\ x[2] = y[2])
  BY <1>1, <1>2, <1>4 DEF Before
<1>5. QED
  BY <1>3, <1>4

(* An object is cut into its parts, gzip or not.                           *)
LEMMA PartsCut ==
  ASSUME NEW o \in Objects
  PROVE  /\ Parts(o) \in Seq(Seq(Unit)) /\ Len(Parts(o)) = Len(o.parts) /\ Len(o.parts) \in Nat
         /\ Stored[o] = FlattenSeq(Parts(o)) /\ Cuts(Parts(o), Starts(o))
         /\ \A p \in 1..Len(o.parts) : Parts(o)[p] = Part(o, p)
<1> DEFINE n == Len(o.parts)
<1>1. n \in Nat /\ o.gz \in BOOLEAN
  BY StreamAssumption
<1>2. ASSUME NEW p \in 1..n PROVE Part(o, p) \in Seq(Unit)
  <2>1. Member(o, p) \in Seq(PackedUnit) /\ PartText(o, p) \in Seq(TextUnit)
    BY MemberIs, PartTold
  <2>2. PackedUnit \subseteq Unit /\ TextUnit \subseteq Unit
    BY DEF Unit
  <2>3. Member(o, p) \in Seq(Unit) /\ PartText(o, p) \in Seq(Unit)
    BY <2>1, <2>2, SeqMonotonic, Zenon
  <2>4. QED
    BY <2>3 DEF Part
<1>3. Parts(o) \in Seq(Seq(Unit)) /\ Len(Parts(o)) = n /\ \A p \in 1..n : Parts(o)[p] = Part(o, p)
  BY <1>1, <1>2 DEF Parts
<1>4. Stored[o] = FlattenSeq(Parts(o))
  BY StoredIs DEF Parts
<1>5. Cuts(Parts(o), Starts(o))
  <2>1. \E at : Cuts(Parts(o), at)
    BY <1>3, Flattened
  <2>2. QED
    BY <2>1 DEF Starts
<1>6. QED
  BY <1>1, <1>3, <1>4, <1>5

(* Where the parts of an object begin.                                     *)
LEMMA StartsGrow ==
  ASSUME NEW o \in Objects
  PROVE  LET A == Starts(o)
             n == Len(o.parts)
         IN  /\ A \in [1..(n + 1) -> Nat] /\ n \in Nat /\ A[1] = 0 /\ A[n + 1] = Len(Stored[o])
             /\ \A p \in 1..n : A[p + 1] = A[p] + Len(Part(o, p))
             /\ \A p, q \in 1..(n + 1) : p <= q => A[p] <= A[q]
             /\ \A p \in 1..n : \A k \in 1..Len(Part(o, p)) : Stored[o][A[p] + k] = Part(o, p)[k]
<1> DEFINE n == Len(o.parts)
           A == Starts(o)
           ss == Parts(o)
<1>1. /\ ss \in Seq(Seq(Unit)) /\ Len(ss) = n /\ n \in Nat /\ Stored[o] = FlattenSeq(ss)
      /\ Cuts(ss, A) /\ \A p \in 1..n : ss[p] = Part(o, p)
  BY PartsCut
<1> HIDE DEF n, A, ss
<1>2. /\ A \in [1..(n + 1) -> Nat] /\ A[1] = 0 /\ A[n + 1] = Len(Stored[o])
      /\ \A p \in 1..n : A[p + 1] = A[p] + Len(ss[p])
      /\ \A p \in 1..n : \A k \in 1..Len(ss[p]) : Stored[o][A[p] + k] = ss[p][k]
  BY <1>1 DEF Cuts
<1>3. ASSUME NEW p \in 1..(n + 1), NEW q \in 1..(n + 1), p <= q PROVE A[p] <= A[q]
  <2>1. p \in 1..(Len(ss) + 1) /\ q \in 1..(Len(ss) + 1) /\ ss \in Seq(Seq(Unit)) /\ Cuts(ss, A)
    BY <1>1
  <2>2. QED
    BY <2>1, <1>3, CutsGrow
<1>4. \A p \in 1..n : Part(o, p) = ss[p]
  BY <1>1
<1>5. QED
  BY <1>1, <1>2, <1>3, <1>4 DEF n, A

(* A plain part is its text.                                               *)
LEMMA PlainPart == ASSUME NEW o, NEW p, ~o.gz PROVE Part(o, p) = PartText(o, p)
BY DEF Part

(* Its elements tile what is read.                                         *)
LEMMA Tiles ==
  ASSUME NEW o \in Objects, NEW p, NEW x \in Among(o, p)
  PROVE  LET u == ElementText(o, x[1], x[2])
             T == TextOf(o, p)
         IN  /\ x \in Elements(o) /\ From(o, x) \in Nat /\ To(o, x) \in Nat /\ Len(u) \in Nat
             /\ Len(u) >= 1 /\ To(o, x) = From(o, x) + Len(u)
             /\ To(o, x) <= Len(T) /\ \A k \in 1..Len(u) : T[From(o, x) + k] = u[k]
<1> DEFINE u == ElementText(o, x[1], x[2])
           a == Local(o, x[1], x[2])
           t == PartText(o, x[1])
<1>1. x \in Elements(o) /\ o.gz \in BOOLEAN
  BY StreamAssumption DEF Among
<1>2. x[1] \in 1..Len(o.parts) /\ x[2] \in 1..Len(o.parts[x[1]].text)
  BY <1>1, ElementsAre
<1>3. /\ a \in Nat /\ Len(u) \in Nat /\ Len(u) >= 1 /\ a + Len(u) <= Len(t)
      /\ \A k \in 1..Len(u) : t[a + k] = u[k]
  BY <1>2, LocalAt
<1>4. CASE o.gz
  <2>1. TextOf(o, p) = t /\ From(o, x) = 0 + a /\ To(o, x) = From(o, x) + Len(u)
    BY <1>4 DEF TextOf, Among, From, To
  <2> HIDE DEF u, a, t
  <2>2. From(o, x) = a
    BY <2>1, <1>3
  <2>3. To(o, x) \in Nat /\ To(o, x) <= Len(TextOf(o, p))
    BY <2>1, <2>2, <1>3
  <2>4. \A k \in 1..Len(u) : TextOf(o, p)[From(o, x) + k] = u[k]
    BY <2>1, <2>2, <1>3
  <2>5. QED
    BY <2>1, <2>2, <2>3, <2>4, <1>1, <1>3 DEF u
<1>5. CASE ~o.gz
  <2> DEFINE A == Starts(o)[x[1]]
             T == Stored[o]
             n == Len(o.parts)
  <2>1. TextOf(o, p) = T /\ From(o, x) = A + a /\ To(o, x) = From(o, x) + Len(u)
    BY <1>5 DEF TextOf, From, To
  <2>2. Part(o, x[1]) = t
    BY <1>5, PlainPart
  <2>n. n \in Nat /\ x[1] \in 1..(n + 1) /\ x[1] + 1 \in 1..(n + 1) /\ n + 1 \in 1..(n + 1)
        /\ x[1] + 1 <= n + 1
    <3>1. n \in Nat
      BY StartsGrow
    <3>2. QED
      BY <3>1, <1>2
  <2>3. /\ A \in Nat /\ Starts(o)[x[1] + 1] = A + Len(t)
        /\ Starts(o)[x[1] + 1] <= Starts(o)[n + 1] /\ Starts(o)[n + 1] = Len(T)
        /\ \A k \in 1..Len(t) : T[A + k] = t[k]
    <3>1. /\ Starts(o) \in [1..(n + 1) -> Nat] /\ Starts(o)[n + 1] = Len(T)
          /\ \A q \in 1..n : Starts(o)[q + 1] = Starts(o)[q] + Len(Part(o, q))
          /\ \A i, j \in 1..(n + 1) : i <= j => Starts(o)[i] <= Starts(o)[j]
          /\ \A q \in 1..n : \A k \in 1..Len(Part(o, q)) :
               T[Starts(o)[q] + k] = Part(o, q)[k]
      BY StartsGrow
    <3> HIDE DEF t, T, n
    <3>2. A \in Nat /\ Starts(o)[x[1] + 1] <= Starts(o)[n + 1]
      BY <3>1, <2>n
    <3>3. Starts(o)[x[1] + 1] = A + Len(t) /\ \A k \in 1..Len(t) : T[A + k] = t[k]
      BY <3>1, <2>2, <1>2 DEF n
    <3>4. QED
      BY <3>1, <3>2, <3>3
  <2>4. Len(t) \in Nat /\ Len(T) \in Nat
    <3>1. t \in Seq(TextUnit)
      BY <1>2, PartTold
    <3>2. Len(t) \in Nat
      BY <3>1, LenProperties, Zenon
    <3>3. QED
      BY <3>2, StoredUnits
  <2> HIDE DEF u, a, t, A, T, n
  <2>5. (A + a) + Len(u) <= Len(T) /\ A + a \in Nat
    BY <2>3, <2>4, <1>3
  <2>6. ASSUME NEW k \in 1..Len(u) PROVE T[(A + a) + k] = u[k]
    <3>1. a + k \in 1..Len(t) /\ A + (a + k) = (A + a) + k
      BY <2>3, <2>4, <1>3
    <3>2. T[A + (a + k)] = t[a + k]
      BY <3>1, <2>3
    <3>3. QED
      BY <3>1, <3>2, <1>3
  <2>7. QED
    BY <2>1, <2>5, <2>6, <1>1, <1>3 DEF u
<1>6. QED
  BY <1>1, <1>4, <1>5

(* They follow each other in order.                                        *)
LEMMA TilesInOrder ==
  ASSUME NEW o \in Objects, NEW p, NEW x \in Among(o, p), NEW y \in Among(o, p), Before(x, y)
  PROVE  To(o, x) <= From(o, y)
<1> DEFINE u == ElementText(o, x[1], x[2])
           a == Local(o, x[1], x[2])
           b == Local(o, y[1], y[2])
<1>1. /\ x[1] \in 1..Len(o.parts) /\ x[2] \in 1..Len(o.parts[x[1]].text)
      /\ y[1] \in 1..Len(o.parts) /\ y[2] \in 1..Len(o.parts[y[1]].text)
      /\ o.gz \in BOOLEAN
  <2>1. x \in Elements(o) /\ y \in Elements(o)
    BY Tiles
  <2>2. QED
    BY <2>1, ElementsAre, StreamAssumption
<1>2. a \in Nat /\ Len(u) \in Nat /\ a + Len(u) <= Len(PartText(o, x[1]))
  BY <1>1, LocalAt
<1>3. b \in Nat
  BY <1>1, LocalAt
<1>4. CASE x[1] = y[1]
  <2>1. x[2] < y[2] /\ y[2] \in 1..Len(o.parts[x[1]].text)
    <3>1. x[1] \in Nat
      <4>1. Len(o.parts) \in Nat
        BY PartsCut
      <4>2. QED
        BY <4>1, <1>1
    <3>2. QED
      BY <3>1, <1>1, <1>4 DEF Before
  <2>2. a + Len(u) <= b
    BY <2>1, <1>1, <1>4, LocalAt
  <2>3. /\ From(o, x) = (IF o.gz THEN 0 ELSE Starts(o)[x[1]]) + a
        /\ To(o, x) = From(o, x) + Len(u)
        /\ From(o, y) = (IF o.gz THEN 0 ELSE Starts(o)[x[1]]) + b
    BY <1>4 DEF From, To
  <2>4. Starts(o)[x[1]] \in Nat
    <3>1. x[1] \in 1..(Len(o.parts) + 1) /\ Len(o.parts) \in Nat
      BY <1>1, PartsCut
    <3>2. QED
      BY <3>1, StartsGrow
  <2> DEFINE s == IF o.gz THEN 0 ELSE Starts(o)[x[1]]
  <2>5. s \in Nat
    BY <2>4
  <2> HIDE DEF a, b, u, s
  <2>6. (s + a) + Len(u) <= s + b
    BY <2>2, <2>5, <1>2, <1>3
  <2>7. QED
    BY <2>3, <2>6 DEF s
<1>5. CASE x[1] # y[1]
  <2>1. ~o.gz /\ x[1] < y[1]
    BY <1>1, <1>5 DEF Among, Before
  <2> DEFINE t == PartText(o, x[1])
             A == Starts(o)[x[1]]
             B == Starts(o)[y[1]]
             n == Len(o.parts)
  <2>2. Part(o, x[1]) = t
    BY <2>1, PlainPart
  <2>3. n \in Nat /\ x[1] + 1 \in 1..(n + 1) /\ y[1] \in 1..(n + 1) /\ x[1] + 1 <= y[1]
        /\ x[1] \in 1..(n + 1)
    <3>1. n \in Nat
      BY PartsCut
    <3>2. QED
      BY <3>1, <2>1, <1>1
  <2>4. A + Len(t) <= B /\ A \in Nat /\ B \in Nat
    <3>1. /\ Starts(o) \in [1..(n + 1) -> Nat]
          /\ \A q \in 1..n : Starts(o)[q + 1] = Starts(o)[q] + Len(Part(o, q))
          /\ \A i, j \in 1..(n + 1) : i <= j => Starts(o)[i] <= Starts(o)[j]
      BY StartsGrow
    <3> HIDE DEF t, n
    <3>2. A \in Nat /\ B \in Nat /\ Starts(o)[x[1] + 1] <= B
      BY <3>1, <2>3
    <3>3. Starts(o)[x[1] + 1] = A + Len(t)
      BY <3>1, <2>2, <1>1 DEF n
    <3>4. QED
      BY <3>2, <3>3
  <2>5. Len(t) \in Nat
    <3>1. t \in Seq(TextUnit)
      BY <1>1, PartTold
    <3>2. QED
      BY <3>1, LenProperties, Zenon
  <2>6. From(o, x) = A + a /\ To(o, x) = From(o, x) + Len(u) /\ From(o, y) = B + b
    BY <2>1 DEF From, To
  <2> HIDE DEF a, b, u, t, A, B
  <2>7. (A + a) + Len(u) <= B + b
    BY <2>4, <2>5, <1>2, <1>3 DEF t
  <2>8. QED
    BY <2>6, <2>7
<1>6. QED
  BY <1>4, <1>5

(* Every unit is one of some element.                                      *)
LEMMA TilesCover ==
  ASSUME NEW o \in Objects, NEW p, o.gz => p \in 1..Len(o.parts), NEW k \in 1..Len(TextOf(o, p))
  PROVE  \E x \in Among(o, p) : From(o, x) < k /\ k <= To(o, x)
<1>0. o.gz \in BOOLEAN
  BY StreamAssumption
<1>1. CASE o.gz
  <2>1. TextOf(o, p) = PartText(o, p) /\ p \in 1..Len(o.parts)
    BY <1>1 DEF TextOf
  <2>2. PICK e \in 1..Len(o.parts[p].text) :
          Local(o, p, e) < k /\ k <= Local(o, p, e) + Len(ElementText(o, p, e))
    <3>1. k \in 1..Len(PartText(o, p))
      BY <2>1
    <3>2. QED
      BY <2>1, <3>1, LocalCover
  <2> DEFINE x == <<p, e>>
  <2>3. x \in Elements(o) /\ x[1] = p /\ x[2] = e
    BY <2>1, ElementIn
  <2> HIDE DEF x
  <2>4. x \in Among(o, p) /\ From(o, x) = 0 + Local(o, p, e)
        /\ To(o, x) = From(o, x) + Len(ElementText(o, p, e))
    BY <2>3, <1>1 DEF Among, From, To
  <2>5. Local(o, p, e) \in Nat
    BY <2>1, LocalAt
  <2>6. From(o, x) = Local(o, p, e)
    BY <2>4, <2>5
  <2>7. QED
    BY <2>2, <2>4, <2>6
<1>2. CASE ~o.gz
  <2> DEFINE ss == Parts(o)
  <2>1. /\ ss \in Seq(Seq(Unit)) /\ Len(ss) = Len(o.parts) /\ Cuts(ss, Starts(o))
        /\ \A q \in 1..Len(o.parts) : ss[q] = PartText(o, q)
        /\ k \in 1..Len(FlattenSeq(ss)) /\ Len(o.parts) \in Nat
    BY <1>2, PartsCut, PlainPart DEF TextOf
  <2> HIDE DEF ss
  <2>2. \E q \in 1..Len(ss) : \E j \in 1..Len(ss[q]) :
          k = Starts(o)[q] + j /\ FlattenSeq(ss)[k] = ss[q][j]
    BY <2>1, CutsCover
  <2>3. PICK q \in 1..Len(o.parts) : \E j \in 1..Len(PartText(o, q)) : k = Starts(o)[q] + j
    BY <2>1, <2>2
  <2>4. PICK j \in 1..Len(PartText(o, q)) : k = Starts(o)[q] + j
    BY <2>3
  <2>5. PICK e \in 1..Len(o.parts[q].text) :
          Local(o, q, e) < j /\ j <= Local(o, q, e) + Len(ElementText(o, q, e))
    BY LocalCover
  <2> DEFINE x == <<q, e>>
  <2>6. x \in Elements(o) /\ x[1] = q /\ x[2] = e
    BY ElementIn
  <2> HIDE DEF x
  <2>7. x \in Among(o, p) /\ From(o, x) = Starts(o)[q] + Local(o, q, e)
        /\ To(o, x) = From(o, x) + Len(ElementText(o, q, e))
    BY <2>6, <1>2 DEF Among, From, To
  <2>8. Local(o, q, e) \in Nat /\ Len(ElementText(o, q, e)) \in Nat
    BY LocalAt
  <2>9. Starts(o)[q] \in Nat
    <3>1. q \in 1..(Len(o.parts) + 1)
      BY <2>1
    <3>2. QED
      BY <3>1, StartsGrow
  <2> DEFINE A == Starts(o)[q]
             a == Local(o, q, e)
             l == Len(ElementText(o, q, e))
  <2>10. A \in Nat /\ a \in Nat /\ l \in Nat /\ j \in Nat /\ k = A + j /\ a < j /\ j <= a + l
    <3>1. Len(PartText(o, q)) \in Nat
      <4>1. PartText(o, q) \in Seq(TextUnit)
        BY PartTold
      <4>2. QED
        BY <4>1, LenProperties, Zenon
    <3>2. j \in Nat
      BY <3>1
    <3>3. QED
      BY <3>2, <2>4, <2>5, <2>8, <2>9
  <2>11. From(o, x) = A + a /\ To(o, x) = From(o, x) + l
    BY <2>7
  <2> HIDE DEF A, a, l
  <2>12. A + a < k /\ k <= (A + a) + l
    BY <2>10
  <2>13. QED
    BY <2>7, <2>11, <2>12
<1>3. QED
  BY <1>0, <1>1, <1>2

(* Where an element is wholly read: a plain one at its own end, one of a   *)
(* gzip object at the end of its member.                                   *)
LEMMA ThroughIs ==
  ASSUME NEW o \in Objects, NEW x \in Elements(o)
  PROVE  /\ UnitsThrough(o, x) = (IF o.gz THEN Starts(o)[x[1] + 1] ELSE To(o, x))
         /\ UnitsThrough(o, x) \in Nat
<1> DEFINE A == Starts(o)
           n == Len(o.parts)
           q == x[1] - 1
<1>1. x[1] \in 1..n /\ x[2] \in 1..Len(o.parts[x[1]].text) /\ n \in Nat /\ o.gz \in BOOLEAN
  BY ElementsAre, PartsCut, StreamAssumption
<1>2. q \in 0..n /\ q + 1 = x[1] /\ x[1] \in 1..(n + 1) /\ x[1] + 1 \in 1..(n + 1)
      /\ \A p \in 1..q : p \in 1..n
  BY <1>1
<1>3. Len(FlattenSeq([p \in 1..q |-> Part(o, p)])) = A[x[1]]
  <2> DEFINE ss == Parts(o)
  <2>1. ss \in Seq(Seq(Unit)) /\ Cuts(ss, A) /\ q \in 0..Len(ss) /\ \A p \in 1..q : ss[p] = Part(o, p)
    BY <1>2, PartsCut
  <2>2. [p \in 1..q |-> ss[p]] = [p \in 1..q |-> Part(o, p)]
    BY <2>1
  <2> HIDE DEF ss, q
  <2>3. Len(FlattenSeq([p \in 1..q |-> ss[p]])) = A[q + 1]
    BY <2>1, PrefixCut
  <2>4. QED
    BY <2>2, <2>3, <1>2
<1>4. A[x[1]] \in Nat /\ A[x[1] + 1] \in Nat /\ A[x[1] + 1] = A[x[1]] + Len(Part(o, x[1]))
  BY <1>1, <1>2, StartsGrow
<1>5. CASE o.gz
  <2>1. UnitsThrough(o, x) = (A[x[1]] + 0) + Len(Member(o, x[1])) /\ Part(o, x[1]) = Member(o, x[1])
    BY <1>3, <1>5 DEF UnitsThrough, UnitsBefore, Part
  <2>2. UnitsThrough(o, x) = A[x[1] + 1]
    <3>1. A[x[1]] + 0 = A[x[1]]
      BY <1>4
    <3>2. QED
      BY <2>1, <3>1, <1>4
  <2>3. QED
    BY <2>2, <1>4, <1>5
<1>6. CASE ~o.gz
  <2>1. UnitsThrough(o, x) = (A[x[1]] + Local(o, x[1], x[2])) + Len(ElementText(o, x[1], x[2]))
    BY <1>3, <1>6 DEF UnitsThrough, UnitsBefore, Local
  <2>2. To(o, x) = (A[x[1]] + Local(o, x[1], x[2])) + Len(ElementText(o, x[1], x[2]))
    BY <1>6 DEF To, From
  <2>3. x \in Among(o, 1)
    BY <1>6 DEF Among
  <2>4. To(o, x) \in Nat
    BY <2>3, Tiles
  <2>5. QED
    BY <2>1, <2>2, <2>4, <1>6
<1>7. QED
  BY <1>1, <1>5, <1>6

(* Members are not empty, so they begin at different places.               *)
LEMMA StartsApart ==
  ASSUME NEW o \in Objects, o.gz, NEW p \in 1..(Len(o.parts) + 1), NEW q \in 1..(Len(o.parts) + 1)
  PROVE  p < q <=> Starts(o)[p] < Starts(o)[q]
<1> DEFINE A == Starts(o)
           n == Len(o.parts)
<1>1. n \in Nat /\ A \in [1..(n + 1) -> Nat]
  BY StartsGrow
<1>2. ASSUME NEW i \in 1..n PROVE A[i] < A[i + 1]
  <2>1. A[i + 1] = A[i] + Len(Member(o, i))
    BY StoredParts
  <2>2. Len(Member(o, i)) \in Nat /\ Len(Member(o, i)) >= 1
    <3> DEFINE M == Member(o, i)
    <3>1. M \in Seq(PackedUnit) /\ MemberShape(M, o, i)
      BY MemberIs
    <3>2. 2 + o.parts[i].opts + Carriers(o, i) + 2 <= Len(M)
      BY <3>1 DEF MemberShape
    <3>3. o.parts[i].opts \in Nat
      BY PartOf
    <3>4. Carriers(o, i) \in Nat
      <4>1. PartText(o, i) \in Seq(TextUnit)
        BY PartTold
      <4>2. Len(PartText(o, i)) \in Nat
        BY <4>1, LenProperties, Zenon
      <4>3. QED
        BY <4>2 DEF Carriers
    <3>5. Len(M) \in Nat
      BY <3>1, LenProperties, Zenon
    <3> HIDE DEF M
    <3>6. Len(M) >= 1
      BY <3>2, <3>3, <3>4, <3>5
    <3>7. QED
      BY <3>5, <3>6 DEF M
  <2>3. i \in 1..(n + 1)
    BY <1>1
  <2>4. A[i] \in Nat
    BY <1>1, <2>3
  <2>5. QED
    BY <2>1, <2>2, <2>4
<1>3. ASSUME NEW i \in 1..(n + 1), NEW j \in 1..(n + 1), i < j PROVE A[i] < A[j]
  <2>1. i \in 1..n /\ i + 1 \in 1..(n + 1) /\ i + 1 <= j
    BY <1>1, <1>3
  <2>2. A[i] < A[i + 1] /\ A[i + 1] <= A[j]
    BY <2>1, <1>2, <1>3, StartsGrow
  <2>3. A[i] \in Nat /\ A[j] \in Nat /\ A[i + 1] \in Nat
    BY <2>1, <1>1, <1>3
  <2>4. QED
    BY <2>2, <2>3
<1>4. A[p] \in Nat /\ A[q] \in Nat
  BY <1>1
<1>5. p \in Nat /\ q \in Nat
  BY <1>1
<1> HIDE DEF A, n
<1>6. CASE p < q
  BY <1>6, <1>3 DEF A, n
<1>7. CASE q < p
  <2>1. A[q] < A[p]
    BY <1>7, <1>3 DEF n
  <2>2. ~(p < q) /\ ~(A[p] < A[q])
    BY <2>1, <1>4, <1>5, <1>7
  <2>3. QED
    BY <2>2 DEF A
<1>8. CASE p = q
  <2>1. ~(p < q) /\ ~(A[p] < A[q])
    BY <1>4, <1>5, <1>8
  <2>2. QED
    BY <2>1 DEF A
<1>9. QED
  BY <1>5, <1>6, <1>7, <1>8

(* What is read by the end of a member: what was before, and it.           *)
LEMMA ThroughMember ==
  ASSUME NEW o \in Objects, o.gz, NEW p \in 1..Len(o.parts), NEW x \in Elements(o)
  PROVE  UnitsThrough(o, x) <= Starts(o)[p + 1] <=> UnitsThrough(o, x) <= Starts(o)[p] \/ x[1] = p
<1> DEFINE A == Starts(o)
           n == Len(o.parts)
           q == x[1]
<1>1. UnitsThrough(o, x) = A[q + 1]
  BY ThroughIs
<1>2. q \in 1..n /\ n \in Nat
  BY ElementsAre, PartsCut
<1>3. q + 1 \in 1..(n + 1) /\ p + 1 \in 1..(n + 1) /\ p \in 1..(n + 1) /\ q \in Nat /\ p \in Nat
  BY <1>2
<1>4. A \in [1..(n + 1) -> Nat]
  BY StartsGrow
<1>5. A[q + 1] \in Nat /\ A[p + 1] \in Nat /\ A[p] \in Nat
  BY <1>3, <1>4
<1>6. (p + 1 < q + 1 <=> A[p + 1] < A[q + 1]) /\ (p < q + 1 <=> A[p] < A[q + 1])
  BY <1>3, StartsApart
<1> HIDE DEF A, n, q
<1>7. (A[q + 1] <= A[p + 1] <=> q <= p) /\ (A[q + 1] <= A[p] <=> q + 1 <= p)
  BY <1>3, <1>5, <1>6
<1>8. q <= p <=> (q + 1 <= p \/ q = p)
  BY <1>3
<1>9. QED
  BY <1>1, <1>7, <1>8 DEF A, q

(* What comes first is read first.                                         *)
LEMMA ThroughGrows ==
  ASSUME NEW o \in Objects, NEW x \in Elements(o), NEW y \in Elements(o), Before(x, y)
  PROVE  UnitsThrough(o, x) <= UnitsThrough(o, y)
<1>0. o.gz \in BOOLEAN
  BY StreamAssumption
<1>1. CASE o.gz
  <2> DEFINE n == Len(o.parts)
  <2>1. x[1] \in 1..n /\ y[1] \in 1..n /\ n \in Nat
    BY ElementsAre, PartsCut
  <2>2. x[1] <= y[1]
    BY <2>1 DEF Before
  <2>3. x[1] + 1 \in 1..(n + 1) /\ y[1] + 1 \in 1..(n + 1) /\ x[1] + 1 <= y[1] + 1
    BY <2>1, <2>2
  <2>4. Starts(o)[x[1] + 1] <= Starts(o)[y[1] + 1]
    BY <2>3, StartsGrow
  <2>5. QED
    BY <2>4, <1>1, ThroughIs
<1>2. CASE ~o.gz
  <2>1. x \in Among(o, 1) /\ y \in Among(o, 1)
    BY <1>2 DEF Among
  <2>2. To(o, x) <= From(o, y)
    BY <2>1, TilesInOrder
  <2>3. To(o, x) \in Nat /\ From(o, y) \in Nat /\ To(o, y) = From(o, y) + Len(ElementText(o, y[1], y[2]))
        /\ Len(ElementText(o, y[1], y[2])) \in Nat
    BY <2>1, Tiles
  <2> DEFINE l == Len(ElementText(o, y[1], y[2]))
  <2>4. l \in Nat /\ To(o, y) = From(o, y) + l
    BY <2>3
  <2> HIDE DEF l
  <2>5. To(o, x) <= To(o, y)
    BY <2>2, <2>3, <2>4
  <2>6. QED
    BY <2>5, <1>2, ThroughIs
<1>3. QED
  BY <1>0, <1>1, <1>2

-----------------------------------------------------------------------------
(* A header, read line by line: the length that its first n lines declare. *)
ElementAt(o, x) == o.parts[x[1]].text[x[2]]
HeadType == Seq([line: HeaderLines, value: Nat])
FieldLines(h, n) == \A i \in 1..n : h[i].line \in {"field", "length", "folded"}
Says(h, n, v) ==
  \E i \in 1..n :
    /\ h[i] = [line |-> "length", value |-> v]
    /\ \A j \in (i + 1)..n : h[j].line # "length"
    /\ i < n => h[i + 1].line # "folded"
LengthIs(h, n, length, last) ==
  /\ length # <<>> => Says(h, n, length[1])
  /\ length = <<>> => \A v \in Nat : ~Says(h, n, v)
  /\ last = "length" =>
       \E i \in 1..n : h[i].line = "length" /\ \A j \in (i + 1)..n : h[j].line = "folded"
  /\ last # "length" =>
       \A i \in 1..n : h[i].line = "length" => \E j \in (i + 1)..n : h[j].line = "field"

(* What makes a record sound.                                              *)
LEMMA SoundIs ==
  ASSUME NEW r, r.head \in HeadType
  PROVE  Sound(r) <=> /\ Len(r.head) < MaxHeader /\ FieldLines(r.head, Len(r.head))
                      /\ Says(r.head, Len(r.head), r.size)
BY DEF Sound, FieldLines, Says

(* A header declares one length.                                           *)
LEMMA SaysOne ==
  ASSUME NEW h, NEW n \in Nat, NEW v, NEW w, Says(h, n, v), Says(h, n, w)
  PROVE  v = w
<1>1. PICK i \in 1..n : h[i] = [line |-> "length", value |-> v] /\ \A j \in (i + 1)..n : h[j].line # "length"
  BY DEF Says
<1>2. PICK k \in 1..n : h[k] = [line |-> "length", value |-> w] /\ \A j \in (k + 1)..n : h[j].line # "length"
  BY DEF Says
<1>3. h[i].line = "length" /\ h[k].line = "length" /\ h[i].value = v /\ h[k].value = w
  BY <1>1, <1>2
<1>4. CASE i < k
  <2>1. k \in (i + 1)..n
    BY <1>4
  <2>2. QED
    BY <2>1, <1>1, <1>3
<1>5. CASE k < i
  <2>1. i \in (k + 1)..n
    BY <1>5
  <2>2. QED
    BY <2>1, <1>2, <1>3
<1>6. CASE i = k
  BY <1>3, <1>6
<1>7. QED
  BY <1>4, <1>5, <1>6

(* One line more.                                                          *)
LEMMA NextLine ==
  ASSUME NEW h \in HeadType, NEW n \in Nat, n + 1 <= Len(h), NEW length, NEW last,
         LengthIs(h, n, length, last), h[n + 1].line \in {"field", "length", "folded"}
  PROVE  LengthIs(h, n + 1,
                  CASE h[n + 1].line = "length" -> <<h[n + 1].value>>
                    [] h[n + 1].line = "folded" /\ last = "length" -> <<>>
                    [] OTHER -> length,
                  IF h[n + 1].line = "folded" THEN last ELSE h[n + 1].line)
<1> DEFINE m == n + 1
           u == h[m]
<1>1. m \in Nat /\ m \in 1..m /\ \A i : i \in 1..m <=> i \in 1..n \/ i = m
  OBVIOUS
<1>2. u \in [line: HeaderLines, value: Nat]
  <2> DEFINE H == [line: HeaderLines, value: Nat]
  <2>1. h \in Seq(H) /\ m \in 1..Len(h)
    BY DEF HeadType
  <2> HIDE DEF H, m
  <2>2. h[m] \in H
    BY <2>1
  <2>3. QED
    BY <2>2 DEF H
<1>a. u.line = h[n + 1].line /\ u.value = h[n + 1].value
  OBVIOUS
<1>b. \A i \in 1..n : i \in Nat /\ i <= n /\ i < m /\ m \in (i + 1)..m /\ \A j \in (i + 1)..n : j \in (i + 1)..m
  OBVIOUS
<1>c. \A i \in 1..n : \A j \in (i + 1)..m : j \in (i + 1)..n \/ j = m
  OBVIOUS
<1>d. \A i \in 1..n : (i < n /\ i + 1 \in (i + 1)..n) \/ (i = n /\ i + 1 = m)
  OBVIOUS
<1>e. \A j \in (m + 1)..m : FALSE
  OBVIOUS
<1> HIDE DEF u
<1> HIDE DEF m
<1>3. CASE u.line = "length"
  <2>1. u = [line |-> "length", value |-> u.value]
    BY <1>2, <1>3
  <2>2. Says(h, m, u.value)
    <3>1. h[m] = [line |-> "length", value |-> u.value]
      BY <2>1 DEF u
    <3>2. ~(m < m)
      BY <1>1
    <3>3. QED
      BY <3>1, <3>2, <1>1, <1>e DEF Says
  <2>3. LengthIs(h, m, <<u.value>>, "length")
    <3>1. <<u.value>> # <<>> /\ <<u.value>>[1] = u.value
      OBVIOUS
    <3>2. h[m].line = "length"
      BY <1>3 DEF u
    <3>3. QED
      BY <2>2, <3>1, <3>2, <1>1, <1>e DEF LengthIs
  <2>4. QED
    BY <2>3, <1>3, <1>a DEF m
<1>4. CASE u.line = "folded"
  <2>0. h[m].line = "folded"
    BY <1>4 DEF u
  <2>1. CASE last = "length"
    <3>1. PICK i0 \in 1..n : h[i0].line = "length" /\ \A j \in (i0 + 1)..n : h[j].line = "folded"
      BY <2>1 DEF LengthIs
    <3>2. ASSUME NEW v \in Nat, Says(h, m, v) PROVE FALSE
      <4>1. PICK i \in 1..m : /\ h[i] = [line |-> "length", value |-> v]
                              /\ \A j \in (i + 1)..m : h[j].line # "length"
                              /\ i < m => h[i + 1].line # "folded"
        BY <3>2 DEF Says
      <4>2. h[i].line = "length"
        BY <4>1
      <4>3. i \in 1..n
        BY <4>1, <4>2, <2>0, <1>1
      <4>4. CASE i < i0
        <5>1. i0 \in (i + 1)..m
          BY <4>3, <4>4, <1>b
        <5>2. QED
          BY <5>1, <4>1, <3>1
      <4>5. CASE i0 < i
        <5>1. i \in (i0 + 1)..n
          BY <4>3, <4>5
        <5>2. QED
          BY <5>1, <4>2, <3>1
      <4>6. CASE i = i0
        <5>1. h[i + 1].line # "folded"
          BY <4>1, <4>3, <1>b
        <5>2. (i < n /\ i + 1 \in (i + 1)..n) \/ (i = n /\ i + 1 = m)
          BY <4>3, <1>d
        <5>3. QED
          BY <5>1, <5>2, <4>6, <3>1, <2>0
      <4>7. QED
        BY <4>3, <4>4, <4>5, <4>6
    <3>3. \E i \in 1..m : h[i].line = "length" /\ \A j \in (i + 1)..m : h[j].line = "folded"
      <4>1. i0 \in 1..m /\ \A j \in (i0 + 1)..m : h[j].line = "folded"
        BY <3>1, <2>0, <1>1, <1>c
      <4>2. QED
        BY <4>1, <3>1
    <3>4. LengthIs(h, m, <<>>, last)
      BY <3>2, <3>3, <2>1 DEF LengthIs
    <3>5. QED
      BY <3>4, <2>1, <1>4, <1>a DEF m
  <2>2. CASE last # "length"
    <3>1. \A i \in 1..n : h[i].line = "length" => \E j \in (i + 1)..n : h[j].line = "field"
      BY <2>2 DEF LengthIs
    <3>2. ASSUME NEW v PROVE Says(h, m, v) <=> Says(h, n, v)
      <4>1. ASSUME NEW i \in 1..m, h[i] = [line |-> "length", value |-> v],
                   \A j \in (i + 1)..m : h[j].line # "length", i < m => h[i + 1].line # "folded"
            PROVE  Says(h, n, v)
        <5>1. h[i].line = "length"
          BY <4>1
        <5>2. i \in 1..n
          BY <5>1, <2>0, <1>1
        <5>3. \A j \in (i + 1)..n : h[j].line # "length"
          BY <4>1, <5>2, <1>b
        <5>4. h[i + 1].line # "folded"
          BY <4>1, <5>2, <1>b
        <5>5. QED
          BY <4>1, <5>2, <5>3, <5>4 DEF Says
      <4>2. ASSUME NEW i \in 1..n, h[i] = [line |-> "length", value |-> v],
                   \A j \in (i + 1)..n : h[j].line # "length", i < n => h[i + 1].line # "folded"
            PROVE  Says(h, m, v)
        <5>1. h[i].line = "length"
          BY <4>2
        <5>2. PICK j \in (i + 1)..n : h[j].line = "field"
          BY <5>1, <3>1
        <5>3. i < n
          BY <5>2
        <5>4. \A k \in (i + 1)..m : h[k].line # "length"
          BY <4>2, <2>0, <1>c
        <5>5. i \in 1..m /\ h[i + 1].line # "folded"
          BY <4>2, <5>3, <1>1
        <5>6. QED
          BY <4>2, <5>4, <5>5 DEF Says
      <4>3. QED
        BY <4>1, <4>2 DEF Says
    <3>3. \A i \in 1..m : h[i].line = "length" => \E j \in (i + 1)..m : h[j].line = "field"
      <4> SUFFICES ASSUME NEW i \in 1..m, h[i].line = "length"
                   PROVE  \E j \in (i + 1)..m : h[j].line = "field"
        OBVIOUS
      <4>1. i \in 1..n
        BY <2>0, <1>1
      <4>2. PICK j \in (i + 1)..n : h[j].line = "field"
        BY <4>1, <3>1
      <4>3. j \in (i + 1)..m
        BY <4>1, <1>b
      <4>4. QED
        BY <4>2, <4>3
    <3>4. LengthIs(h, m, length, last)
      BY <3>2, <3>3, <2>2 DEF LengthIs
    <3>5. QED
      BY <3>4, <2>2, <1>4, <1>a DEF m
  <2>3. QED
    BY <2>1, <2>2
<1>5. CASE u.line = "field"
  <2>0. h[m].line = "field"
    BY <1>5 DEF u
  <2>1. ASSUME NEW v PROVE Says(h, m, v) <=> Says(h, n, v)
    <3>1. ASSUME NEW i \in 1..m, h[i] = [line |-> "length", value |-> v],
                 \A j \in (i + 1)..m : h[j].line # "length", i < m => h[i + 1].line # "folded"
          PROVE  Says(h, n, v)
      <4>1. h[i].line = "length"
        BY <3>1
      <4>2. i \in 1..n
        BY <4>1, <2>0, <1>1
      <4>3. \A j \in (i + 1)..n : h[j].line # "length"
        BY <3>1, <4>2, <1>b
      <4>4. h[i + 1].line # "folded"
        BY <3>1, <4>2, <1>b
      <4>5. QED
        BY <3>1, <4>2, <4>3, <4>4 DEF Says
    <3>2. ASSUME NEW i \in 1..n, h[i] = [line |-> "length", value |-> v],
                 \A j \in (i + 1)..n : h[j].line # "length", i < n => h[i + 1].line # "folded"
          PROVE  Says(h, m, v)
      <4>1. \A k \in (i + 1)..m : h[k].line # "length"
        BY <3>2, <2>0, <1>c
      <4>2. (i < n /\ i + 1 \in (i + 1)..n) \/ (i = n /\ i + 1 = m)
        BY <1>d
      <4>3. h[i + 1].line # "folded"
        BY <4>2, <3>2, <2>0
      <4>4. i \in 1..m
        BY <1>1
      <4>5. QED
        BY <3>2, <4>1, <4>3, <4>4 DEF Says
    <3>3. QED
      BY <3>1, <3>2 DEF Says
  <2>2. \A i \in 1..m : h[i].line = "length" => \E j \in (i + 1)..m : h[j].line = "field"
    <3> SUFFICES ASSUME NEW i \in 1..m, h[i].line = "length"
                 PROVE  \E j \in (i + 1)..m : h[j].line = "field"
      OBVIOUS
    <3>1. i \in 1..n
      BY <2>0, <1>1
    <3>2. m \in (i + 1)..m
      BY <3>1, <1>b
    <3>3. QED
      BY <3>2, <2>0
  <2>3. LengthIs(h, m, length, "field")
    BY <2>1, <2>2 DEF LengthIs
  <2>4. QED
    BY <2>3, <1>5, <1>a DEF m
<1>6. QED
  BY <1>3, <1>4, <1>5, <1>a

-----------------------------------------------------------------------------
(* What the rows, the counters and the reader have to do with each other.  *)
(* The member at hand, its text - or all of a plain object -, its elements.*)
Which == CHOOSE p \in 1..Len(obj.parts) : start = Starts(obj)[p]
TextNow == TextOf(obj, Which)
ElementsNow == Among(obj, Which)

(* What may precede a capture that can be had.                             *)
Passed(o, x) ==
  \/ ElementAt(o, x).kind = "blank"
  \/ ~o.gz /\ IsRecord(o, x) /\ Sound(ElementAt(o, x))

(* Nothing but that ends in the first z units, and nothing stretches over  *)
(* their end.                                                              *)
PassedUpTo(o, X, z) == \A y \in X : (To(o, y) <= z /\ Passed(o, y)) \/ z <= From(o, y)

HeadNow == ElementAt(obj, header.of).head
HeadEnd == header.offset + Len(HeadNow) + 1

ReadSoFar(h, n, of) ==
  n <= Len(h) /\ of.size = n /\ FieldLines(h, n) /\ LengthIs(h, n, of.length, of.last)
ReadWhole(h, of) ==
  Len(h) < MaxHeader /\ FieldLines(h, Len(h)) /\ Says(h, Len(h), of.length[1])

(* The reader is at an element, or in the record header.of.                *)
Lead ==
  /\ phase = "record" => PassedUpTo(obj, ElementsNow, offset)
  /\ phase \in Records \ {"record"} =>
       /\ PassedUpTo(obj, ElementsNow, header.offset - 1)
       /\ header.of \in ElementsNow /\ IsRecord(obj, header.of)
       /\ From(obj, header.of) = header.offset - 1
  /\ phase = "header" => header.offset <= offset /\ ReadSoFar(HeadNow, offset - header.offset, header)
  /\ phase \in {"block", "terminator"} => ReadWhole(HeadNow, header)
  /\ phase = "block" => offset = HeadEnd
  /\ phase = "terminator" => offset = HeadEnd + header.length[1]

(* The member that is being read.                                          *)
LEMMA WhichIs ==
  ASSUME IInv, obj.gz, NEW p \in 1..Len(obj.parts), start = Starts(obj)[p]
  PROVE  Which = p
<1>1. obj \in Objects /\ Len(obj.parts) \in Nat
  BY ObjectIs
<1>2. Which \in 1..Len(obj.parts) /\ start = Starts(obj)[Which]
  BY DEF Which
<1> HIDE DEF Which
<1>3. Starts(obj) \in [1..(Len(obj.parts) + 1) -> Nat]
  BY <1>1, StartsGrow
<1>4. Which \in 1..(Len(obj.parts) + 1) /\ p \in 1..(Len(obj.parts) + 1)
  BY <1>1, <1>2
<1>5. /\ Which < p <=> Starts(obj)[Which] < Starts(obj)[p]
      /\ p < Which <=> Starts(obj)[p] < Starts(obj)[Which]
  BY <1>1, <1>4, StartsApart
<1>6. start \in Nat /\ Which \in Nat /\ p \in Nat
  BY <1>1, <1>3, <1>4
<1>7. ~(Which < p) /\ ~(p < Which)
  BY <1>2, <1>5, <1>6
<1>8. QED
  BY <1>6, <1>7

(* The invariant speaks of it.                                             *)
LEMMA WhichFramed ==
  ASSUME IInv, obj.gz, phase \notin {"member", "done"}
  PROVE  Which \in 1..Len(obj.parts) /\ Framed(Which) /\ start = Starts(obj)[Which]
<1>1. PICK p \in 1..Len(obj.parts) : Framed(p)
  BY DEF IInv, Splits
<1>2. start = Starts(obj)[p]
  BY <1>1 DEF Framed
<1>3. Which = p
  BY <1>2, WhichIs
<1>4. QED
  BY <1>1, <1>2, <1>3

(* What the reader reads.                                                  *)
LEMMA ReadsNow ==
  ASSUME IInv, phase \in Records
  PROVE  /\ Reads(TextNow) /\ obj \in Objects /\ obj.gz \in BOOLEAN
         /\ obj.gz => /\ Which \in 1..Len(obj.parts) /\ obj.parts[Which].damage = "none"
                      /\ pos = Starts(obj)[Which + 1] /\ start = Starts(obj)[Which]
         /\ ~obj.gz => offset = pos /\ TextNow = Stored[obj]
         /\ Len(TextNow) \in Nat /\ offset \in Nat
<1>1. obj \in Objects /\ obj.gz \in BOOLEAN
  BY ObjectIs
<1>2. CASE obj.gz
  <2>1. Which \in 1..Len(obj.parts) /\ Framed(Which) /\ start = Starts(obj)[Which]
    BY <1>2, WhichFramed DEF Records
  <2>2. Reads(PartText(obj, Which))
    BY <1>2, <2>1, ReadsMember
  <2>3. obj.parts[Which].damage = "none" /\ pos = Starts(obj)[Which + 1]
    BY <2>1 DEF Framed
  <2>4. TextNow = PartText(obj, Which)
    BY <1>2 DEF TextNow, TextOf
  <2>5. QED
    BY <1>1, <1>2, <2>1, <2>2, <2>3, <2>4 DEF Reads, Parsed, Window
<1>3. CASE ~obj.gz
  <2>1. Reads(Stored[obj]) /\ TextNow = Stored[obj]
    BY <1>3, ReadsPlain DEF TextNow, TextOf
  <2>2. offset = pos
    BY <1>3 DEF IInv, Plain
  <2>3. QED
    BY <1>1, <1>3, <2>1, <2>2 DEF Reads, Parsed, Window
<1>4. QED
  BY <1>1, <1>2, <1>3

(* Where an element of it lies.                                            *)
LEMMA NowAt ==
  ASSUME IInv, NEW x \in ElementsNow
  PROVE  /\ x \in Elements(obj) /\ From(obj, x) \in Nat /\ To(obj, x) \in Nat
         /\ To(obj, x) = From(obj, x) + Len(ElementText(obj, x[1], x[2]))
         /\ Len(ElementText(obj, x[1], x[2])) \in Nat /\ From(obj, x) < To(obj, x)
         /\ To(obj, x) <= Len(TextNow)
         /\ \A k \in 1..Len(ElementText(obj, x[1], x[2])) :
              TextNow[From(obj, x) + k] = ElementText(obj, x[1], x[2])[k]
         /\ x = <<x[1], x[2]>> /\ x[1] \in 1..Len(obj.parts)
         /\ x[2] \in 1..Len(obj.parts[x[1]].text)
<1>1. obj \in Objects
  BY ObjectIs
<1> DEFINE u == ElementText(obj, x[1], x[2])
<1>2. /\ x \in Elements(obj) /\ From(obj, x) \in Nat /\ To(obj, x) \in Nat /\ Len(u) \in Nat
      /\ Len(u) >= 1 /\ To(obj, x) = From(obj, x) + Len(u)
      /\ To(obj, x) <= Len(TextNow) /\ \A k \in 1..Len(u) : TextNow[From(obj, x) + k] = u[k]
  BY <1>1, Tiles DEF TextNow, ElementsNow
<1> HIDE DEF u
<1>3. From(obj, x) < To(obj, x)
  BY <1>2
<1>4. x = <<x[1], x[2]>> /\ x[1] \in 1..Len(obj.parts) /\ x[2] \in 1..Len(obj.parts[x[1]].text)
  BY <1>1, <1>2, ElementsAre
<1>5. QED
  BY <1>2, <1>3, <1>4 DEF u

(* What a record is made of: its header h and z units of block.            *)
Made(u, x, h, z) ==
  /\ h \in HeadType /\ Len(h) \in Nat /\ z \in Nat
  /\ Len(u) = Len(h) + 4 + z
  /\ u[1] = [line |-> "version", value |-> x]
  /\ \A k \in 1..Len(h) : u[1 + k] = h[k]
  /\ u[Len(h) + 2].line = "blank"
  /\ \A n \in 1..z : u[(Len(h) + 2) + n].line = "block"
  /\ u[Len(h) + 3 + z].line = "blank" /\ u[Len(h) + 4 + z].line = "blank"

(* A record is made so.                                                    *)
LEMMA RecordMade ==
  ASSUME NEW o \in Objects, NEW x \in Elements(o), IsRecord(o, x)
  PROVE  Made(ElementText(o, x[1], x[2]), x, ElementAt(o, x).head, ElementAt(o, x).size)
<1>1. x = <<x[1], x[2]>> /\ x[1] \in 1..Len(o.parts) /\ x[2] \in 1..Len(o.parts[x[1]].text)
  BY ElementsAre
<1>2. PICK p \in 1..Len(o.parts) : p = x[1]
  BY <1>1
<1>3. PICK e \in 1..Len(o.parts[p].text) : e = x[2]
  BY <1>1, <1>2
<1>4. x = <<p, e>>
  BY <1>1, <1>2, <1>3
<1>5. PICK r : r = o.parts[p].text[e]
  OBVIOUS
<1>6. ElementAt(o, x) = r
  BY <1>2, <1>3, <1>5 DEF ElementAt
<1>7. PICK u : u = RecordText(o, p, e)
  OBVIOUS
<1>8. ElementText(o, x[1], x[2]) = u
  BY <1>1, <1>2, <1>3, <1>4, <1>7 DEF ElementText
<1>9. Laid(u, o, p, e)
  BY <1>7, RecordLies
<1>10. r.head \in HeadType /\ Len(r.head) \in Nat /\ r.size \in Nat
  BY <1>5, ElementOf DEF HeadType
<1>11. Made(u, x, r.head, r.size)
  BY <1>4, <1>5, <1>9, <1>10 DEF Laid, Made
<1>12. QED
  BY <1>6, <1>8, <1>11

(* A record of it, unit by unit.                                           *)
LEMMA RecordAt ==
  ASSUME IInv, NEW x \in ElementsNow, IsRecord(obj, x)
  PROVE  LET h == ElementAt(obj, x).head
             z == ElementAt(obj, x).size
             a == From(obj, x)
             T == TextNow
         IN  /\ h \in HeadType /\ Len(h) \in Nat /\ z \in Nat /\ a \in Nat
             /\ To(obj, x) = a + Len(h) + 4 + z /\ To(obj, x) <= Len(T)
             /\ T[a + 1] = [line |-> "version", value |-> x]
             /\ \A k \in 1..Len(h) : T[a + 1 + k] = h[k]
             /\ T[a + Len(h) + 2].line = "blank"
             /\ \A n \in 1..z : T[a + Len(h) + 2 + n].line = "block"
             /\ T[a + Len(h) + 3 + z].line = "blank" /\ T[a + Len(h) + 4 + z].line = "blank"
<1>0. obj \in Objects /\ x \in Elements(obj)
  BY ObjectIs, NowAt
<1> DEFINE h == ElementAt(obj, x).head
           z == ElementAt(obj, x).size
           m == Len(h)
           a == From(obj, x)
           T == TextNow
           u == ElementText(obj, x[1], x[2])
<1>4. Made(u, x, h, z)
  BY <1>0, RecordMade
<1>6. /\ a \in Nat /\ To(obj, x) = a + Len(u) /\ To(obj, x) <= Len(T)
      /\ \A k \in 1..Len(u) : T[a + k] = u[k]
  BY NowAt
<1>l. m = Len(h)
  OBVIOUS
<1> HIDE DEF h, z, m, a, T, u
<1>5. /\ h \in HeadType /\ m \in Nat /\ z \in Nat /\ Len(u) = m + 4 + z
      /\ u[1] = [line |-> "version", value |-> x]
      /\ \A k \in 1..m : u[1 + k] = h[k]
      /\ u[m + 2].line = "blank"
      /\ \A n \in 1..z : u[(m + 2) + n].line = "block"
      /\ u[m + 3 + z].line = "blank" /\ u[m + 4 + z].line = "blank"
  BY <1>4, <1>l DEF Made
<1>7. /\ 1 \in 1..Len(u) /\ m + 2 \in 1..Len(u) /\ m + 3 + z \in 1..Len(u) /\ m + 4 + z \in 1..Len(u)
      /\ a + (m + 2) = a + m + 2 /\ a + (m + 3 + z) = a + m + 3 + z
      /\ a + (m + 4 + z) = a + m + 4 + z /\ To(obj, x) = a + m + 4 + z
  BY <1>5, <1>6
<1>8. T[a + 1] = u[1] /\ T[a + (m + 2)] = u[m + 2] /\ T[a + (m + 3 + z)] = u[m + 3 + z]
      /\ T[a + (m + 4 + z)] = u[m + 4 + z]
  BY <1>6, <1>7
<1>9. \A k \in 1..m : T[a + 1 + k] = h[k]
  <2> SUFFICES ASSUME NEW k \in 1..m PROVE T[a + 1 + k] = h[k]
    OBVIOUS
  <2>1. 1 + k \in 1..Len(u) /\ a + (1 + k) = a + 1 + k
    BY <1>5, <1>6
  <2>2. T[a + (1 + k)] = u[1 + k]
    BY <2>1, <1>6
  <2>3. QED
    BY <2>1, <2>2, <1>5
<1>10. \A n \in 1..z : T[a + m + 2 + n].line = "block"
  <2> SUFFICES ASSUME NEW n \in 1..z PROVE T[a + m + 2 + n].line = "block"
    OBVIOUS
  <2>1. (m + 2) + n \in 1..Len(u) /\ a + ((m + 2) + n) = a + m + 2 + n
    BY <1>5, <1>6
  <2>2. T[a + ((m + 2) + n)] = u[(m + 2) + n]
    BY <2>1, <1>6
  <2>3. QED
    BY <2>1, <2>2, <1>5
<1>11. T[a + 1] = [line |-> "version", value |-> x]
  BY <1>5, <1>8
<1>12. T[a + m + 2].line = "blank" /\ T[a + m + 3 + z].line = "blank" /\ T[a + m + 4 + z].line = "blank"
  BY <1>5, <1>7, <1>8
<1>13. QED
  BY <1>5, <1>6, <1>7, <1>9, <1>10, <1>11, <1>12, <1>l DEF h, m, z, a, T

(* A line between records.                                                 *)
LEMMA LineAt ==
  ASSUME IInv, NEW x \in ElementsNow, ~IsRecord(obj, x)
  PROVE  /\ To(obj, x) = From(obj, x) + 1
         /\ TextNow[From(obj, x) + 1].line = ElementAt(obj, x).kind
         /\ ElementAt(obj, x).kind \in {"blank", "garbage"}
<1> DEFINE u == ElementText(obj, x[1], x[2])
<1>1. obj \in Objects /\ x = <<x[1], x[2]>> /\ x[1] \in 1..Len(obj.parts)
      /\ x[2] \in 1..Len(obj.parts[x[1]].text)
  BY ObjectIs, NowAt
<1>2. u = <<Line(ElementAt(obj, x).kind)>>
  BY <1>1 DEF ElementText, ElementAt
<1>3. Len(u) = 1 /\ u[1].line = ElementAt(obj, x).kind
  BY <1>2 DEF Line
<1>4. ElementAt(obj, x).kind \in {"blank", "garbage"}
  BY <1>1, ElementOf DEF ElementAt, IsRecord
<1>5. To(obj, x) = From(obj, x) + Len(u) /\ \A k \in 1..Len(u) : TextNow[From(obj, x) + k] = u[k]
  BY NowAt
<1> HIDE DEF u
<1>6. QED
  BY <1>3, <1>4, <1>5

(* The element that begins where the others have been passed.              *)
LEMMA NextElement ==
  ASSUME IInv, phase \in Records, NEW z \in Nat, PassedUpTo(obj, ElementsNow, z), z < Len(TextNow)
  PROVE  \E x \in ElementsNow : From(obj, x) = z
<1>1. obj \in Objects /\ Len(TextNow) \in Nat /\ (obj.gz => Which \in 1..Len(obj.parts))
  BY ReadsNow
<1>2. z + 1 \in 1..Len(TextOf(obj, Which))
  BY <1>1 DEF TextNow
<1>3. PICK x \in ElementsNow : From(obj, x) < z + 1 /\ z + 1 <= To(obj, x)
  BY <1>1, <1>2, TilesCover DEF ElementsNow
<1>4. From(obj, x) \in Nat /\ To(obj, x) \in Nat
  BY NowAt
<1>5. z <= From(obj, x)
  BY <1>3, <1>4 DEF PassedUpTo
<1>6. From(obj, x) = z
  BY <1>3, <1>4, <1>5
<1>7. QED
  BY <1>6

(* It is passed.                                                           *)
LEMMA PassesOn ==
  ASSUME IInv, NEW z \in Nat, PassedUpTo(obj, ElementsNow, z), NEW x \in ElementsNow, From(obj, x) = z, Passed(obj, x)
  PROVE  PassedUpTo(obj, ElementsNow, To(obj, x))
<1> SUFFICES ASSUME NEW y \in ElementsNow
             PROVE  (To(obj, y) <= To(obj, x) /\ Passed(obj, y)) \/ To(obj, x) <= From(obj, y)
  BY DEF PassedUpTo
<1>1. obj \in Objects /\ x \in Elements(obj) /\ y \in Elements(obj)
  BY ObjectIs, NowAt
<1>2. /\ To(obj, x) \in Nat /\ From(obj, x) < To(obj, x)
      /\ To(obj, y) \in Nat /\ From(obj, y) \in Nat /\ From(obj, y) < To(obj, y)
  BY NowAt
<1>3. CASE x = y
  BY <1>2, <1>3
<1>4. CASE Before(x, y)
  BY <1>1, <1>4, TilesInOrder DEF ElementsNow
<1>5. CASE Before(y, x)
  <2>1. To(obj, y) <= z
    BY <1>1, <1>5, TilesInOrder DEF ElementsNow
  <2>2. ~(z <= From(obj, y))
    BY <2>1, <1>2
  <2>3. Passed(obj, y)
    BY <2>2 DEF PassedUpTo
  <2>4. To(obj, y) <= To(obj, x)
    BY <2>1, <1>2
  <2>5. QED
    BY <2>3, <2>4
<1>6. QED
  BY <1>1, <1>3, <1>4, <1>5, OneBefore

-----------------------------------------------------------------------------
(* Lead, step by step.  What is at hand depends on the object and on start.*)
LEMMA NowSame ==
  ASSUME obj' = obj, start' = start
  PROVE  TextNow' = TextNow /\ ElementsNow' = ElementsNow
BY DEF TextNow, ElementsNow, Which

(* A step that does not touch what Lead is about.                          *)
LEMMA LeadStays ==
  ASSUME Lead, UNCHANGED <<obj, start, phase, offset, header>>
  PROVE  Lead'
<1>1. ElementsNow' = ElementsNow
  BY NowSame
<1>2. HeadNow' = HeadNow /\ HeadEnd' = HeadEnd
  BY DEF HeadNow, HeadEnd
<1>3. QED
  BY <1>1, <1>2 DEF Lead

(* An empty line is passed.                                                *)
LEMMA SkipBlankLeads ==
  ASSUME IInv, Lead, SkipBlank
  PROVE  Lead'
<1> DEFINE T == TextNow
<1>1. /\ phase = "record" /\ Ready /\ Input[1].line = "blank" /\ offset' = offset + 1
      /\ phase' = phase /\ start' = start /\ obj' = obj
  BY DEF SkipBlank, Here
<1>2. phase \in Records /\ Reads(T) /\ Len(T) \in Nat /\ offset \in Nat
  BY <1>1, ReadsNow DEF Records
<1>3. want = 1 /\ Len(Input) >= 1
  BY <1>1, <1>2 DEF Reads, Parsed, Ready
<1>4. Input[1] = T[offset + 1] /\ offset + 1 \in 1..Len(T)
  BY <1>2, <1>3, First
<1>5. PassedUpTo(obj, ElementsNow, offset) /\ offset < Len(T)
  BY <1>1, <1>2, <1>4 DEF Lead
<1>6. PICK x \in ElementsNow : From(obj, x) = offset
  BY <1>2, <1>5, NextElement DEF T
<1>7. ~IsRecord(obj, x)
  <2>1. ASSUME IsRecord(obj, x) PROVE FALSE
    <3>1. T[offset + 1] = [line |-> "version", value |-> x]
      BY <1>6, <2>1, RecordAt
    <3>2. T[offset + 1].line = "version"
      BY <3>1
    <3>3. QED
      BY <3>2, <1>1, <1>4
  <2>2. QED
    BY <2>1
<1>8. To(obj, x) = offset + 1 /\ Passed(obj, x)
  BY <1>1, <1>4, <1>6, <1>7, LineAt DEF Passed
<1>9. PassedUpTo(obj, ElementsNow, offset + 1)
  BY <1>2, <1>5, <1>6, <1>8, PassesOn
<1>10. PassedUpTo(obj', ElementsNow', offset')
  BY <1>1, <1>9, NowSame
<1>11. QED
  BY <1>1, <1>10 DEF Lead, Records

(* A version line is that of the element the reader is at.                 *)
LEMMA VersionLeads ==
  ASSUME IInv, Lead, Version
  PROVE  Lead'
<1> DEFINE T == TextNow
<1>1. /\ phase = "record" /\ Ready /\ Input[1].line = "version" /\ offset' = offset + 1
      /\ phase' = "header" /\ start' = start /\ obj' = obj
      /\ header' = [NoHeader EXCEPT !.of = Input[1].value, !.offset = offset + 1]
  BY DEF Version, Here, Then
<1>2. phase \in Records /\ Reads(T) /\ Len(T) \in Nat /\ offset \in Nat
  BY <1>1, ReadsNow DEF Records
<1>3. want = 1 /\ Len(Input) >= 1
  BY <1>1, <1>2 DEF Reads, Parsed, Ready
<1>4. Input[1] = T[offset + 1] /\ offset + 1 \in 1..Len(T)
  BY <1>2, <1>3, First
<1>5. PassedUpTo(obj, ElementsNow, offset) /\ offset < Len(T)
  BY <1>1, <1>2, <1>4 DEF Lead
<1>6. PICK x \in ElementsNow : From(obj, x) = offset
  BY <1>2, <1>5, NextElement DEF T
<1>7. IsRecord(obj, x)
  <2>1. ASSUME ~IsRecord(obj, x) PROVE FALSE
    <3>1. T[offset + 1].line \in {"blank", "garbage"}
      BY <1>6, <2>1, LineAt
    <3>2. QED
      BY <3>1, <1>1, <1>4
  <2>2. QED
    BY <2>1
<1> DEFINE h == ElementAt(obj, x).head
<1>8. T[offset + 1] = [line |-> "version", value |-> x] /\ Len(h) \in Nat
  BY <1>6, <1>7, RecordAt
<1>9. Input[1].value = x
  BY <1>4, <1>8
<1>10. header' = [of |-> x, offset |-> offset + 1, length |-> <<>>, last |-> "none", size |-> 0]
  BY <1>1, <1>9 DEF NoHeader
<1>11. /\ header'.of = x /\ header'.offset = offset + 1 /\ header'.length = <<>>
       /\ header'.last = "none" /\ header'.size = 0
  BY <1>10
<1>12. HeadNow' = h
  BY <1>1, <1>11 DEF HeadNow
<1> HIDE DEF h, T
<1>13. LengthIs(h, 0, <<>>, "none") /\ FieldLines(h, 0)
  <2>1. \A i \in 1..0 : FALSE
    OBVIOUS
  <2>2. QED
    BY <2>1 DEF LengthIs, FieldLines, Says
<1>14. offset' - header'.offset = 0 /\ (offset + 1) - 1 = offset /\ header'.offset <= offset'
  BY <1>1, <1>2, <1>11
<1>15. ReadSoFar(h, 0, header')
  BY <1>8, <1>11, <1>13 DEF ReadSoFar
<1>16. ReadSoFar(HeadNow', offset' - header'.offset, header')
  BY <1>12, <1>14, <1>15
<1>17. PassedUpTo(obj', ElementsNow', header'.offset - 1)
  BY <1>1, <1>5, <1>11, <1>14, NowSame
<1>18. header'.of \in ElementsNow' /\ IsRecord(obj', header'.of) /\ From(obj', header'.of) = header'.offset - 1
  BY <1>1, <1>6, <1>7, <1>11, <1>14, NowSame
<1>19. QED
  BY <1>1, <1>14, <1>16, <1>17, <1>18 DEF Lead, Records

(* The record that is read, and the line of its header that comes next.    *)
LEMMA HeaderAt ==
  ASSUME IInv, Lead, phase = "header", Len(Input) >= 1
  PROVE  LET n == offset - header.offset
             h == HeadNow
         IN  /\ n \in Nat /\ n <= Len(h) /\ h \in HeadType /\ Len(h) \in Nat
             /\ offset \in Nat /\ header.offset \in Nat /\ header.offset + n = offset
             /\ n < Len(h) => Input[1] = h[n + 1] /\ Input[1].line \in HeaderLines
             /\ n = Len(h) => Input[1].line = "blank"
             /\ ReadSoFar(h, n, header)
<1> DEFINE T == TextNow
           n == offset - header.offset
           h == HeadNow
           m == Len(h)
           x == header.of
           a == From(obj, x)
<1>1. phase \in Records /\ Reads(T) /\ offset \in Nat /\ header.offset \in Nat
  <2>1. phase \in Records /\ header \in HeaderType
    BY DEF Records, IInv
  <2>2. QED
    BY <2>1, ReadsNow DEF HeaderType
<1>2. header.offset <= offset /\ ReadSoFar(h, n, header)
      /\ x \in ElementsNow /\ IsRecord(obj, x) /\ a = header.offset - 1
  BY DEF Lead, Records
<1>3. /\ h \in HeadType /\ m \in Nat /\ a \in Nat
      /\ \A k \in 1..m : T[a + 1 + k] = h[k]
      /\ T[a + m + 2].line = "blank"
  BY <1>2, RecordAt DEF HeadNow
<1>4. Input[1] = T[offset + 1]
  BY <1>1, First
<1>5. n <= m
  BY <1>2 DEF ReadSoFar
<1>l. m = Len(h)
  OBVIOUS
<1> HIDE DEF T, h, m, a, x
<1>6. n \in Nat /\ offset + 1 = a + 1 + (n + 1) /\ header.offset + n = offset
  BY <1>1, <1>2, <1>3
<1> HIDE DEF n
<1>7. n < m => Input[1] = h[n + 1] /\ Input[1].line \in HeaderLines
  <2> SUFFICES ASSUME n < m PROVE Input[1] = h[n + 1] /\ Input[1].line \in HeaderLines
    OBVIOUS
  <2>1. n + 1 \in 1..m
    BY <1>3, <1>6
  <2>2. Input[1] = h[n + 1]
    BY <2>1, <1>3, <1>4, <1>6
  <2> DEFINE H == [line: HeaderLines, value: Nat]
  <2>3. h \in Seq(H) /\ n + 1 \in 1..Len(h)
    BY <2>1, <1>3, <1>l DEF HeadType
  <2> HIDE DEF H
  <2>4. h[n + 1] \in H
    BY <2>3
  <2>5. QED
    BY <2>2, <2>4 DEF H
<1>8. n = m => Input[1].line = "blank"
  <2> SUFFICES ASSUME n = m PROVE Input[1].line = "blank"
    OBVIOUS
  <2>1. a + 1 + (n + 1) = a + m + 2
    BY <1>3
  <2>2. QED
    BY <2>1, <1>3, <1>4, <1>6
<1>9. QED
  BY <1>1, <1>2, <1>3, <1>5, <1>6, <1>7, <1>8, <1>l DEF n, h

(* A header line is one of the record.                                     *)
LEMMA HeaderLineLeads ==
  ASSUME IInv, Lead, HeaderLine
  PROVE  Lead'
<1> DEFINE n == offset - header.offset
           h == HeadNow
           last == IF Input[1].line = "folded" THEN header.last ELSE Input[1].line
           length == CASE Input[1].line = "length" -> <<Input[1].value>>
                       [] Input[1].line = "folded" /\ header.last = "length" -> <<>>
                       [] OTHER -> header.length
<1>1. /\ phase = "header" /\ Ready /\ Input[1].line \in {"field", "length", "folded"}
      /\ offset' = offset + 1 /\ phase' = phase /\ start' = start /\ obj' = obj
      /\ header' = [header EXCEPT !.size = header.size + 1, !.last = last, !.length = length]
  BY DEF HeaderLine, Here
<1>2. want = 1 /\ Len(Input) >= 1
  <2>1. Reads(TextNow)
    BY <1>1, ReadsNow DEF Records
  <2>2. QED
    BY <2>1, <1>1 DEF Reads, Parsed, Ready
<1>3. /\ n \in Nat /\ n <= Len(h) /\ h \in HeadType /\ Len(h) \in Nat
      /\ offset \in Nat /\ header.offset \in Nat /\ header.offset + n = offset
      /\ n < Len(h) => Input[1] = h[n + 1]
      /\ n = Len(h) => Input[1].line = "blank"
      /\ ReadSoFar(h, n, header)
  BY <1>1, <1>2, HeaderAt
<1>4. /\ header'.of = header.of /\ header'.offset = header.offset /\ header'.size = header.size + 1
      /\ header'.last = last /\ header'.length = length
  <2>1. header \in HeaderType
    BY DEF IInv
  <2> HIDE DEF last, length
  <2>2. header' = [of |-> header.of, offset |-> header.offset, length |-> length,
                   last |-> last, size |-> header.size + 1]
    BY <2>1, <1>1 DEF HeaderType
  <2>3. QED
    BY <2>2
<1>5. n + 1 <= Len(h) /\ Input[1] = h[n + 1]
  <2>1. Input[1].line # "blank"
    BY <1>1
  <2> HIDE DEF n, h
  <2>2. n < Len(h)
    BY <2>1, <1>3
  <2>3. QED
    BY <2>2, <1>3
<1>6. LengthIs(h, n, header.length, header.last) /\ FieldLines(h, n) /\ header.size = n
  BY <1>3 DEF ReadSoFar
<1>7. LengthIs(h, n + 1, length, last)
  <2>1. h[n + 1].line \in {"field", "length", "folded"}
    BY <1>1, <1>5
  <2>2. /\ length = CASE h[n + 1].line = "length" -> <<h[n + 1].value>>
                      [] h[n + 1].line = "folded" /\ header.last = "length" -> <<>>
                      [] OTHER -> header.length
        /\ last = IF h[n + 1].line = "folded" THEN header.last ELSE h[n + 1].line
    BY <1>5
  <2> HIDE DEF n, h, length, last
  <2>3. h \in HeadType /\ n \in Nat /\ n + 1 <= Len(h)
    BY <1>3, <1>5
  <2>4. QED
    BY <2>1, <2>2, <2>3, <1>6, NextLine
<1> HIDE DEF length, last
<1>8. FieldLines(h, n + 1)
  <2> HIDE DEF n, h
  <2> SUFFICES ASSUME NEW i \in 1..(n + 1) PROVE h[i].line \in {"field", "length", "folded"}
    BY DEF FieldLines
  <2>1. i \in 1..n \/ i = n + 1
    BY <1>3
  <2>2. QED
    BY <2>1, <1>1, <1>5, <1>6 DEF FieldLines
<1>9. HeadNow' = h
  BY <1>1, <1>4 DEF HeadNow
<1>10. offset' - header'.offset = n + 1 /\ header'.offset <= offset'
  BY <1>1, <1>3, <1>4
<1> HIDE DEF n, h
<1>11. ReadSoFar(h, n + 1, header')
  BY <1>4, <1>5, <1>6, <1>7, <1>8 DEF ReadSoFar
<1>12. ReadSoFar(HeadNow', offset' - header'.offset, header')
  BY <1>9, <1>10, <1>11
<1>13. /\ PassedUpTo(obj', ElementsNow', header'.offset - 1)
       /\ header'.of \in ElementsNow' /\ IsRecord(obj', header'.of)
       /\ From(obj', header'.of) = header'.offset - 1
  BY <1>1, <1>4, NowSame DEF Lead, Records
<1>14. QED
  BY <1>1, <1>10, <1>12, <1>13 DEF Lead, Records

(* The empty line ends the header where it ends in the record.             *)
LEMMA HeaderEndLeads ==
  ASSUME IInv, Lead, HeaderEnd
  PROVE  Lead'
<1> DEFINE n == offset - header.offset
           h == HeadNow
<1>1. /\ phase = "header" /\ Ready /\ header.size < MaxHeader
      /\ Input[1].line = "blank" /\ header.length # <<>>
      /\ offset' = offset + 1 /\ phase' = "block" /\ start' = start /\ obj' = obj
      /\ header' = [header EXCEPT !.size = header.size + 1]
  BY DEF HeaderEnd, Here, Then
<1>2. want = 1 /\ Len(Input) >= 1
  <2>1. Reads(TextNow)
    BY <1>1, ReadsNow DEF Records
  <2>2. QED
    BY <2>1, <1>1 DEF Reads, Parsed, Ready
<1>3. /\ n \in Nat /\ n <= Len(h) /\ Len(h) \in Nat
      /\ offset \in Nat /\ header.offset \in Nat /\ header.offset + n = offset
      /\ n < Len(h) => Input[1].line \in HeaderLines
      /\ ReadSoFar(h, n, header)
  BY <1>1, <1>2, HeaderAt
<1>4. /\ header'.of = header.of /\ header'.offset = header.offset /\ header'.length = header.length
  <2>1. header \in HeaderType
    BY DEF IInv
  <2>2. header' = [of |-> header.of, offset |-> header.offset, length |-> header.length,
                   last |-> header.last, size |-> header.size + 1]
    BY <2>1, <1>1 DEF HeaderType
  <2>3. QED
    BY <2>2
<1>5. n = Len(h)
  <2>1. ~(Input[1].line \in HeaderLines)
    BY <1>1 DEF HeaderLines
  <2> HIDE DEF n, h
  <2>2. QED
    BY <2>1, <1>3
<1>6. /\ header.size = n /\ FieldLines(h, n)
      /\ header.length # <<>> => Says(h, n, header.length[1])
  BY <1>3 DEF ReadSoFar, LengthIs
<1>7. HeadNow' = h /\ HeadEnd' = header.offset + Len(h) + 1
  BY <1>1, <1>4 DEF HeadNow, HeadEnd
<1>8. offset' = HeadEnd'
  <2> HIDE DEF h
  <2>1. offset + 1 = header.offset + Len(h) + 1
    BY <1>3, <1>5
  <2>2. QED
    BY <2>1, <1>1, <1>7
<1> HIDE DEF n, h
<1>9. ReadWhole(h, header')
  BY <1>1, <1>4, <1>5, <1>6 DEF ReadWhole
<1>10. /\ PassedUpTo(obj', ElementsNow', header'.offset - 1)
       /\ header'.of \in ElementsNow' /\ IsRecord(obj', header'.of)
       /\ From(obj', header'.of) = header'.offset - 1
  BY <1>1, <1>4, NowSame DEF Lead, Records
<1>11. QED
  BY <1>1, <1>7, <1>8, <1>9, <1>10 DEF Lead, Records

(* The block, as long as declared.                                         *)
LEMMA BlockLeads ==
  ASSUME IInv, Lead, Block
  PROVE  Lead'
<1>1. /\ phase = "block" /\ offset' = offset + want /\ phase' = "terminator" /\ start' = start
      /\ obj' = obj /\ header' = header
  BY DEF Block, Here, Then
<1>2. want = header.length[1]
  <2>1. Reads(TextNow)
    BY <1>1, ReadsNow DEF Records
  <2>2. QED
    BY <2>1, <1>1 DEF Reads, Parsed
<1>3. HeadNow' = HeadNow /\ HeadEnd' = HeadEnd
  BY <1>1 DEF HeadNow, HeadEnd
<1>4. /\ PassedUpTo(obj', ElementsNow', header'.offset - 1)
      /\ header'.of \in ElementsNow' /\ IsRecord(obj', header'.of)
      /\ From(obj', header'.of) = header'.offset - 1
  BY <1>1, NowSame DEF Lead, Records
<1>5. ReadWhole(HeadNow, header) /\ offset = HeadEnd
  BY <1>1 DEF Lead
<1>6. QED
  BY <1>1, <1>2, <1>3, <1>4, <1>5 DEF Lead, Records

(* No record declares a block that is too long and ends, of all places,    *)
(* before two empty lines.                                                 *)
NoFalseEnd ==
  \A o \in Objects : \A x \in Elements(o) : IsRecord(o, x) =>
    LET r == ElementAt(o, x)
        T == TextOf(o, x[1])
        b == From(o, x) + Len(r.head) + 2
    IN  \A v \in Nat : Says(r.head, Len(r.head), v) /\ v > r.size /\ b + v + 2 <= Len(T) =>
          ~(T[b + v + 1].line = "blank" /\ T[b + v + 2].line = "blank")

(* Behind the header: where the reader is in the record.                   *)
LEMMA BodyAt ==
  ASSUME IInv, Lead, phase \in {"block", "terminator"}
  PROVE  LET x == header.of
             r == ElementAt(obj, x)
             v == header.length[1]
             b == From(obj, x) + Len(r.head) + 2
         IN  /\ x \in ElementsNow /\ IsRecord(obj, x) /\ r.head \in HeadType
             /\ b \in Nat /\ v \in Nat /\ r.size \in Nat
             /\ offset = (IF phase = "block" THEN b ELSE b + v)
             /\ To(obj, x) = b + r.size + 2
             /\ Says(r.head, Len(r.head), v) /\ (Sound(r) <=> v = r.size)
             /\ \A k \in 1..r.size : TextNow[b + k].line = "block"
             /\ TextNow[b + r.size + 1].line = "blank" /\ TextNow[b + r.size + 2].line = "blank"
<1> DEFINE x == header.of
           r == ElementAt(obj, x)
           h == r.head
           m == Len(h)
           z == r.size
           v == header.length[1]
           a == From(obj, x)
           b == a + m + 2
           T == TextNow
<1>1. phase \in Records \ {"record"} /\ phase \in Records
  BY DEF Records
<1>2. x \in ElementsNow /\ IsRecord(obj, x) /\ a = header.offset - 1
  BY <1>1 DEF Lead
<1>3. /\ h \in HeadType /\ m \in Nat /\ z \in Nat /\ a \in Nat
      /\ To(obj, x) = a + m + 4 + z
      /\ \A n \in 1..z : T[a + m + 2 + n].line = "block"
      /\ T[a + m + 3 + z].line = "blank" /\ T[a + m + 4 + z].line = "blank"
  BY <1>2, RecordAt
<1>4. /\ HeadNow = h /\ HeadEnd = header.offset + m + 1
  BY DEF HeadNow, HeadEnd
<1>5. m < MaxHeader /\ FieldLines(h, m) /\ Says(h, m, v)
  BY <1>4 DEF Lead, ReadWhole
<1>6. offset = (IF phase = "block" THEN HeadEnd ELSE HeadEnd + v)
  BY DEF Lead
<1>7. v \in Nat /\ header.offset \in Nat
  <2>1. Reads(T) /\ header \in HeaderType
    BY <1>1, ReadsNow DEF IInv
  <2>2. header.length \in Seq(Nat) /\ 1 \in 1..Len(header.length)
    BY <2>1 DEF Reads, Parsed, HeaderType, Declared
  <2>3. QED
    BY <2>1, <2>2 DEF HeaderType
<1>8. Sound(r) <=> v = z
  <2>1. Sound(r) <=> m < MaxHeader /\ FieldLines(h, m) /\ Says(h, m, z)
    BY <1>3, SoundIs
  <2>2. Says(h, m, z) => v = z
    BY <1>3, <1>5, SaysOne
  <2>3. QED
    BY <2>1, <2>2, <1>5
<1> HIDE DEF h, m, z, a, T, x, r, v
<1>9. HeadEnd = b /\ b \in Nat /\ b + z + 1 = a + m + 3 + z /\ b + z + 2 = a + m + 4 + z
  BY <1>2, <1>3, <1>4, <1>7
<1>10. \A k \in 1..z : T[b + k].line = "block"
  BY <1>3
<1> HIDE DEF b
<1>11. QED
  BY <1>2, <1>3, <1>5, <1>6, <1>7, <1>8, <1>9, <1>10 DEF h, m, z, a, T, x, r, v, b

(* The two units the terminator is told by.                                *)
LEMMA Second ==
  ASSUME NEW T, Reads(T), Len(Input) >= 2
  PROVE  /\ Input[1] = T[offset + 1] /\ Input[2] = T[offset + 2]
         /\ offset \in Nat /\ Len(T) \in Nat /\ offset + 2 <= Len(T)
<1>1. Window(Input, T, offset)
  BY DEF Reads, Parsed
<1>2. Input \in Seq(Unit) /\ offset \in Nat /\ \A k \in 1..Len(Input) : Input[k] = T[offset + k]
  BY <1>1 DEF Window
<1>3. Len(Input) \in Nat
  BY <1>2, LenProperties, Zenon
<1>4. 2 \in 1..Len(Input)
  BY <1>3
<1>5. Input[2] = T[offset + 2]
  BY <1>2, <1>4
<1>6. 2 \in Nat /\ 2 >= 1
  OBVIOUS
<1>7. /\ Input[1] = T[offset + 1] /\ offset \in Nat /\ Len(T) \in Nat /\ offset + 2 <= Len(T)
  BY <1>6, First
<1>8. QED
  BY <1>5, <1>7

(* The text at hand is that of the element's part.                         *)
LEMMA TextAt ==
  ASSUME IInv, NEW x \in ElementsNow
  PROVE  TextNow = TextOf(obj, x[1])
BY DEF TextNow, TextOf, ElementsNow, Among

(* Two empty lines where the block should end, and it ends there.          *)
LEMMA TerminatorSound ==
  ASSUME NoFalseEnd, IInv, Lead, phase = "terminator", Ready,
         Input[1].line = "blank", Input[2].line = "blank"
  PROVE  /\ header.of \in ElementsNow /\ IsRecord(obj, header.of)
         /\ Sound(ElementAt(obj, header.of)) /\ To(obj, header.of) = offset + 2
         /\ offset \in Nat /\ offset + 2 <= Len(TextNow)
<1> DEFINE x == header.of
           r == ElementAt(obj, x)
           v == header.length[1]
           b == From(obj, x) + Len(r.head) + 2
           T == TextNow
           n == r.size
<1>1. phase \in Records /\ phase \in {"block", "terminator"} /\ phase # "block"
  BY DEF Records
<1>2. /\ x \in ElementsNow /\ IsRecord(obj, x)
      /\ b \in Nat /\ v \in Nat /\ n \in Nat
      /\ offset = b + v /\ To(obj, x) = b + n + 2
      /\ Says(r.head, Len(r.head), v) /\ (Sound(r) <=> v = n)
      /\ \A k \in 1..n : T[b + k].line = "block"
  BY <1>1, BodyAt
<1>3. Reads(T)
  BY <1>1, ReadsNow
<1>4. want = 2 /\ Len(Input) >= 2
  BY <1>1, <1>3 DEF Reads, Parsed, Ready
<1>5. T[offset + 1].line = "blank" /\ T[offset + 2].line = "blank"
      /\ offset \in Nat /\ Len(T) \in Nat /\ offset + 2 <= Len(T)
  BY <1>3, <1>4, Second
<1>6. ~(v > n)
  <2> SUFFICES ASSUME v > n PROVE FALSE
    OBVIOUS
  <2>1. obj \in Objects /\ x \in Elements(obj)
    BY <1>2, ObjectIs, NowAt
  <2>2. T = TextOf(obj, x[1])
    BY <1>2, TextAt
  <2>3. b + v + 2 <= Len(TextOf(obj, x[1]))
    BY <1>2, <1>5, <2>2
  <2>4. ~(TextOf(obj, x[1])[b + v + 1].line = "blank" /\ TextOf(obj, x[1])[b + v + 2].line = "blank")
    BY <1>2, <2>1, <2>3 DEF NoFalseEnd
  <2>5. QED
    BY <2>2, <2>4, <1>2, <1>5
<1>7. ~(v < n)
  <2> SUFFICES ASSUME v < n PROVE FALSE
    OBVIOUS
  <2> HIDE DEF b, v, n, r, x, T
  <2>1. v + 1 \in 1..n /\ b + (v + 1) = offset + 1
    BY <1>2
  <2>2. T[b + (v + 1)].line = "block"
    BY <1>2, <2>1
  <2>3. QED
    BY <2>1, <2>2, <1>5
<1>8. v = n
  <2> HIDE DEF b, v, n, r, x, T
  <2>1. QED
    BY <1>2, <1>6, <1>7
<1>9. QED
  BY <1>2, <1>5, <1>8

(* A complete record is passed, a gzip member done with.                   *)
LEMMA TerminatorLeads ==
  ASSUME NoFalseEnd, IInv, Lead, Terminator
  PROVE  Lead'
<1>1. /\ phase = "terminator" /\ Ready /\ Input[1].line = "blank" /\ Input[2].line = "blank"
      /\ offset' = offset + 2 /\ phase' = (IF obj.gz THEN "member" ELSE "record")
      /\ start' = start /\ obj' = obj /\ header' = header
  BY DEF Terminator, Here, Then
<1>2. /\ header.of \in ElementsNow /\ IsRecord(obj, header.of)
      /\ Sound(ElementAt(obj, header.of)) /\ To(obj, header.of) = offset + 2
  BY <1>1, TerminatorSound
<1>3. CASE obj.gz
  <2>1. phase' = "member"
    BY <1>1, <1>3
  <2>2. QED
    BY <2>1 DEF Lead, Records
<1>4. CASE ~obj.gz
  <2>1. phase' = "record"
    BY <1>1, <1>4
  <2>2. phase \in Records \ {"record"}
    BY <1>1 DEF Records
  <2>3. PassedUpTo(obj, ElementsNow, header.offset - 1) /\ From(obj, header.of) = header.offset - 1
    BY <2>2 DEF Lead
  <2>4. header.offset - 1 \in Nat
    BY <1>2, <2>3, NowAt
  <2>5. Passed(obj, header.of)
    BY <1>2, <1>4 DEF Passed
  <2>6. PassedUpTo(obj, ElementsNow, To(obj, header.of))
    BY <2>3, <2>4, <2>5, <1>2, PassesOn
  <2>7. PassedUpTo(obj', ElementsNow', offset')
    BY <2>6, <1>1, <1>2, NowSame
  <2>8. QED
    BY <2>1, <2>7 DEF Lead, Records
<1>5. QED
  BY <1>3, <1>4

(* A new reader, at the beginning of the member.                           *)
LEMMA TrailerLeads ==
  ASSUME IInv, Trailer
  PROVE  Lead'
<1>1. phase = "trailer" /\ phase' = "record" /\ offset' = 0 /\ start' = start /\ obj' = obj
  BY DEF Trailer, Then, Here
<1>2. PassedUpTo(obj, ElementsNow, 0)
  <2> SUFFICES ASSUME NEW y \in ElementsNow PROVE 0 <= From(obj, y)
    BY DEF PassedUpTo
  <2>1. From(obj, y) \in Nat
    BY NowAt
  <2>2. QED
    BY <2>1
<1>3. PassedUpTo(obj', ElementsNow', offset')
  BY <1>1, <1>2, NowSame
<1>4. QED
  BY <1>1, <1>3 DEF Lead, Records

(* No reader, no matter.                                                   *)
LEMMA NoLead ==
  ASSUME phase' \notin Records
  PROVE  Lead'
BY DEF Lead, Records

(* The lead is kept.                                                       *)
LEMMA LeadNext ==
  ASSUME NoFalseEnd, IInv, Lead, [Next]_vars
  PROVE  Lead'
<1>1. CASE Send \/ SenderStops \/ Read \/ UNCHANGED vars
  <2>1. UNCHANGED <<obj, start, phase, offset, header>>
    BY <1>1 DEF Send, SenderStops, Read, vars, parser
  <2>2. QED
    BY <2>1, LeadStays
<1>2. CASE BeginMember \/ FixedHeader \/ OptionalHeader \/ Inflate
  <2>1. phase' \notin Records
    BY <1>2 DEF BeginMember, FixedHeader, OptionalHeader, Inflate, Then, Records
  <2>2. QED
    BY <2>1, NoLead
<1>3. CASE CleanEnd \/ SplitterFails
  <2>1. phase' \notin Records
    BY <1>3 DEF CleanEnd, SplitterFails, Return, Records
  <2>2. QED
    BY <2>1, NoLead
<1>4. CASE RecordFails \/ NoRecord
  <2>1. phase' \notin Records
    BY <1>4 DEF RecordFails, NoRecord, Return, Then, Records
  <2>2. QED
    BY <2>1, NoLead
<1>5. CASE Trailer
  BY <1>5, TrailerLeads
<1>6. CASE SkipBlank \/ Version \/ HeaderLine \/ HeaderEnd \/ Block \/ Terminator
  BY <1>6, SkipBlankLeads, VersionLeads, HeaderLineLeads, HeaderEndLeads, BlockLeads, TerminatorLeads
<1>7. QED
  BY <1>1, <1>2, <1>3, <1>4, <1>5, <1>6 DEF Next, Sender, Parser

-----------------------------------------------------------------------------
(* The stream: what has been read was sent before.                         *)
LEMMA ReadWasSent ==
  ASSUME Streamed
  PROVE  raw_pos <= sent
<1> DEFINE n == Len(channel)
<1>1. PICK at : Underway(at)
  BY DEF Streamed
<1>2. n \in Nat /\ \A i \in 1..n : Len(channel[i]) \in Nat
  <2>1. channel \in Seq(Seq(Unit))
    BY DEF Streamed
  <2>2. QED
    BY <2>1
<1>3. /\ at \in [1..(n + 1) -> Nat] /\ at[1] = raw_pos /\ at[n + 1] = sent
      /\ \A i \in 1..n : at[i + 1] = at[i] + Len(channel[i])
  BY <1>1 DEF Underway
<1> DEFINE Bad == {k \in 1..(n + 1) : ~(at[1] <= at[k])}
<1>4. SUFFICES ASSUME Bad # {} PROVE FALSE
  <2>1. n + 1 \notin Bad
    BY <1>4
  <2> HIDE DEF n
  <2>2. n + 1 \in 1..(n + 1)
    BY <1>2
  <2>3. at[1] <= at[n + 1]
    BY <2>1, <2>2
  <2>4. QED
    BY <2>3, <1>3
<1> HIDE DEF n
<1>5. PICK k \in Bad : \A l \in Bad : k <= l
  <2>1. Bad \subseteq Nat
    BY <1>2
  <2> HIDE DEF Bad
  <2>2. QED
    BY <1>4, <2>1, Least
<1>6. k \in 1..(n + 1) /\ ~(at[1] <= at[k])
  BY <1>5
<1>7. k # 1
  <2>1. at[1] \in Nat
    BY <1>2, <1>3
  <2>2. QED
    BY <2>1, <1>6
<1>8. k - 1 \in 1..n /\ (k - 1) + 1 = k /\ k - 1 \in 1..(n + 1) /\ ~(k <= k - 1) /\ 1 \in 1..(n + 1)
  BY <1>2, <1>6, <1>7
<1>9. at[1] <= at[k - 1]
  BY <1>5, <1>8
<1>10. at[k] = at[k - 1] + Len(channel[k - 1]) /\ Len(channel[k - 1]) \in Nat
  BY <1>2, <1>3, <1>8
<1>11. at[1] \in Nat /\ at[k - 1] \in Nat /\ at[k] \in Nat
  BY <1>3, <1>6, <1>8
<1>12. QED
  BY <1>6, <1>9, <1>10, <1>11

(* The task that forwards and the thread that parses.                      *)
Flow ==
  /\ sending \in BOOLEAN /\ reading \in BOOLEAN /\ (reading <=> phase # "done")
  /\ Len(channel) <= Capacity
  /\ reading /\ ~sending => sent = cut

(* The sender starts with room in the channel.                             *)
LEMMA FlowInit == Init => Flow
<1> SUFFICES ASSUME Init PROVE Flow
  OBVIOUS
<1>1. sending = TRUE /\ reading = TRUE /\ channel = <<>> /\ phase # "done"
  BY DEF Init
<1>2. Capacity \in Nat /\ Len(channel) = 0
  BY <1>1, StreamAssumption
<1>3. QED
  BY <1>1, <1>2 DEF Flow

(* A chunk is sent only when there is room; the sender stops at the end.   *)
LEMMA FlowNext ==
  ASSUME IInv, Flow, [Next]_vars
  PROVE  Flow'
<1>1. channel \in Seq(Seq(Unit)) /\ Len(channel) \in Nat /\ Capacity \in Nat
  <2>1. channel \in Seq(Seq(Unit))
    BY DEF IInv, Streamed
  <2>2. QED
    BY <2>1, StreamAssumption
<1>2. CASE Send
  <2>1. sending /\ reading /\ Len(channel) < Capacity /\ UNCHANGED <<sending, reading, phase, cut>>
    BY <1>2 DEF Send, parser
  <2>2. PICK c : channel' = Append(channel, c)
    BY <1>2 DEF Send
  <2>3. Len(channel') = Len(channel) + 1
    BY <2>2, <1>1, AppendProperties
  <2>4. QED
    BY <2>1, <2>3, <1>1 DEF Flow
<1>3. CASE SenderStops
  BY <1>3 DEF Flow, SenderStops, parser
<1>4. CASE Read
  <2>1. channel # <<>> /\ channel' = Tail(channel) /\ UNCHANGED <<cut, sent, sending, reading, phase>>
    BY <1>4 DEF Read
  <2>2. Len(channel') = Len(channel) - 1
    BY <2>1, <1>1, HeadTailProperties
  <2>3. QED
    BY <2>1, <2>2, <1>1 DEF Flow
<1>5. CASE UNCHANGED vars
  BY <1>5 DEF Flow, vars, parser
<1>6. CASE CleanEnd \/ SplitterFails
  BY <1>6 DEF CleanEnd, SplitterFails, Return, Here, Flow
<1>7. CASE RecordFails \/ NoRecord
  <2>1. reading /\ phase # "done"
    BY <1>7 DEF RecordFails, NoRecord, Malformed, Ready, AtEnd
  <2>2. UNCHANGED <<obj, cut, sent, sending, channel>>
    BY <1>7 DEF RecordFails, NoRecord, Return, Here
  <2>3. (phase' = "done" /\ reading' = FALSE) \/ (phase' = "member" /\ reading' = reading)
    BY <1>7 DEF RecordFails, NoRecord, Return, Then
  <2>4. QED
    BY <2>1, <2>2, <2>3 DEF Flow
<1>8. CASE BeginMember \/ FixedHeader \/ OptionalHeader \/ Inflate \/ Trailer
  <2>1. /\ UNCHANGED <<obj, cut, sent, sending, channel, reading>> /\ reading
        /\ phase' # "done"
    BY <1>8 DEF BeginMember, FixedHeader, OptionalHeader, Inflate, Trailer, InMember, Here, Then, Ready
  <2>2. QED
    BY <2>1 DEF Flow
<1>9. CASE SkipBlank \/ Version \/ HeaderLine \/ HeaderEnd \/ Block \/ Terminator
  <2>1. /\ UNCHANGED <<obj, cut, sent, sending, channel, reading>> /\ reading
        /\ phase' # "done"
    BY <1>9 DEF SkipBlank, Version, HeaderLine, HeaderEnd, Block, Terminator, Here, Then, Ready
  <2>2. QED
    BY <2>1 DEF Flow
<1>10. QED
  BY <1>2, <1>3, <1>4, <1>5, <1>6, <1>7, <1>8, <1>9 DEF Next, Sender, Parser

(* Where the parser is: behind the begin of its member, and in memory it   *)
(* holds what is left of the member's text.                                *)
Along ==
  /\ start <= pos /\ offset \in Nat
  /\ obj.gz /\ phase \in Records => Len(text) \in Nat /\ offset + Len(text) = Len(TextNow)

(* Nothing is read at first.                                               *)
LEMMA AlongInit == Init => Along
<1> SUFFICES ASSUME Init PROVE Along
  OBVIOUS
<1>1. start = 0 /\ raw_pos = 0 /\ buf = <<>> /\ offset = 0
      /\ phase = (IF obj.gz THEN "member" ELSE "record")
  BY DEF Init
<1>2. pos = 0
  <2>1. Len(buf) = 0
    BY <1>1
  <2>2. QED
    BY <2>1, <1>1 DEF pos
<1>3. ~(obj.gz /\ phase \in Records)
  BY <1>1 DEF Records
<1>4. QED
  BY <1>1, <1>2, <1>3 DEF Along

(* Reading consumes want units of the input.                               *)
LEMMA PosConsumes ==
  ASSUME IInv, Ready, Here, buf' = (IF InMemory THEN buf ELSE Rest)
  PROVE  pos' = (IF InMemory THEN pos ELSE pos + want)
<1>1. UNCHANGED <<obj, cut, sent, channel, raw_pos>>
  BY DEF Here
<1>2. CASE InMemory
  <2>1. buf' = buf
    BY <1>2
  <2>2. QED
    BY <1>1, <1>2, <2>1 DEF pos
<1>3. CASE ~InMemory
  <2>1. Len(buf) >= want /\ buf' = SubSeq(buf, want + 1, Len(buf))
    BY <1>3 DEF Ready, Input, Rest
  <2>2. pos' = pos + want
    BY <2>1, <1>1, ConsumeStep DEF IInv
  <2>3. QED
    BY <2>2, <1>3
<1>4. QED
  BY <1>2, <1>3

(* The parser never goes back.                                             *)
LEMMA PosGrows ==
  ASSUME IInv, [Next]_vars
  PROVE  pos' \in Nat /\ pos <= pos'
<1>1. pos \in Nat /\ want \in Nat
  BY ObjectIs DEF IInv
<1>2. SUFFICES pos' = pos \/ pos' = pos + want
  BY <1>1
<1>3. CASE UNCHANGED <<raw_pos, buf>>
  BY <1>3 DEF pos
<1>4. CASE Read
  BY <1>4, ReadStep DEF IInv
<1>5. ASSUME Ready, Here, buf' = (IF InMemory THEN buf ELSE Rest)
      PROVE  pos' = pos \/ pos' = pos + want
  BY <1>5, PosConsumes
<1>6. CASE Send \/ SenderStops \/ BeginMember \/ CleanEnd \/ SplitterFails \/ RecordFails \/ NoRecord \/ UNCHANGED vars
  <2>1. UNCHANGED <<raw_pos, buf>>
    BY <1>6 DEF Send, SenderStops, BeginMember, CleanEnd, SplitterFails, RecordFails, NoRecord,
                Return, InMember, Here, vars, parser
  <2>2. QED
    BY <2>1, <1>3
<1>7. CASE OptionalHeader \/ Inflate
  <2>1. ~InMemory /\ Ready /\ Here /\ buf' = Rest
    BY <1>7 DEF OptionalHeader, Inflate, InMember, InMemory
  <2>2. QED
    BY <2>1, <1>5
<1>8. CASE FixedHeader \/ Trailer \/ SkipBlank \/ Version \/ HeaderLine \/ HeaderEnd \/ Block \/ Terminator
  <2>1. Ready /\ Here /\ Consume
    BY <1>8 DEF FixedHeader, Trailer, SkipBlank, Version, HeaderLine, HeaderEnd, Block, Terminator, InMember
  <2>2. QED
    BY <2>1, <1>5 DEF Consume
<1>9. QED
  BY <1>4, <1>6, <1>7, <1>8 DEF Next, Sender, Parser

(* A step of the reader in memory.                                         *)
LEMMA AlongReads ==
  ASSUME IInv, Along, phase \in Records, phase' \in Records, Ready, Consume, Here,
         offset' = offset + want, start' = start
  PROVE  /\ offset' \in Nat
         /\ obj'.gz /\ phase' \in Records => Len(text') \in Nat /\ offset' + Len(text') = Len(TextNow')
<1>1. obj' = obj /\ obj.gz \in BOOLEAN /\ want \in Nat /\ offset \in Nat
  BY ObjectIs DEF IInv, Here, Along
<1>2. offset' \in Nat
  BY <1>1
<1>3. ASSUME obj.gz PROVE Len(text') \in Nat /\ offset' + Len(text') = Len(TextNow')
  <2>1. Input' = SubSeq(Input, want + 1, Len(Input))
    BY <1>1, Taken
  <2>2. Input = text /\ Input' = text'
    BY <1>1, <1>3 DEF Input, InMemory, Records
  <2>3. text \in Seq(Unit)
    <3>1. Reads(TextNow)
      BY ReadsNow
    <3>2. QED
      BY <3>1, <2>2 DEF Reads, Parsed, Window
  <2>4. Len(text) >= want /\ Len(text) \in Nat
    BY <2>2, <2>3 DEF Ready
  <2>5. Len(text') = Len(text) - want
    BY <2>1, <2>2, <2>3, <2>4, <1>1, SubSeqProperties
  <2>6. offset + Len(text) = Len(TextNow)
    BY <1>3 DEF Along
  <2>7. TextNow' = TextNow
    BY <1>1, NowSame
  <2> DEFINE a == Len(text)
             b == Len(text')
             c == Len(TextNow)
  <2>8. a \in Nat /\ b = a - want /\ offset + a = c /\ want <= a
    BY <2>4, <2>5, <2>6
  <2> HIDE DEF a, b, c
  <2>9. b \in Nat /\ offset' + b = c
    BY <2>8, <1>1
  <2>10. QED
    BY <2>7, <2>9 DEF b, c
<1>4. QED
  BY <1>1, <1>2, <1>3

(* What the reader consumes in memory is what its text gets shorter by.    *)
LEMMA AlongNext ==
  ASSUME IInv, Along, [Next]_vars
  PROVE  Along'
<1>1. pos \in Nat /\ pos' \in Nat /\ pos <= pos' /\ start \in Nat /\ start <= pos /\ offset \in Nat
      /\ want \in Nat
  BY PosGrows, ObjectIs DEF IInv, Along
<1>2. start' = start => start' <= pos'
  BY <1>1
<1>3. CASE Send \/ SenderStops \/ Read \/ UNCHANGED vars
  <2>1. UNCHANGED <<obj, start, phase, offset, text>>
    BY <1>3 DEF Send, SenderStops, Read, vars, parser
  <2>2. TextNow' = TextNow
    BY <2>1, NowSame
  <2>3. QED
    BY <2>1, <2>2, <1>2 DEF Along
<1>4. CASE BeginMember
  <2>1. start' = pos /\ phase' = "fixed" /\ offset' = offset
    BY <1>4 DEF BeginMember, Then, InMember
  <2>2. phase' \notin Records
    BY <2>1 DEF Records
  <2>3. QED
    BY <2>1, <2>2, <1>1 DEF Along
<1>5. CASE FixedHeader \/ OptionalHeader \/ Inflate \/ CleanEnd \/ SplitterFails \/ RecordFails \/ NoRecord
  <2>1. start' = start /\ offset' = offset
    BY <1>5 DEF FixedHeader, OptionalHeader, Inflate, CleanEnd, SplitterFails, RecordFails, NoRecord,
                InMember, Return
  <2>2. phase' \notin Records
    BY <1>5 DEF FixedHeader, OptionalHeader, Inflate, CleanEnd, SplitterFails, RecordFails, NoRecord,
                Then, Return, Records
  <2>3. QED
    BY <2>1, <2>2, <1>1, <1>2 DEF Along
<1>6. CASE Trailer
  <2>1. phase = "trailer" /\ start' = start /\ offset' = 0 /\ obj' = obj /\ text' = text
    BY <1>6 DEF Trailer, Here, Consume, InMemory
  <2>2. ASSUME obj.gz PROVE text = TextNow /\ Len(text) \in Nat
    <3>1. Which \in 1..Len(obj.parts) /\ Framed(Which)
      BY <2>1, <2>2, WhichFramed
    <3>2. text = PartText(obj, Which)
      BY <3>1, <2>1 DEF Framed
    <3>3. PartText(obj, Which) \in Seq(TextUnit)
      BY <3>1, <2>2, MemberAt
    <3>4. QED
      BY <3>2, <3>3, <2>2 DEF TextNow, TextOf
  <2>3. TextNow' = TextNow
    BY <2>1, NowSame
  <2>4. QED
    BY <2>1, <2>2, <2>3, <1>2 DEF Along
<1>7. CASE SkipBlank \/ Version \/ HeaderLine \/ HeaderEnd \/ Block
  <2>1. /\ phase \in Records /\ phase' \in Records /\ Ready /\ Consume /\ Here /\ start' = start
    BY <1>7 DEF SkipBlank, Version, HeaderLine, HeaderEnd, Block, Then, Records
  <2>2. Reads(TextNow)
    BY <2>1, ReadsNow
  <2>3. phase # "block" => want = 1
    <3>1. phase = "record" \/ phase = "header" \/ phase = "block"
      BY <1>7 DEF SkipBlank, Version, HeaderLine, HeaderEnd, Block
    <3>2. QED
      BY <2>2, <3>1 DEF Reads, Parsed
  <2>4. offset' = offset + want
    BY <1>7, <2>3 DEF SkipBlank, Version, HeaderLine, HeaderEnd, Block
  <2>5. QED
    BY <2>1, <2>4, <1>2, AlongReads DEF Along
<1>8. CASE Terminator
  <2>1. /\ phase = "terminator" /\ phase \in Records /\ Ready /\ Consume /\ Here /\ start' = start
        /\ offset' = offset + 2 /\ phase' = (IF obj.gz THEN "member" ELSE "record") /\ obj' = obj
    BY <1>8 DEF Terminator, Then, Records, Here
  <2>2. ~(obj'.gz /\ phase' \in Records)
    BY <2>1 DEF Records
  <2>3. QED
    BY <2>1, <2>2, <1>1, <1>2 DEF Along
<1>9. QED
  BY <1>3, <1>4, <1>5, <1>6, <1>7, <1>8 DEF Next, Sender, Parser

(* At the end of the stream everything that arrived has been read; at the  *)
(* end of a member, all of it.                                             *)
LEMMA EndReached ==
  ASSUME IInv, Flow, Along, AtEnd
  PROVE  /\ ~InMemory => cut < pos + want
         /\ InMemory => Len(TextNow) < offset + want
<1>1. want \in Nat /\ pos \in Nat /\ Len(buf) \in Nat /\ raw_pos \in Nat /\ pos + Len(buf) = raw_pos
  <2>1. want \in Nat /\ pos \in Nat /\ Len(buf) \in Nat /\ raw_pos \in Nat /\ Len(buf) <= raw_pos
    BY ObjectIs DEF IInv, Streamed
  <2>2. QED
    BY <2>1 DEF pos
<1>2. ASSUME ~InMemory PROVE cut < pos + want
  <2>1. reading /\ Len(buf) < want /\ channel = <<>> /\ ~sending
    BY <1>2 DEF AtEnd, Input
  <2>2. sent = cut
    BY <2>1 DEF Flow
  <2>3. raw_pos = sent
    <3>1. PICK at : Underway(at)
      BY DEF IInv, Streamed
    <3>2. Len(channel) + 1 = 1
      BY <2>1
    <3>3. QED
      BY <3>1, <3>2 DEF Underway
  <2>4. QED
    BY <1>1, <2>1, <2>2, <2>3
<1>3. ASSUME InMemory PROVE Len(TextNow) < offset + want
  <2>1. Len(text) < want /\ obj.gz /\ phase \in Records
    BY <1>3 DEF AtEnd, Input, InMemory, Records
  <2>2. offset + Len(text) = Len(TextNow) /\ offset \in Nat /\ Len(text) \in Nat
    BY <2>1 DEF Along
  <2>3. QED
    BY <1>1, <2>1, <2>2
<1>4. QED
  BY <1>2, <1>3

-----------------------------------------------------------------------------
(* Where an element stops the reader.                                      *)
Reached == IF phase = "record" THEN offset ELSE header.offset - 1
Refused(y) ==
  /\ y \in ElementsNow /\ From(obj, y) = Reached
  /\ PassedUpTo(obj, ElementsNow, Reached)
  /\ ElementAt(obj, y).kind # "blank"
  /\ ~(IsRecord(obj, y) /\ Sound(ElementAt(obj, y))) \/ (~obj.gz /\ cut < To(obj, y))

(* The record at hand is refused if it is not sound or does not arrive.    *)
LEMMA RecordRefused ==
  ASSUME IInv, Lead, phase \in Records \ {"record"},
         ~Sound(ElementAt(obj, header.of)) \/ (~obj.gz /\ cut < To(obj, header.of))
  PROVE  Refused(header.of)
<1>1. /\ PassedUpTo(obj, ElementsNow, header.offset - 1)
      /\ header.of \in ElementsNow /\ IsRecord(obj, header.of)
      /\ From(obj, header.of) = header.offset - 1
  BY DEF Lead
<1>2. Reached = header.offset - 1
  BY DEF Reached
<1>3. ElementAt(obj, header.of).kind # "blank"
  BY <1>1 DEF IsRecord, ElementAt, Captured
<1>4. QED
  BY <1>1, <1>2, <1>3 DEF Refused

(* A line that is no version line and not empty.                           *)
LEMMA LineRefused ==
  ASSUME IInv, Lead, phase = "record", Ready, Input[1].line \notin {"blank", "version"}
  PROVE  \E y : Refused(y)
<1> DEFINE T == TextNow
<1>1. phase \in Records /\ Reads(T) /\ Len(T) \in Nat /\ offset \in Nat
  BY ReadsNow DEF Records
<1>2. want = 1 /\ Len(Input) >= 1
  BY <1>1 DEF Reads, Parsed, Ready
<1>3. Input[1] = T[offset + 1] /\ offset + 1 \in 1..Len(T)
  BY <1>1, <1>2, First
<1>4. PassedUpTo(obj, ElementsNow, offset) /\ offset < Len(T)
  BY <1>1, <1>3 DEF Lead
<1>5. PICK x \in ElementsNow : From(obj, x) = offset
  BY <1>1, <1>4, NextElement DEF T
<1>6. ~IsRecord(obj, x)
  <2>1. ASSUME IsRecord(obj, x) PROVE FALSE
    <3>1. T[offset + 1] = [line |-> "version", value |-> x]
      BY <1>5, <2>1, RecordAt
    <3>2. T[offset + 1].line = "version"
      BY <3>1
    <3>3. QED
      BY <3>2, <1>3
  <2>2. QED
    BY <2>1
<1>7. ElementAt(obj, x).kind # "blank"
  BY <1>3, <1>5, <1>6, LineAt
<1>8. Refused(x)
  BY <1>4, <1>5, <1>6, <1>7 DEF Refused, Reached
<1>9. QED
  BY <1>8

(* A header that is too long, has a line that is none or no usable length. *)
LEMMA HeaderRefused ==
  ASSUME IInv, Lead, phase = "header", Ready,
         \/ header.size >= MaxHeader
         \/ Input[1].line \notin {"field", "length", "folded", "blank"}
         \/ Input[1].line = "blank" /\ header.length = <<>>
  PROVE  Refused(header.of)
<1> DEFINE n == offset - header.offset
           h == HeadNow
           r == ElementAt(obj, header.of)
<1>1. phase \in Records \ {"record"} /\ phase \in Records
  BY DEF Records
<1>2. want = 1 /\ Len(Input) >= 1
  <2>1. Reads(TextNow)
    BY <1>1, ReadsNow
  <2>2. QED
    BY <2>1 DEF Reads, Parsed, Ready
<1>3. /\ n \in Nat /\ n <= Len(h) /\ h \in HeadType /\ Len(h) \in Nat
      /\ n < Len(h) => Input[1] = h[n + 1] /\ Input[1].line \in HeaderLines
      /\ n = Len(h) => Input[1].line = "blank"
      /\ ReadSoFar(h, n, header)
  BY <1>2, HeaderAt
<1>4. header.of \in ElementsNow /\ IsRecord(obj, header.of)
  BY <1>1 DEF Lead
<1>5. r.size \in Nat /\ r.head = h
  BY <1>4, RecordAt DEF HeadNow
<1>6. Sound(r) <=> Len(h) < MaxHeader /\ FieldLines(h, Len(h)) /\ Says(h, Len(h), r.size)
  BY <1>3, <1>5, SoundIs
<1>7. header.size = n /\ LengthIs(h, n, header.length, header.last) /\ MaxHeader \in Nat
  BY <1>3, StreamAssumption DEF ReadSoFar
<1>8. ~Sound(r)
  <2> HIDE DEF n, h, r
  <2>1. CASE header.size >= MaxHeader
    <3>1. ~(Len(h) < MaxHeader)
      BY <1>3, <1>7, <2>1
    <3>2. QED
      BY <3>1, <1>6
  <2>2. CASE Input[1].line \notin {"field", "length", "folded", "blank"}
    <3>1. n # Len(h)
      BY <1>3, <2>2
    <3>2. n < Len(h)
      BY <3>1, <1>3
    <3>3. n + 1 \in 1..Len(h) /\ h[n + 1].line \notin {"field", "length", "folded"}
      BY <3>2, <1>3, <2>2
    <3>4. ~FieldLines(h, Len(h))
      BY <3>3 DEF FieldLines
    <3>5. QED
      BY <3>4, <1>6
  <2>3. CASE Input[1].line = "blank" /\ header.length = <<>>
    <3>1. ~(Input[1].line \in HeaderLines)
      BY <2>3 DEF HeaderLines
    <3>2. n = Len(h)
      BY <3>1, <1>3
    <3>3. ~Says(h, n, r.size)
      BY <1>5, <1>7, <2>3 DEF LengthIs
    <3>4. QED
      BY <3>2, <3>3, <1>6
  <2>4. QED
    BY <2>1, <2>2, <2>3
<1>9. QED
  BY <1>1, <1>8, RecordRefused

(* The input is over in the middle of a record.                            *)
LEMMA EndRefused ==
  ASSUME IInv, Lead, Flow, Along, phase \in {"header", "block", "terminator"}, AtEnd
  PROVE  Refused(header.of)
<1> DEFINE x == header.of
           r == ElementAt(obj, x)
           T == TextNow
           v == header.length[1]
           b == From(obj, x) + Len(r.head) + 2
           size == r.size
           to == To(obj, x)
<1>1. phase \in Records \ {"record"} /\ phase \in Records
  BY DEF Records
<1>2. /\ Reads(T) /\ obj.gz \in BOOLEAN /\ offset \in Nat /\ Len(T) \in Nat
      /\ ~obj.gz => offset = pos
  BY <1>1, ReadsNow
<1>3. obj.gz <=> InMemory
  BY <1>2 DEF InMemory
<1>4. want \in Nat /\ cut \in Nat
  BY DEF IInv, Streamed
<1>5. /\ ~obj.gz => cut < offset + want
      /\ obj.gz => Len(T) < offset + want
  BY <1>2, <1>3, EndReached
<1>6. x \in ElementsNow /\ IsRecord(obj, x) /\ From(obj, x) = header.offset - 1
  BY <1>1 DEF Lead
<1>7. to \in Nat /\ to <= Len(T)
  BY <1>6, NowAt
<1>8. SUFFICES ~Sound(r) \/ (~obj.gz /\ cut < to)
  BY <1>1, RecordRefused
<1>9. CASE phase = "header"
  <2>1. want = 1
    BY <1>2, <1>9 DEF Reads, Parsed
  <2>2. /\ header.offset <= offset /\ offset - header.offset <= Len(HeadNow)
    BY <1>9 DEF Lead, ReadSoFar
  <2> DEFINE m == Len(r.head)
             a == From(obj, x)
  <2>3. HeadNow = r.head /\ m \in Nat /\ a \in Nat /\ to = a + m + 4 + size /\ size \in Nat
    BY <1>6, RecordAt DEF HeadNow
  <2>4. header.offset = a + 1
    <3>1. header.offset \in Nat
      BY DEF IInv, HeaderType
    <3>2. QED
      BY <3>1, <2>3, <1>6
  <2>5. offset - header.offset <= m
    BY <2>2, <2>3
  <2> HIDE DEF m, a, to, T, size, x, r
  <2>6. offset + 1 < to
    BY <2>3, <2>4, <2>5, <1>2
  <2>7. QED
    BY <2>1, <2>6, <1>2, <1>5, <1>7, <1>4
<1>10. CASE phase \in {"block", "terminator"}
  <2>1. /\ b \in Nat /\ v \in Nat /\ size \in Nat
        /\ offset = (IF phase = "block" THEN b ELSE b + v)
        /\ to = b + size + 2 /\ (Sound(r) <=> v = size)
    BY <1>10, BodyAt
  <2>2. want = (IF phase = "block" THEN v ELSE 2)
    BY <1>2, <1>10 DEF Reads, Parsed
  <2> HIDE DEF b, v, to, T, size, r, x
  <2>3. offset + want <= b + v + 2
    BY <2>1, <2>2
  <2>4. CASE v = size
    BY <2>1, <2>3, <2>4, <1>2, <1>4, <1>5, <1>7
  <2>5. CASE v # size
    BY <2>1, <2>5
  <2>6. QED
    BY <2>4, <2>5
<1>11. QED
  BY <1>9, <1>10

(* No two empty lines where the block should end.                          *)
LEMMA TerminatorRefused ==
  ASSUME IInv, Lead, phase = "terminator", Ready, Input[1].line # "blank" \/ Input[2].line # "blank"
  PROVE  Refused(header.of)
<1> DEFINE x == header.of
           r == ElementAt(obj, x)
           v == header.length[1]
           b == From(obj, x) + Len(r.head) + 2
           T == TextNow
           n == r.size
<1>1. phase \in Records /\ phase \in Records \ {"record"} /\ phase \in {"block", "terminator"}
  BY DEF Records
<1>2. /\ b \in Nat /\ v \in Nat /\ n \in Nat
      /\ offset = b + v /\ (Sound(r) <=> v = n)
      /\ T[b + n + 1].line = "blank" /\ T[b + n + 2].line = "blank"
  BY <1>1, BodyAt
<1>3. Reads(T)
  BY <1>1, ReadsNow
<1>4. want = 2 /\ Len(Input) >= 2
  BY <1>3 DEF Reads, Parsed, Ready
<1>5. Input[1] = T[offset + 1] /\ Input[2] = T[offset + 2]
  BY <1>3, <1>4, Second
<1>6. v # n
  BY <1>2, <1>5
<1>7. QED
  BY <1>1, <1>2, <1>6, RecordRefused

(* Malformed text is an element that is refused.                           *)
LEMMA MalformedIs ==
  ASSUME IInv, Lead, Flow, Along, Malformed
  PROVE  \E y : Refused(y)
<1>1. CASE phase = "record" /\ Ready /\ Input[1].line \notin {"blank", "version"}
  BY <1>1, LineRefused
<1>2. CASE /\ phase = "header" /\ Ready
           /\ \/ header.size >= MaxHeader
              \/ Input[1].line \notin {"field", "length", "folded", "blank"}
              \/ Input[1].line = "blank" /\ header.length = <<>>
  BY <1>2, HeaderRefused
<1>3. CASE phase \in {"header", "block", "terminator"} /\ AtEnd
  BY <1>3, EndRefused
<1>4. CASE phase = "terminator" /\ Ready /\ (Input[1].line # "blank" \/ Input[2].line # "blank")
  BY <1>4, TerminatorRefused
<1>5. QED
  BY <1>1, <1>2, <1>3, <1>4 DEF Malformed

-----------------------------------------------------------------------------
(* How far the rows account for the object: up to the member or the        *)
(* record at hand.                                                         *)
Through ==
  IF obj.gz THEN IF phase = "member" THEN pos ELSE start ELSE Reached

(* The captures in the first z units.                                      *)
Had(o, z) == {x \in Elements(o) : Reachable(o, x) /\ UnitsThrough(o, x) <= z}

(* RowsAreCaptures says the same of what arrived.                          *)
LEMMA ArrivedIs ==
  ASSUME obj \in Objects
  PROVE  Arrived = Had(obj, cut)
<1>1. Captures[obj] = {x \in Elements(obj) : Reachable(obj, x)}
  BY DEF Captures
<1>2. EndOf[obj] = [x \in Elements(obj) |-> UnitsThrough(obj, x)]
  BY DEF EndOf
<1>3. \A x \in Elements(obj) : EndOf[obj][x] = UnitsThrough(obj, x)
  BY <1>2
<1> HIDE DEF Captures, EndOf
<1>4. QED
  BY <1>1, <1>3 DEF Arrived, Had

(* No damaged member lies in the first z units.                            *)
Whole(o, z) ==
  \A p \in 1..Len(o.parts) : Starts(o)[p + 1] <= z => o.parts[p].damage = "none"

(* What precedes a capture that can be had is passed.                      *)
LEMMA PassedBefore ==
  ASSUME IInv, NEW x \in ElementsNow, Reachable(obj, x), NEW y \in ElementsNow, Before(y, x)
  PROVE  Passed(obj, y)
<1>1. /\ x \in Elements(obj) /\ y \in Elements(obj) /\ y[1] \in 1..Len(obj.parts)
      /\ y[2] \in 1..Len(obj.parts[y[1]].text)
      /\ x[1] \in 1..Len(obj.parts) /\ x[2] \in 1..Len(obj.parts[x[1]].text)
  BY NowAt
<1>2. Len(obj.parts) \in Nat /\ Len(obj.parts[y[1]].text) \in Nat /\ Len(obj.parts[x[1]].text) \in Nat
      /\ obj.gz \in BOOLEAN
  BY <1>1, ObjectIs, PartOf
<1>3. CASE obj.gz
  <2>1. x[1] = Which /\ y[1] = Which
    BY <1>3 DEF ElementsNow, Among
  <2> HIDE DEF Which
  <2>2. y[2] < x[2]
    BY <2>1, <1>1, <1>2 DEF Before
  <2>3. y[2] \in 1..(x[2] - 1)
    BY <2>2, <1>1, <1>2
  <2>4. obj.parts[x[1]].text[y[2]].kind = "blank"
    BY <2>3, <1>3 DEF Reachable
  <2>5. QED
    BY <2>1, <2>4 DEF Passed, ElementAt
<1>4. CASE ~obj.gz
  BY <1>1, <1>4 DEF Reachable, Passed, ElementAt
<1>5. QED
  BY <1>2, <1>3, <1>4

(* What lies before an element that is reached is passed.                  *)
LEMMA PassedBehind ==
  ASSUME IInv, NEW y \in ElementsNow, PassedUpTo(obj, ElementsNow, From(obj, y)),
         NEW x \in ElementsNow, Before(x, y)
  PROVE  Passed(obj, x) /\ To(obj, x) <= From(obj, y)
<1>1. obj \in Objects /\ x \in Elements(obj) /\ y \in Elements(obj)
  BY ObjectIs, NowAt
<1>2. To(obj, x) <= From(obj, y)
  BY <1>1, TilesInOrder DEF ElementsNow
<1>3. /\ To(obj, x) \in Nat /\ From(obj, x) \in Nat /\ From(obj, x) < To(obj, x)
      /\ From(obj, y) \in Nat
  BY NowAt
<1>4. ~(From(obj, y) <= From(obj, x))
  BY <1>2, <1>3
<1>5. Passed(obj, x)
  BY <1>4 DEF PassedUpTo
<1>6. QED
  BY <1>2, <1>5

(* A capture is no empty line.                                             *)
LEMMA ReachableRecord ==
  ASSUME NEW x, Reachable(obj, x)
  PROVE  /\ IsRecord(obj, x) /\ Sound(ElementAt(obj, x)) /\ KindOf(obj, x) = "capture"
         /\ ElementAt(obj, x).kind # "blank"
<1>1. IsRecord(obj, x) /\ Sound(ElementAt(obj, x)) /\ KindOf(obj, x) = "capture"
  BY DEF Reachable, ElementAt
<1>2. ElementAt(obj, x).kind # "blank"
  BY <1>1 DEF IsRecord, ElementAt, Captured
<1>3. QED
  BY <1>1, <1>2

(* A sound record that is reached can be had if it is a capture.           *)
LEMMA NextCapture ==
  ASSUME IInv, phase \in Records, obj.gz => Whole(obj, start),
         NEW x \in ElementsNow, PassedUpTo(obj, ElementsNow, From(obj, x)),
         IsRecord(obj, x), Sound(ElementAt(obj, x)), KindOf(obj, x) = "capture"
  PROVE  Reachable(obj, x)
<1>1. /\ x \in Elements(obj) /\ x = <<x[1], x[2]>>
      /\ x[1] \in 1..Len(obj.parts) /\ x[2] \in 1..Len(obj.parts[x[1]].text)
  BY NowAt
<1>2. Len(obj.parts) \in Nat /\ Len(obj.parts[x[1]].text) \in Nat /\ obj \in Objects /\ obj.gz \in BOOLEAN
  BY <1>1, ObjectIs, PartOf
<1>3. CASE obj.gz
  <2>1. x[1] = Which /\ Which \in 1..Len(obj.parts) /\ obj.parts[Which].damage = "none"
        /\ start = Starts(obj)[Which]
    BY <1>3, ReadsNow DEF ElementsNow, Among
  <2> HIDE DEF Which
  <2>2. ASSUME NEW e \in 1..(x[2] - 1) PROVE obj.parts[x[1]].text[e].kind = "blank"
    <3>1. e \in 1..Len(obj.parts[x[1]].text) /\ e < x[2] /\ e \in Nat
      <4>1. PICK n \in Nat : n = Len(obj.parts[x[1]].text)
        BY <1>2
      <4>2. x[2] \in 1..n
        BY <1>1, <4>1
      <4>3. e \in 1..n /\ e < x[2] /\ e \in Nat
        BY <4>2
      <4>4. QED
        BY <4>1, <4>3
    <3>2. PICK y : y = <<x[1], e>>
      OBVIOUS
    <3>3. y \in Elements(obj) /\ y[1] = x[1] /\ y[2] = e
      BY <3>1, <3>2, <1>1, <1>2, ElementIn
    <3>4. y \in ElementsNow /\ Before(y, x)
      BY <3>1, <3>3, <1>3, <2>1 DEF ElementsNow, Among, Before
    <3>5. Passed(obj, y)
      BY <3>4, PassedBehind
    <3>6. QED
      BY <3>3, <3>5, <1>3 DEF Passed, ElementAt
  <2>3. ASSUME NEW p \in 1..x[1] PROVE obj.parts[p].damage = "none"
    <3>1. p \in 1..Len(obj.parts) /\ (p = Which \/ p + 1 <= Which) /\ p + 1 \in 1..(Len(obj.parts) + 1)
          /\ Which \in 1..(Len(obj.parts) + 1)
      <4>1. PICK n \in Nat : n = Len(obj.parts)
        BY <1>2
      <4>2. Which \in 1..n /\ p \in 1..Which
        BY <2>1, <4>1
      <4>3. p \in 1..n /\ (p = Which \/ p + 1 <= Which) /\ p + 1 \in 1..(n + 1)
            /\ Which \in 1..(n + 1)
        BY <4>2
      <4>4. QED
        BY <4>1, <4>3
    <3>2. CASE p = Which
      BY <3>2, <2>1
    <3>3. CASE p + 1 <= Which
      <4>1. Starts(obj)[p + 1] <= Starts(obj)[Which]
        BY <3>1, <3>3, <1>2, StartsGrow
      <4>2. QED
        BY <4>1, <3>1, <2>1, <1>3 DEF Whole
    <3>4. QED
      BY <3>1, <3>2, <3>3
  <2>4. QED
    BY <1>3, <2>2, <2>3 DEF Reachable, ElementAt
<1>4. CASE ~obj.gz
  <2>1. ASSUME NEW y \in Elements(obj), Before(y, x) PROVE Passed(obj, y)
    <3>1. y \in ElementsNow
      BY <2>1, <1>4 DEF ElementsNow, Among
    <3>2. QED
      BY <2>1, <3>1, PassedBehind
  <2>2. QED
    BY <1>4, <2>1 DEF Reachable, ElementAt, Passed
<1>5. QED
  BY <1>2, <1>3, <1>4

(* Nothing that can be had lies behind what is refused: in a member not at *)
(* all.                                                                    *)
LEMMA NoneRefused ==
  ASSUME IInv, NEW y, Refused(y), NEW x \in ElementsNow, Reachable(obj, x)
  PROVE  ~obj.gz /\ (To(obj, x) <= Reached \/ cut < To(obj, x))
<1>1. /\ y \in ElementsNow /\ From(obj, y) = Reached
      /\ PassedUpTo(obj, ElementsNow, From(obj, y)) /\ ElementAt(obj, y).kind # "blank"
      /\ ~(IsRecord(obj, y) /\ Sound(ElementAt(obj, y))) \/ (~obj.gz /\ cut < To(obj, y))
  BY DEF Refused
<1>2. obj \in Objects /\ x \in Elements(obj) /\ y \in Elements(obj) /\ obj.gz \in BOOLEAN
      /\ cut \in Nat
  BY <1>1, ObjectIs, NowAt DEF IInv, Streamed
<1>3. IsRecord(obj, x) /\ Sound(ElementAt(obj, x)) /\ ElementAt(obj, x).kind # "blank"
  BY ReachableRecord
<1>4. CASE x = y
  BY <1>1, <1>3, <1>4
<1>5. CASE Before(y, x)
  <2>1. Passed(obj, y)
    BY <1>1, <1>5, PassedBefore
  <2>2. ~obj.gz /\ cut < To(obj, y)
    BY <2>1, <1>1 DEF Passed
  <2>3. To(obj, y) <= From(obj, x)
    BY <1>1, <1>2, <1>5, TilesInOrder DEF ElementsNow
  <2>4. /\ To(obj, y) \in Nat /\ From(obj, x) \in Nat /\ To(obj, x) \in Nat
        /\ From(obj, x) < To(obj, x)
    BY <1>1, NowAt
  <2>5. QED
    BY <2>2, <2>3, <2>4, <1>2
<1>6. CASE Before(x, y)
  <2>1. Passed(obj, x) /\ To(obj, x) <= From(obj, y)
    BY <1>1, <1>6, PassedBehind
  <2>2. ~obj.gz
    BY <2>1, <1>3 DEF Passed
  <2>3. QED
    BY <2>1, <2>2, <1>1
<1>7. QED
  BY <1>2, <1>4, <1>5, <1>6, OneBefore

(* What a member adds.                                                     *)
LEMMA MemberDone ==
  ASSUME IInv, obj.gz, phase \in Records
  PROVE  Had(obj, pos) = Had(obj, start) \cup {x \in ElementsNow : Reachable(obj, x)}
<1>1. /\ obj \in Objects /\ Which \in 1..Len(obj.parts)
      /\ pos = Starts(obj)[Which + 1] /\ start = Starts(obj)[Which]
  BY ReadsNow
<1>2. ElementsNow = {x \in Elements(obj) : x[1] = Which}
  BY DEF ElementsNow, Among
<1> HIDE DEF Which, ElementsNow
<1>3. \A x \in Elements(obj) : UnitsThrough(obj, x) <= pos <=> UnitsThrough(obj, x) <= start \/ x[1] = Which
  BY <1>1, ThroughMember
<1>4. QED
  BY <1>2, <1>3 DEF Had

(* What an element adds in a plain object.                                 *)
LEMMA ElementDone ==
  ASSUME IInv, ~obj.gz, NEW y \in ElementsNow
  PROVE  Had(obj, To(obj, y)) = Had(obj, From(obj, y)) \cup {x \in {y} : Reachable(obj, x)}
<1>1. obj \in Objects /\ ElementsNow = Elements(obj)
  BY ObjectIs DEF ElementsNow, Among
<1>2. ASSUME NEW x \in Elements(obj)
      PROVE  UnitsThrough(obj, x) <= To(obj, y) <=> UnitsThrough(obj, x) <= From(obj, y) \/ x = y
  <2>1. UnitsThrough(obj, x) = To(obj, x)
    BY <1>1, ThroughIs
  <2>2. /\ x \in ElementsNow /\ To(obj, x) \in Nat /\ From(obj, x) \in Nat /\ From(obj, x) < To(obj, x)
        /\ To(obj, y) \in Nat /\ From(obj, y) \in Nat /\ From(obj, y) < To(obj, y)
    BY <1>1, NowAt
  <2>3. CASE x = y
    BY <2>1, <2>2, <2>3
  <2>4. CASE Before(x, y)
    <3>1. To(obj, x) <= From(obj, y)
      BY <1>1, <2>2, <2>4, TilesInOrder DEF ElementsNow
    <3>2. QED
      BY <3>1, <2>1, <2>2
  <2>5. CASE Before(y, x)
    <3>1. To(obj, y) <= From(obj, x)
      BY <1>1, <2>2, <2>5, TilesInOrder DEF ElementsNow
    <3>2. x # y
      BY <3>1, <2>2
    <3>3. QED
      BY <3>1, <3>2, <2>1, <2>2
  <2>6. QED
    BY <1>1, <2>3, <2>4, <2>5, OneBefore
<1>3. y \in Elements(obj)
  BY <1>1
<1>4. QED
  BY <1>2, <1>3 DEF Had

-----------------------------------------------------------------------------
(* How far the rows account for the object, step by step.                  *)
LEMMA PosArrived ==
  ASSUME IInv
  PROVE  pos \in Nat /\ cut \in Nat /\ pos <= cut
<1>1. /\ pos \in Nat /\ raw_pos \in Nat /\ Len(buf) \in Nat /\ sent \in Nat /\ cut \in Nat
      /\ sent <= cut /\ raw_pos <= sent
  BY ObjectIs, ReadWasSent DEF IInv, Streamed
<1>2. pos = raw_pos - Len(buf)
  BY DEF pos
<1>3. QED
  BY <1>1, <1>2

(* pos depends on what is read and what is buffered.                       *)
LEMMA PosStays ==
  ASSUME UNCHANGED <<raw_pos, buf>>
  PROVE  pos' = pos
BY DEF pos

(* The splitter and a member's reader.                                     *)
LEMMA ThroughMoves ==
  ASSUME IInv, obj.gz, [Next]_vars, phase' # "done"
  PROVE  Through' = Through \/ (phase \in Records /\ Through' = pos)
<1>1. CASE Send \/ SenderStops \/ Read \/ UNCHANGED vars
  <2>1. UNCHANGED <<obj, start, phase>>
    BY <1>1 DEF Send, SenderStops, Read, vars, parser
  <2>2. pos' = pos
    <3>1. CASE Read
      BY <3>1, ReadStep DEF IInv
    <3>2. CASE Send \/ SenderStops \/ UNCHANGED vars
      <4>1. UNCHANGED <<raw_pos, buf>>
        BY <3>2 DEF Send, SenderStops, vars, parser
      <4>2. QED
        BY <4>1, PosStays
    <3>3. QED
      BY <1>1, <3>1, <3>2
  <2>3. QED
    BY <2>1, <2>2 DEF Through
<1>2. CASE BeginMember
  <2>1. phase = "member" /\ start' = pos /\ phase' = "fixed" /\ obj' = obj
    BY <1>2 DEF BeginMember, Then, InMember, Here
  <2>2. QED
    BY <2>1 DEF Through
<1>3. CASE FixedHeader \/ OptionalHeader \/ Inflate \/ Trailer
  <2>1. phase # "member" /\ phase' # "member" /\ start' = start /\ obj' = obj
    BY <1>3 DEF FixedHeader, OptionalHeader, Inflate, Trailer, Then, InMember, Here
  <2>2. QED
    BY <2>1 DEF Through
<1>4. CASE CleanEnd \/ SplitterFails
  BY <1>4 DEF CleanEnd, SplitterFails, Return
<1>5. CASE SkipBlank \/ Version \/ HeaderLine \/ HeaderEnd \/ Block
  <2>1. phase # "member" /\ phase' # "member" /\ start' = start /\ obj' = obj
    BY <1>5 DEF SkipBlank, Version, HeaderLine, HeaderEnd, Block, Then, Here
  <2>2. QED
    BY <2>1 DEF Through
<1>6. CASE Terminator \/ RecordFails \/ NoRecord
  <2>1. phase \in Records /\ phase' = "member" /\ obj' = obj
    BY <1>6 DEF Terminator, RecordFails, NoRecord, Malformed, Return, Then, Here, Records
  <2>2. UNCHANGED <<raw_pos, buf>>
    <3>1. CASE Terminator
      <4>1. InMemory /\ Consume /\ Here
        BY <3>1 DEF Terminator, InMemory
      <4>2. QED
        BY <4>1 DEF Consume, Here
    <3>2. CASE RecordFails \/ NoRecord
      BY <3>2 DEF RecordFails, NoRecord, Return, Here
    <3>3. QED
      BY <1>6, <3>1, <3>2
  <2>3. pos' = pos
    BY <2>2, PosStays
  <2>4. QED
    BY <2>1, <2>3 DEF Through
<1>7. QED
  BY <1>1, <1>2, <1>3, <1>4, <1>5, <1>6 DEF Next, Sender, Parser

(* A gzip object is read beyond a member only if it is not damaged.        *)
Undamaged == obj.gz /\ phase # "done" => Whole(obj, Through)

(* No member lies in nothing.                                              *)
LEMMA UndamagedInit == Init => Undamaged
<1> SUFFICES ASSUME Init, obj.gz, NEW p \in 1..Len(obj.parts), Starts(obj)[p + 1] <= Through
             PROVE  FALSE
  BY DEF Undamaged, Whole
<1>1. obj \in Objects /\ phase = "member" /\ raw_pos = 0 /\ buf = <<>>
  BY DEF Init
<1>2. Len(buf) = 0
  BY <1>1
<1>3. Through = 0
  <2>1. raw_pos = 0
    BY <1>1
  <2>2. pos = 0
    BY <2>1, <1>2 DEF pos
  <2>3. QED
    BY <2>2, <1>1 DEF Through
<1>4. Len(obj.parts) \in Nat
  BY <1>1, PartsCut
<1>5. p \in 1..(Len(obj.parts) + 1) /\ p + 1 \in 1..(Len(obj.parts) + 1) /\ p < p + 1
  BY <1>4
<1>6. Starts(obj)[p] < Starts(obj)[p + 1]
  BY <1>1, <1>5, StartsApart
<1>7. Starts(obj)[p] \in Nat /\ Starts(obj)[p + 1] \in Nat
  BY <1>1, <1>5, StartsGrow
<1>8. QED
  BY <1>3, <1>6, <1>7

(* The splitter hands out no damaged member.                               *)
LEMMA UndamagedNext ==
  ASSUME IInv, Undamaged, [Next]_vars
  PROVE  Undamaged'
<1> SUFFICES ASSUME obj'.gz, phase' # "done" PROVE Whole(obj', Through')
  BY DEF Undamaged
<1>1. obj' = obj /\ phase # "done"
  <2>1. obj' = obj
    BY DEF Next, Sender, Parser, Send, SenderStops, Read, BeginMember, CleanEnd, FixedHeader,
           OptionalHeader, Inflate, Trailer, SplitterFails, SkipBlank, Version, HeaderLine,
           HeaderEnd, Block, Terminator, RecordFails, NoRecord, Return, InMember, Here, vars
  <2>2. phase = "done" => phase' = "done"
    BY DEF Next, Sender, Parser, Send, SenderStops, Read, BeginMember, CleanEnd, FixedHeader,
           OptionalHeader, Inflate, Trailer, SplitterFails, SkipBlank, Version, HeaderLine,
           HeaderEnd, Block, Terminator, RecordFails, NoRecord, Malformed, vars, parser
  <2>3. QED
    BY <2>1, <2>2
<1>2. obj.gz /\ Whole(obj, Through)
  BY <1>1 DEF Undamaged
<1>3. CASE Through' = Through
  BY <1>1, <1>2, <1>3
<1>4. CASE phase \in Records /\ Through' = pos
  <2>1. /\ obj \in Objects /\ Which \in 1..Len(obj.parts) /\ obj.parts[Which].damage = "none"
        /\ pos = Starts(obj)[Which + 1] /\ start = Starts(obj)[Which]
    BY <1>2, <1>4, ReadsNow
  <2>2. Through = start
    BY <1>2, <1>4 DEF Through, Records
  <2> HIDE DEF Which
  <2>3. ASSUME NEW p \in 1..Len(obj.parts), Starts(obj)[p + 1] <= pos
        PROVE  obj.parts[p].damage = "none"
    <3>1. Len(obj.parts) \in Nat
      BY <2>1, PartsCut
    <3>2. Which + 1 \in 1..(Len(obj.parts) + 1) /\ p + 1 \in 1..(Len(obj.parts) + 1)
          /\ Which \in 1..(Len(obj.parts) + 1)
      BY <2>1, <3>1
    <3>3. /\ Starts(obj)[Which + 1] \in Nat /\ Starts(obj)[p + 1] \in Nat
          /\ Which + 1 < p + 1 => Starts(obj)[Which + 1] < Starts(obj)[p + 1]
      BY <1>2, <2>1, <3>2, StartsGrow, StartsApart
    <3>4. ~(Which + 1 < p + 1)
      BY <3>3, <2>1, <2>3
    <3>5. p = Which \/ p + 1 <= Which
      BY <3>4, <3>1, <2>1
    <3>6. CASE p + 1 <= Which
      <4>1. Starts(obj)[p + 1] <= Starts(obj)[Which]
        BY <3>2, <3>6, <2>1, StartsGrow
      <4>2. QED
        BY <4>1, <1>2, <2>1, <2>2 DEF Whole
    <3>7. QED
      BY <3>5, <3>6, <2>1
  <2>4. QED
    BY <1>1, <1>4, <2>3 DEF Whole
<1>5. QED
  BY <1>1, <1>2, <1>3, <1>4, ThroughMoves

(* Damage is where the splitter fails: no member that is sound and all     *)
(* there makes it fail.                                                    *)
LEMMA SplitterLoses ==
  ASSUME IInv, Flow, Along, SplitterFails
  PROVE  \A x \in Elements(obj) : Reachable(obj, x) /\ UnitsThrough(obj, x) <= cut =>
           UnitsThrough(obj, x) <= start
<1>1. phase \in {"fixed", "option", "data", "trailer"}
  BY DEF SplitterFails
<1>2. obj.gz /\ ~InMemory /\ phase \notin Records
  <2>1. obj.gz
    BY <1>1, ObjectIs DEF IInv, Plain, Records
  <2>2. QED
    BY <1>1, <2>1 DEF InMemory, Records
<1>3. PICK p : p = Which
  OBVIOUS
<1>4. p \in 1..Len(obj.parts) /\ Framed(p) /\ start = Starts(obj)[p]
  BY <1>1, <1>2, <1>3, WhichFramed
<1> DEFINE M == Member(obj, p)
           a == Starts(obj)[p]
           q == obj.parts[p].opts
           c == Carriers(obj, p)
           d == obj.parts[p].damage
<1>5. /\ a \in Nat /\ Len(M) \in Nat /\ MemberShape(M, obj, p)
      /\ \A k \in 1..Len(M) : Stored[obj][a + k] = M[k]
      /\ Starts(obj)[p + 1] = a + Len(M) /\ q \in Nat /\ c \in Nat /\ c >= 1
  BY <1>2, <1>4, MemberAt
<1>6. /\ 2 + q + c + 2 <= Len(M)
      /\ d # "magic" => M[1].packed = "magic"
      /\ \A i \in 1..c : M[2 + q + i].packed = "data"
  BY <1>5 DEF MemberShape
<1>7. pos \in Nat /\ want \in Nat /\ cut \in Nat
  BY PosArrived DEF IInv
<1>8. d = "none" => cut < Starts(obj)[p + 1]
  <2> SUFFICES ASSUME d = "none" PROVE cut < a + Len(M)
    BY <1>5
  <2>1. CASE phase = "fixed"
    <3>1. want = 2 /\ pos = a
      BY <1>4, <2>1 DEF Framed
    <3>2. CASE AtEnd
      <4>1. cut < pos + want
        BY <1>2, <3>2, EndReached
      <4> HIDE DEF a, M, q, c
      <4>2. QED
        BY <4>1, <3>1, <1>5, <1>6, <1>7
    <3>3. CASE Ready /\ buf[1].packed # "magic"
      <4>0. 1 \in Nat /\ 1 >= 1 /\ 1 <= want
        BY <3>1
      <4>1. buf[1] = Stored[obj][pos + 1]
        BY <1>2, <3>3, <4>0, NextUnit
      <4>2. 1 \in 1..Len(M)
        <5> HIDE DEF M, q, c
        <5>1. QED
          BY <1>5, <1>6
      <4>3. QED
        BY <4>1, <4>2, <3>1, <3>3, <1>5, <1>6
    <3>4. QED
      BY <2>1, <3>2, <3>3 DEF SplitterFails
  <2>2. CASE phase = "option"
    <3>1. want = q /\ pos = a + 2 /\ AtEnd
      BY <1>4, <2>2 DEF Framed, SplitterFails
    <3>2. cut < pos + want
      BY <1>2, <3>1, EndReached
    <3> HIDE DEF a, M, q, c
    <3>3. QED
      BY <3>1, <3>2, <1>5, <1>6, <1>7
  <2>3. CASE phase = "data"
    <3>1. want = 1 /\ \E i \in 0..c : Inflated(p, i)
      BY <1>4, <2>3 DEF Framed
    <3>2. PICK i \in 0..c : Inflated(p, i)
      BY <3>1
    <3>3. pos = a + 2 + q + i /\ (i = c => d = "deflate")
      BY <3>2 DEF Inflated
    <3>4. i + 1 \in 1..c /\ 2 + q + (i + 1) \in 1..Len(M) /\ pos + 1 = a + (2 + q + (i + 1))
      <4>1. i # c
        BY <3>3
      <4> HIDE DEF a, M, q, c, d
      <4>2. QED
        BY <4>1, <3>3, <1>5, <1>6, <1>7
    <3>5. CASE AtEnd
      <4>1. cut < pos + want
        BY <1>2, <3>5, EndReached
      <4> HIDE DEF a, M, q, c
      <4>2. QED
        BY <4>1, <3>1, <3>4, <1>5, <1>6, <1>7
    <3>6. CASE Ready /\ buf[1].packed # "data"
      <4>0. 1 \in Nat /\ 1 >= 1 /\ 1 <= want
        BY <3>1
      <4>1. buf[1] = Stored[obj][pos + 1]
        BY <1>2, <3>6, <4>0, NextUnit
      <4>2. Stored[obj][a + (2 + q + (i + 1))] = M[2 + q + (i + 1)]
        BY <3>4, <1>5
      <4>3. M[2 + q + (i + 1)].packed = "data"
        BY <3>4, <1>6
      <4>4. QED
        BY <4>1, <4>2, <4>3, <3>4, <3>6
    <3>7. QED
      BY <2>3, <3>5, <3>6 DEF SplitterFails
  <2>4. CASE phase = "trailer"
    <3>1. want = 2 /\ pos = a + 2 + q + c /\ AtEnd
      BY <1>4, <2>4 DEF Framed, SplitterFails
    <3>2. cut < pos + want
      BY <1>2, <3>1, EndReached
    <3> HIDE DEF a, M, q, c
    <3>3. QED
      BY <3>1, <3>2, <1>5, <1>6, <1>7
  <2>5. QED
    BY <1>1, <2>1, <2>2, <2>3, <2>4
<1>9. obj \in Objects /\ Len(obj.parts) \in Nat
  BY ObjectIs
<1> HIDE DEF M, a, q, c
<1> SUFFICES ASSUME NEW x \in Elements(obj), Reachable(obj, x), UnitsThrough(obj, x) <= cut
             PROVE  UnitsThrough(obj, x) <= start
  OBVIOUS
<1>10. UnitsThrough(obj, x) = Starts(obj)[x[1] + 1] /\ UnitsThrough(obj, x) \in Nat
  BY <1>2, <1>9, ThroughIs
<1>11. x[1] \in 1..Len(obj.parts)
  BY <1>9, ElementsAre
<1>12. /\ x[1] + 1 \in 1..(Len(obj.parts) + 1) /\ p \in 1..(Len(obj.parts) + 1)
       /\ p + 1 \in 1..(Len(obj.parts) + 1) /\ x[1] \in Nat /\ p \in Nat
  BY <1>4, <1>9, <1>11
<1>13. CASE x[1] + 1 <= p
  <2>1. Starts(obj)[x[1] + 1] <= Starts(obj)[p]
    BY <1>9, <1>12, <1>13, StartsGrow
  <2>2. QED
    BY <2>1, <1>4, <1>10
<1>14. CASE p <= x[1]
  <2>1. p \in 1..x[1]
    BY <1>4, <1>12, <1>14
  <2>2. d = "none"
    BY <2>1, <1>2 DEF Reachable
  <2>3. p + 1 <= x[1] + 1
    BY <1>12, <1>14
  <2>4. Starts(obj)[p + 1] <= Starts(obj)[x[1] + 1]
    BY <1>9, <1>12, <2>3, StartsGrow
  <2>5. Starts(obj)[p + 1] \in Nat
    BY <1>9, <1>12, StartsGrow
  <2>6. QED
    BY <2>2, <2>4, <2>5, <1>7, <1>8, <1>10
<1>15. QED
  BY <1>12, <1>13, <1>14

-----------------------------------------------------------------------------
(* The rows: those of the captures accounted for, in order.                *)
InOrder == \A i, j \in 1..Len(rows) : i < j => Before(rows[i].of, rows[j].of)
Got == InOrder /\ Found = (IF phase = "done" THEN Arrived ELSE Had(obj, Through))

(* No rows, and nothing to have them of.                                   *)
LEMMA GotInit == Init => Got
<1> SUFFICES ASSUME Init PROVE Got
  OBVIOUS
<1>1. /\ obj \in Objects /\ phase = (IF obj.gz THEN "member" ELSE "record") /\ raw_pos = 0
      /\ buf = <<>> /\ offset = 0 /\ rows = <<>>
  BY DEF Init
<1>2. obj.gz \in BOOLEAN
  BY <1>1, StreamAssumption
<1>3. Through = 0
  <2>1. raw_pos = 0 /\ Len(buf) = 0
    BY <1>1
  <2>2. pos = 0
    BY <2>1 DEF pos
  <2>3. QED
    BY <2>2, <1>1, <1>2 DEF Through, Reached
<1>4. Had(obj, 0) = {}
  <2> SUFFICES ASSUME NEW x \in Elements(obj), UnitsThrough(obj, x) <= 0 PROVE FALSE
    BY DEF Had
  <2>1. /\ UnitsThrough(obj, x) = (IF obj.gz THEN Starts(obj)[x[1] + 1] ELSE To(obj, x))
        /\ UnitsThrough(obj, x) \in Nat
    BY <1>1, ThroughIs
  <2>2. Len(obj.parts) \in Nat /\ x[1] \in 1..Len(obj.parts)
    BY <1>1, PartsCut, ElementsAre
  <2>3. CASE obj.gz
    <3>1. 1 \in 1..(Len(obj.parts) + 1) /\ x[1] + 1 \in 1..(Len(obj.parts) + 1) /\ 1 < x[1] + 1
      BY <2>2
    <3>2. Starts(obj)[1] < Starts(obj)[x[1] + 1] /\ Starts(obj)[1] \in Nat
      BY <1>1, <2>3, <3>1, StartsApart, StartsGrow
    <3>3. QED
      BY <2>1, <2>3, <3>2
  <2>4. CASE ~obj.gz
    <3>1. x \in Among(obj, 1)
      BY <2>4 DEF Among
    <3> DEFINE u == ElementText(obj, x[1], x[2])
    <3>2. From(obj, x) \in Nat /\ Len(u) \in Nat /\ Len(u) >= 1 /\ To(obj, x) = From(obj, x) + Len(u)
      BY <1>1, <3>1, Tiles
    <3> HIDE DEF u
    <3>3. QED
      BY <2>1, <2>4, <3>2
  <2>5. QED
    BY <1>2, <2>3, <2>4
<1>5. Len(rows) = 0
  BY <1>1
<1>6. Found = {} /\ InOrder
  BY <1>5 DEF Found, InOrder
<1>7. phase # "done"
  BY <1>1
<1>8. QED
  BY <1>3, <1>4, <1>6, <1>7 DEF Got

(* A step that adds no row.                                                *)
LEMMA GotStays ==
  ASSUME Got, rows' = rows, obj' = obj, phase # "done", phase' # "done",
         Had(obj, Through') = Had(obj, Through)
  PROVE  Got'
<1>1. Found' = Found /\ InOrder'
  BY DEF Found, InOrder, Got
<1>2. QED
  BY <1>1 DEF Got

(* The last one: nothing is missed that arrived.                           *)
LEMMA GotEnds ==
  ASSUME IInv, Got, rows' = rows, obj' = obj, cut' = cut, phase # "done", phase' = "done",
         Had(obj, cut) = Had(obj, Through)
  PROVE  Got'
<1>1. Found' = Found /\ InOrder'
  BY DEF Found, InOrder, Got
<1>2. Arrived' = Arrived
  BY DEF Arrived
<1>3. Arrived = Had(obj, cut)
  BY ArrivedIs, ObjectIs
<1>4. QED
  BY <1>1, <1>2, <1>3 DEF Got

(* Nothing changes.                                                        *)
LEMMA GotSame ==
  ASSUME Got, UNCHANGED <<rows, obj, cut, phase>>, Through' = Through
  PROVE  Got'
<1>1. Found' = Found /\ InOrder' /\ Arrived' = Arrived
  BY DEF Found, InOrder, Got, Arrived
<1>2. QED
  BY <1>1 DEF Got

(* Two ends of the object that hold the same captures.                     *)
LEMMA SameHad ==
  ASSUME NEW o, NEW a \in Nat, NEW b \in Nat, a <= b, o \in Objects,
         \A x \in Elements(o) : Reachable(o, x) /\ UnitsThrough(o, x) <= b => UnitsThrough(o, x) <= a
  PROVE  Had(o, b) = Had(o, a)
<1>1. \A x \in Elements(o) : UnitsThrough(o, x) <= a => UnitsThrough(o, x) <= b
  BY ThroughIs
<1>2. QED
  BY <1>1 DEF Had

(* The stream moves on, or the splitter, or a reader within a record.      *)
LEMMA GotStream ==
  ASSUME IInv, Got, Send \/ SenderStops \/ Read \/ UNCHANGED vars
  PROVE  Got'
<1>1. UNCHANGED <<rows, obj, cut, phase, start, offset, header>>
  BY DEF Send, SenderStops, Read, vars, parser, result
<1>2. pos' = pos
  <2>1. CASE Read
    BY <2>1, ReadStep DEF IInv
  <2>2. CASE Send \/ SenderStops \/ UNCHANGED vars
    <3>1. UNCHANGED <<raw_pos, buf>>
      BY <2>2 DEF Send, SenderStops, vars, parser
    <3>2. QED
      BY <3>1, PosStays
  <2>3. QED
    BY <2>1, <2>2
<1>3. Through' = Through
  BY <1>1, <1>2 DEF Through, Reached
<1>4. QED
  BY <1>1, <1>3, GotSame

(* A member is unpacked.                                                   *)
LEMMA GotSplits ==
  ASSUME IInv, Got, BeginMember \/ FixedHeader \/ OptionalHeader \/ Inflate \/ Trailer
  PROVE  Got'
<1>1. /\ rows' = rows /\ obj' = obj /\ phase \in {"member", "fixed", "option", "data", "trailer"}
      /\ phase' # "done"
  BY DEF BeginMember, FixedHeader, OptionalHeader, Inflate, Trailer, Then, InMember, Here, result
<1>2. obj.gz
  BY <1>1, ObjectIs DEF IInv, Plain, Records
<1>3. CASE BeginMember
  <2>1. phase = "member" /\ start' = pos /\ phase' = "fixed"
    BY <1>3 DEF BeginMember, Then
  <2>2. Through' = Through
    BY <2>1, <1>1, <1>2 DEF Through
  <2>3. QED
    BY <2>1, <2>2, <1>1, GotStays
<1>4. CASE FixedHeader \/ OptionalHeader \/ Inflate \/ Trailer
  <2>1. phase # "member" /\ phase # "done" /\ phase' # "member" /\ start' = start
    BY <1>4 DEF FixedHeader, OptionalHeader, Inflate, Trailer, Then
  <2>2. Through' = Through
    BY <2>1, <1>1, <1>2 DEF Through
  <2>3. QED
    BY <2>1, <2>2, <1>1, GotStays
<1>5. QED
  BY <1>3, <1>4

(* A record is begun and read.                                             *)
LEMMA GotReads ==
  ASSUME IInv, Got, Version \/ HeaderLine \/ HeaderEnd \/ Block
  PROVE  Got'
<1>1. /\ rows' = rows /\ obj' = obj /\ start' = start
      /\ phase \in Records /\ phase' \in Records \ {"record"}
  BY DEF Version, HeaderLine, HeaderEnd, Block, Then, Here, result, Records
<1>2. Reached' = Reached
  <2>1. header \in HeaderType /\ offset \in Nat
    BY <1>1, ReadsNow DEF IInv
  <2>2. CASE Version
    <3>1. /\ phase = "record" /\ phase' = "header"
          /\ header' = [NoHeader EXCEPT !.of = Input[1].value, !.offset = offset + 1]
      BY <2>2 DEF Version, Then
    <3>2. header'.offset = offset + 1
      BY <3>1 DEF NoHeader
    <3>3. (offset + 1) - 1 = offset
      BY <2>1
    <3>4. QED
      BY <3>1, <3>2, <3>3 DEF Reached
  <2>3. CASE HeaderLine \/ HeaderEnd \/ Block
    <3>1. phase # "record" /\ phase' # "record"
      BY <2>3, <1>1 DEF HeaderLine, HeaderEnd, Block
    <3>2. header'.offset = header.offset
      BY <2>1, <2>3 DEF HeaderLine, HeaderEnd, Block, HeaderType
    <3>3. QED
      BY <3>1, <3>2 DEF Reached
  <2>4. QED
    BY <2>2, <2>3
<1>3. phase # "member" /\ phase' # "member" /\ phase # "done" /\ phase' # "done"
  BY <1>1 DEF Records
<1>4. Through' = Through
  BY <1>1, <1>2, <1>3 DEF Through
<1>5. QED
  BY <1>1, <1>3, <1>4, GotStays

(* An empty line is no capture.                                            *)
LEMMA GotBlank ==
  ASSUME IInv, Lead, Got, SkipBlank
  PROVE  Got'
<1> DEFINE T == TextNow
<1>1. /\ phase = "record" /\ Ready /\ Input[1].line = "blank" /\ offset' = offset + 1
      /\ phase' = phase /\ start' = start /\ obj' = obj /\ rows' = rows
  BY DEF SkipBlank, Here, result
<1>2. phase \in Records /\ Reads(T) /\ Len(T) \in Nat /\ offset \in Nat /\ obj.gz \in BOOLEAN
  BY <1>1, ReadsNow DEF Records
<1>3. CASE obj.gz
  <2>1. Through' = Through
    BY <1>1, <1>3 DEF Through
  <2>2. QED
    BY <2>1, <1>1, GotStays
<1>4. CASE ~obj.gz
  <2>1. Through = offset /\ Through' = offset + 1
    BY <1>1, <1>4 DEF Through, Reached
  <2>2. want = 1 /\ Len(Input) >= 1
    BY <1>1, <1>2 DEF Reads, Parsed, Ready
  <2>3. Input[1] = T[offset + 1] /\ offset + 1 \in 1..Len(T)
    BY <1>2, <2>2, First
  <2>4. PassedUpTo(obj, ElementsNow, offset) /\ offset < Len(T)
    BY <1>1, <1>2, <2>3 DEF Lead
  <2>5. PICK x \in ElementsNow : From(obj, x) = offset
    BY <1>2, <2>4, NextElement DEF T
  <2>6. ~IsRecord(obj, x)
    <3>1. ASSUME IsRecord(obj, x) PROVE FALSE
      <4>1. T[offset + 1] = [line |-> "version", value |-> x]
        BY <2>5, <3>1, RecordAt
      <4>2. T[offset + 1].line = "version"
        BY <4>1
      <4>3. QED
        BY <4>2, <1>1, <2>3
    <3>2. QED
      BY <3>1
  <2>7. To(obj, x) = offset + 1
    BY <2>5, <2>6, LineAt
  <2>8. ~Reachable(obj, x)
    BY <2>6 DEF Reachable
  <2>9. Had(obj, To(obj, x)) = Had(obj, From(obj, x))
    BY <1>4, <2>8, ElementDone
  <2>10. Had(obj, Through') = Had(obj, Through)
    BY <2>1, <2>5, <2>7, <2>9
  <2>11. QED
    BY <1>1, <2>10, GotStays
<1>5. QED
  BY <1>2, <1>3, <1>4

(* The stream ends between two members, or breaks there.                   *)
LEMMA GotCleanEnd ==
  ASSUME IInv, Flow, Along, Got, CleanEnd
  PROVE  Got'
<1>1. phase = "member" /\ AtEnd /\ phase' = "done" /\ rows' = rows /\ obj' = obj /\ cut' = cut
  BY DEF CleanEnd, Return, Here
<1>2. obj.gz /\ ~InMemory
  BY <1>1, ObjectIs DEF IInv, Plain, Records, InMemory
<1>3. want = 1
  BY <1>1, <1>2 DEF IInv, Splits
<1>4. cut < pos + want
  BY <1>1, <1>2, EndReached
<1>5. cut = pos
  BY <1>3, <1>4, PosArrived
<1>6. Had(obj, cut) = Had(obj, Through)
  BY <1>1, <1>2, <1>5 DEF Through
<1>7. QED
  BY <1>1, <1>6, GotEnds

(* The splitter gives up.                                                  *)
LEMMA GotSplitterFails ==
  ASSUME IInv, Flow, Along, Got, SplitterFails
  PROVE  Got'
<1>1. /\ phase \in {"fixed", "option", "data", "trailer"}
      /\ phase' = "done" /\ rows' = rows /\ obj' = obj /\ cut' = cut
  BY DEF SplitterFails, Return, Here
<1>2. obj.gz
  BY <1>1, ObjectIs DEF IInv, Plain, Records
<1>3. Through = start
  BY <1>1, <1>2 DEF Through
<1>4. start \in Nat /\ cut \in Nat /\ start <= cut
  <2>1. start \in Nat /\ pos \in Nat /\ start <= pos
    BY ObjectIs DEF IInv, Along
  <2>2. QED
    BY <2>1, PosArrived
<1>5. Had(obj, cut) = Had(obj, start)
  BY <1>4, SplitterLoses, SameHad, ObjectIs
<1>6. QED
  BY <1>1, <1>3, <1>5, GotEnds

(* What a plain reader has reached has arrived.                            *)
LEMMA ReachedArrived ==
  ASSUME IInv, Lead, ~obj.gz, phase \in Records
  PROVE  Reached \in Nat /\ Reached <= cut
<1>1. offset = pos /\ offset \in Nat /\ cut \in Nat /\ pos <= cut
  BY ReadsNow, PosArrived
<1>2. CASE phase = "record"
  BY <1>1, <1>2 DEF Reached
<1>3. CASE phase # "record"
  <2>1. header.of \in ElementsNow /\ IsRecord(obj, header.of) /\ From(obj, header.of) = header.offset - 1
    BY <1>3 DEF Lead
  <2>2. From(obj, header.of) \in Nat /\ Len(HeadNow) \in Nat
    BY <2>1, RecordAt DEF HeadNow
  <2>3. header.offset \in Nat /\ Reached = header.offset - 1
    BY <1>3 DEF IInv, HeaderType, Reached
  <2>4. header.offset <= offset
    <3>1. CASE phase = "header"
      BY <3>1 DEF Lead
    <3>2. CASE phase \in {"block", "terminator"}
      <4>1. header.length[1] \in Nat
        BY <3>2, BodyAt
      <4>2. offset = HeadEnd \/ offset = HeadEnd + header.length[1]
        BY <3>2 DEF Lead
      <4>3. QED
        BY <4>1, <4>2, <2>2, <2>3 DEF HeadEnd
    <3>3. QED
      BY <1>3, <3>1, <3>2 DEF Records
  <2>5. QED
    BY <2>1, <2>2, <2>3, <2>4, <1>1
<1>4. QED
  BY <1>2, <1>3

(* Text that is no record.                                                 *)
LEMMA GotRecordFails ==
  ASSUME IInv, Lead, Flow, Along, Got, RecordFails
  PROVE  Got'
<1>1. PICK y : Refused(y)
  BY MalformedIs DEF RecordFails
<1>2. phase \in Records /\ phase # "done" /\ rows' = rows /\ obj' = obj /\ cut' = cut
  BY DEF RecordFails, Malformed, Return, Here, Records
<1>3. CASE obj.gz
  <2>1. phase' = "member" /\ UNCHANGED <<buf, raw_pos>>
    BY <1>3 DEF RecordFails, Then, Here
  <2>2. {x \in ElementsNow : Reachable(obj, x)} = {}
    BY <1>1, <1>3, NoneRefused
  <2>3. Had(obj, pos) = Had(obj, start)
    BY <1>2, <1>3, <2>2, MemberDone
  <2>4. pos' = pos
    BY <2>1, PosStays
  <2>5. Through = start /\ Through' = pos
    BY <1>2, <1>3, <2>1, <2>4 DEF Through, Records
  <2>6. QED
    BY <1>2, <2>1, <2>3, <2>5, GotStays
<1>4. CASE ~obj.gz
  <2>1. phase' = "done"
    BY <1>4 DEF RecordFails, Return
  <2>2. Through = Reached
    BY <1>4 DEF Through
  <2>3. Reached \in Nat /\ cut \in Nat /\ Reached <= cut
    BY <1>2, <1>4, ReachedArrived, PosArrived
  <2>5. ASSUME NEW x \in Elements(obj), Reachable(obj, x), UnitsThrough(obj, x) <= cut
        PROVE  UnitsThrough(obj, x) <= Reached
    <3>1. x \in ElementsNow
      BY <1>4 DEF ElementsNow, Among
    <3>2. UnitsThrough(obj, x) = To(obj, x) /\ UnitsThrough(obj, x) \in Nat
      BY <1>4, ThroughIs, ObjectIs
    <3>3. To(obj, x) <= Reached \/ cut < To(obj, x)
      BY <1>1, <2>5, <3>1, NoneRefused
    <3>4. QED
      BY <2>3, <2>5, <3>2, <3>3
  <2>6. Had(obj, cut) = Had(obj, Reached)
    BY <2>3, <2>5, SameHad, ObjectIs
  <2>7. QED
    BY <1>2, <2>1, <2>2, <2>6, GotEnds
<1>5. QED
  BY <1>3, <1>4, ObjectIs

(* Nothing more to read.                                                   *)
LEMMA GotNoRecord ==
  ASSUME IInv, Lead, Flow, Along, Got, NoRecord
  PROVE  Got'
<1>1. /\ phase = "record" /\ phase \in Records /\ AtEnd /\ rows' = rows /\ obj' = obj /\ cut' = cut
  BY DEF NoRecord, Return, Here, Records
<1>2. /\ Reads(TextNow) /\ offset \in Nat /\ Len(TextNow) \in Nat /\ obj.gz \in BOOLEAN
      /\ ~obj.gz => offset = pos
  BY <1>1, ReadsNow
<1>3. want = 1
  BY <1>1, <1>2 DEF Reads, Parsed
<1>4. CASE obj.gz
  <2>1. phase' = "member" /\ UNCHANGED <<buf, raw_pos>>
    BY <1>4 DEF NoRecord, Then, Here
  <2>2. Len(TextNow) < offset + 1
    BY <1>1, <1>3, <1>4, EndReached DEF InMemory
  <2>3. ASSUME NEW x \in ElementsNow, Reachable(obj, x) PROVE FALSE
    <3>1. From(obj, x) \in Nat /\ To(obj, x) \in Nat /\ From(obj, x) < To(obj, x)
          /\ To(obj, x) <= Len(TextNow)
      BY NowAt
    <3>2. ~(offset <= From(obj, x))
      BY <1>2, <2>2, <3>1
    <3>3. Passed(obj, x)
      BY <1>1, <3>2 DEF Lead, PassedUpTo
    <3>4. QED
      BY <1>4, <2>3, <3>3, ReachableRecord DEF Passed
  <2>4. Had(obj, pos) = Had(obj, start)
    <3>1. {x \in ElementsNow : Reachable(obj, x)} = {}
      BY <2>3
    <3>2. QED
      BY <1>1, <1>4, <3>1, MemberDone
  <2>5. pos' = pos
    BY <2>1, PosStays
  <2>6. Through = start /\ Through' = pos
    BY <1>1, <1>4, <2>1, <2>5 DEF Through
  <2>7. QED
    BY <1>1, <2>1, <2>4, <2>6, GotStays
<1>5. CASE ~obj.gz
  <2>1. phase' = "done"
    BY <1>5 DEF NoRecord, Return
  <2>2. cut < pos + want
    BY <1>1, <1>5, EndReached DEF InMemory
  <2>3. cut = pos
    BY <1>3, <2>2, PosArrived
  <2>4. Through = pos
    BY <1>1, <1>2, <1>5 DEF Through, Reached
  <2>5. QED
    BY <1>1, <2>1, <2>3, <2>4, GotEnds
<1>6. QED
  BY <1>2, <1>4, <1>5

(* A record is complete: its row, if it is a capture, is the next one.     *)
LEMMA TerminatorAdds ==
  ASSUME NoFalseEnd, IInv, Lead, Undamaged, Terminator
  PROVE  /\ header.of \in Elements(obj) /\ UnitsThrough(obj, header.of) \in Nat
         /\ Through \in Nat /\ Through < UnitsThrough(obj, header.of)
         /\ Had(obj, Through') =
              Had(obj, Through) \cup IF KindOf(obj, header.of) = "capture" THEN {header.of} ELSE {}
<1> DEFINE y == header.of
<1>1. /\ phase = "terminator" /\ Ready /\ Input[1].line = "blank" /\ Input[2].line = "blank"
      /\ Consume /\ offset' = offset + 2 /\ phase' = (IF obj.gz THEN "member" ELSE "record")
      /\ start' = start /\ obj' = obj /\ Here
  BY DEF Terminator, Here, Then
<1>2. /\ phase \in Records /\ phase \in Records \ {"record"} /\ obj \in Objects /\ obj.gz \in BOOLEAN
  BY <1>1, ObjectIs DEF Records
<1>3. /\ y \in ElementsNow /\ IsRecord(obj, y) /\ Sound(ElementAt(obj, y))
      /\ To(obj, y) = offset + 2
  BY <1>1, TerminatorSound
<1>4. PassedUpTo(obj, ElementsNow, From(obj, y)) /\ From(obj, y) = header.offset - 1
  BY <1>2 DEF Lead
<1>5. y \in Elements(obj) /\ From(obj, y) \in Nat /\ To(obj, y) \in Nat /\ From(obj, y) < To(obj, y)
  BY <1>3, NowAt
<1>6. obj.gz => Through = start /\ Whole(obj, start)
  BY <1>1 DEF Through, Undamaged
<1>7. Reachable(obj, y) <=> KindOf(obj, y) = "capture"
  BY <1>2, <1>3, <1>4, <1>6, NextCapture, ReachableRecord
<1>8. {x \in {y} : Reachable(obj, x)} = IF KindOf(obj, y) = "capture" THEN {y} ELSE {}
  BY <1>7
<1>9. CASE obj.gz
  <2>1. /\ Which \in 1..Len(obj.parts) /\ pos = Starts(obj)[Which + 1] /\ start = Starts(obj)[Which]
    BY <1>2, <1>9, ReadsNow
  <2>2. y[1] = Which
    BY <1>3, <1>9 DEF ElementsNow, Among
  <2> HIDE DEF Which
  <2>3. UnitsThrough(obj, y) = pos
    BY <1>2, <1>5, <1>9, <2>1, <2>2, ThroughIs
  <2>4. start \in Nat /\ pos \in Nat /\ start < pos
    <3>1. Len(obj.parts) \in Nat
      BY ObjectIs
    <3>2. Which \in 1..(Len(obj.parts) + 1) /\ Which + 1 \in 1..(Len(obj.parts) + 1) /\ Which < Which + 1
      BY <2>1, <3>1
    <3>3. Starts(obj)[Which] < Starts(obj)[Which + 1]
      BY <1>2, <1>9, <3>2, StartsApart
    <3>4. QED
      BY <2>1, <3>3, ObjectIs DEF IInv
  <2>5. {x \in ElementsNow : Reachable(obj, x)} = {x \in {y} : Reachable(obj, x)}
    <3>1. ASSUME NEW x \in ElementsNow, Reachable(obj, x) PROVE x = y
      <4>1. x \in Elements(obj) /\ ElementAt(obj, x).kind # "blank"
        BY <3>1, NowAt, ReachableRecord
      <4>2. ~Before(x, y)
        <5>1. ~Passed(obj, x)
          BY <1>9, <4>1 DEF Passed
        <5>2. QED
          BY <5>1, <1>3, <1>4, PassedBehind
      <4>3. ~Before(y, x)
        <5>1. ElementAt(obj, y).kind # "blank"
          BY <1>3 DEF IsRecord, ElementAt, Captured
        <5>2. ~Passed(obj, y)
          BY <1>9, <5>1 DEF Passed
        <5>3. ASSUME Before(y, x) PROVE FALSE
          <6>1. Passed(obj, y)
            BY <5>3, <3>1, <1>3, PassedBefore
          <6>2. QED
            BY <6>1, <5>2
        <5>4. QED
          BY <5>3, Zenon
      <4>4. QED
        BY <4>1, <4>2, <4>3, <1>2, <1>5, OneBefore
    <3>2. QED
      BY <3>1, <1>3
  <2>6. Had(obj, pos) = Had(obj, start) \cup {x \in ElementsNow : Reachable(obj, x)}
    BY <1>2, <1>9, MemberDone
  <2>7. Through' = pos
    <3>1. buf' = buf /\ raw_pos' = raw_pos
      BY <1>1, <1>2, <1>9 DEF Consume, InMemory, Here, Records
    <3>2. pos' = pos
      BY <3>1, PosStays
    <3>3. QED
      BY <3>2, <1>1, <1>9 DEF Through
  <2>8. QED
    BY <1>5, <1>6, <1>8, <1>9, <2>3, <2>4, <2>5, <2>6, <2>7
<1>10. CASE ~obj.gz
  <2>1. UnitsThrough(obj, y) = To(obj, y)
    BY <1>2, <1>5, <1>10, ThroughIs
  <2>2. Through = From(obj, y) /\ Through' = To(obj, y)
    BY <1>1, <1>3, <1>4, <1>10 DEF Through, Reached
  <2>3. Had(obj, To(obj, y)) = Had(obj, From(obj, y)) \cup {x \in {y} : Reachable(obj, x)}
    BY <1>3, <1>10, ElementDone
  <2>4. QED
    BY <1>5, <1>8, <2>1, <2>2, <2>3
<1>11. QED
  BY <1>2, <1>9, <1>10

(* The row of a capture comes behind all others.                           *)
LEMMA GotTerminator ==
  ASSUME NoFalseEnd, IInv, Lead, Undamaged, Got, Terminator
  PROVE  Got'
<1> DEFINE y == header.of
           capture == KindOf(obj, y) = "capture"
<1>1. /\ obj' = obj /\ phase # "done" /\ phase' # "done"
      /\ rows' = (IF capture THEN Append(rows, Row) ELSE rows)
  BY DEF Terminator, handle_record, Here, Then
<1>2. /\ y \in Elements(obj) /\ UnitsThrough(obj, y) \in Nat
      /\ Through \in Nat /\ Through < UnitsThrough(obj, y)
      /\ Had(obj, Through') = Had(obj, Through) \cup IF capture THEN {y} ELSE {}
  BY TerminatorAdds
<1>3. InOrder /\ Found = Had(obj, Through) /\ obj \in Objects
  BY <1>1, ObjectIs DEF Got
<1> HIDE DEF capture
<1>4. CASE ~capture
  <2>1. Had(obj, Through') = Had(obj, Through) /\ rows' = rows
    BY <1>1, <1>2, <1>4
  <2>2. QED
    BY <2>1, <1>1, GotStays
<1>5. CASE capture
  <2>1. PICK r : r = Row
    OBVIOUS
  <2>2. r \in RowType /\ r.of = y
    <3>1. r \in RowType
      BY <2>1, RowAdded
    <3>2. r.of = y
      BY <2>1 DEF Row
    <3>3. QED
      BY <3>1, <3>2
  <2>3. rows \in Seq(RowType) /\ rows' = Append(rows, r)
    BY <1>1, <1>5, <2>1 DEF IInv
  <2> HIDE DEF y
  <2>4. /\ Len(rows) \in Nat /\ Len(rows') = Len(rows) + 1 /\ rows'[Len(rows) + 1] = r
        /\ \A i \in 1..Len(rows) : rows'[i] = rows[i]
    BY <2>2, <2>3, AppendProperties
  <2>5. \A i \in 1..Len(rows) : rows[i].of \in Found
    BY DEF Found
  <2>6. ASSUME NEW i \in 1..Len(rows) PROVE Before(rows[i].of, y)
    <3>1. PICK x : x = rows[i].of
      OBVIOUS
    <3>2. x \in Elements(obj) /\ UnitsThrough(obj, x) <= Through
      BY <3>1, <2>5, <1>3 DEF Had
    <3>3. UnitsThrough(obj, x) \in Nat
      BY <3>2, <1>3, ThroughIs
    <3>4. UnitsThrough(obj, x) < UnitsThrough(obj, y)
      BY <3>2, <3>3, <1>2
    <3>5. x # y
      BY <3>3, <3>4
    <3>6. ~Before(y, x)
      <4>1. Before(y, x) => UnitsThrough(obj, y) <= UnitsThrough(obj, x)
        BY <1>2, <1>3, <3>2, ThroughGrows
      <4>2. QED
        BY <4>1, <3>3, <3>4, <1>2
    <3>7. QED
      BY <3>1, <3>2, <3>5, <3>6, <1>2, <1>3, OneBefore
  <2>7. InOrder'
    <3>1. ASSUME NEW i \in 1..Len(rows'), NEW j \in 1..Len(rows'), i < j
          PROVE  Before(rows'[i].of, rows'[j].of)
      <4>1. i \in 1..Len(rows) /\ rows'[i] = rows[i]
        BY <2>4, <3>1
      <4>2. CASE j \in 1..Len(rows)
        <5>1. Before(rows[i].of, rows[j].of)
          BY <4>1, <4>2, <3>1, <1>3 DEF InOrder
        <5>2. QED
          BY <5>1, <4>1, <4>2, <2>4
      <4>3. CASE j = Len(rows) + 1
        <5>1. Before(rows[i].of, y)
          BY <4>1, <2>6
        <5>2. QED
          BY <5>1, <4>1, <4>3, <2>2, <2>4
      <4>4. QED
        BY <4>2, <4>3, <2>4, <3>1
    <3>2. QED
      BY <3>1 DEF InOrder
  <2>8. Found' = Found \cup {y}
    <3>1. Found' = {rows'[i].of : i \in 1..Len(rows')}
      BY DEF Found
    <3>2. ASSUME NEW z PROVE z \in Found' <=> z \in Found \cup {y}
      <4>1. ASSUME z \in Found' PROVE z \in Found \cup {y}
        <5>1. PICK i \in 1..Len(rows') : z = rows'[i].of
          BY <3>1, <4>1
        <5>2. i \in 1..Len(rows) \/ i = Len(rows) + 1
          BY <2>4, <5>1
        <5>3. QED
          BY <5>1, <5>2, <2>2, <2>4, <2>5
      <4>2. ASSUME z \in Found PROVE z \in Found'
        <5>1. PICK i \in 1..Len(rows) : z = rows[i].of
          BY <4>2 DEF Found
        <5>2. i \in 1..Len(rows') /\ rows'[i] = rows[i]
          BY <2>4, <5>1
        <5>3. QED
          BY <3>1, <5>1, <5>2
      <4>3. y \in Found'
        <5>1. Len(rows) + 1 \in 1..Len(rows')
          BY <2>4
        <5>2. QED
          BY <3>1, <5>1, <2>2, <2>4
      <4>4. QED
        BY <4>1, <4>2, <4>3
    <3>3. QED
      BY <3>2
  <2>9. Had(obj', Through') = Had(obj, Through) \cup {y}
    BY <1>1, <1>2, <1>5
  <2>10. QED
    BY <2>7, <2>8, <2>9, <1>1, <1>3 DEF Got
<1>6. QED
  BY <1>4, <1>5

(* No step misses a capture that it passes.                                *)
LEMMA GotNext ==
  ASSUME NoFalseEnd, IInv, Lead, Flow, Along, Undamaged, Got, [Next]_vars
  PROVE  Got'
<1>1. CASE Send \/ SenderStops \/ Read \/ UNCHANGED vars
  BY <1>1, GotStream
<1>2. CASE BeginMember \/ FixedHeader \/ OptionalHeader \/ Inflate \/ Trailer
  BY <1>2, GotSplits
<1>3. CASE CleanEnd
  BY <1>3, GotCleanEnd
<1>4. CASE SplitterFails
  BY <1>4, GotSplitterFails
<1>5. CASE SkipBlank
  BY <1>5, GotBlank
<1>6. CASE Version \/ HeaderLine \/ HeaderEnd \/ Block
  BY <1>6, GotReads
<1>7. CASE Terminator
  BY <1>7, GotTerminator
<1>8. CASE RecordFails
  BY <1>8, GotRecordFails
<1>9. CASE NoRecord
  BY <1>9, GotNoRecord
<1>10. QED
  BY <1>1, <1>2, <1>3, <1>4, <1>5, <1>6, <1>7, <1>8, <1>9 DEF Next, Sender, Parser

-----------------------------------------------------------------------------
(* The counters: a member whose records are still to be read is counted    *)
(* already; only giving up counts an error more.                           *)
Settled == Len(rows) + count.skipped + count.errors
CountType == [records: Nat, skipped: Nat, errors: Nat]
Accounted ==
  /\ count \in CountType
  /\ obj.gz /\ phase \in Records => Settled + 1 = count.records
  /\ phase # "done" /\ ~(obj.gz /\ phase \in Records) => Settled = count.records
  /\ phase = "done" => Settled = count.records \/ Settled = count.records + 1

(* Nothing is counted at first.                                            *)
LEMMA AccountedInit == Init => Accounted
<1> SUFFICES ASSUME Init PROVE Accounted
  OBVIOUS
<1>1. /\ rows = <<>> /\ count = [records |-> 0, skipped |-> 0, errors |-> 0]
      /\ phase = (IF obj.gz THEN "member" ELSE "record")
  BY DEF Init
<1>2. Len(rows) = 0 /\ count \in CountType /\ count.records = 0 /\ count.skipped = 0 /\ count.errors = 0
  BY <1>1 DEF CountType
<1>3. Settled = 0
  BY <1>2 DEF Settled
<1>4. ~(obj.gz /\ phase \in Records) /\ phase # "done"
  BY <1>1 DEF Records
<1>5. QED
  BY <1>2, <1>3, <1>4 DEF Accounted

(* What a step adds to the rows and the counters.                          *)
LEMMA CountedStep ==
  ASSUME IInv, Accounted, NEW r \in Nat, NEW s \in Nat, NEW e \in Nat, Counted(r, s, e),
         NEW n \in Nat, rows' \in Seq(RowType), Len(rows') = Len(rows) + n
  PROVE  /\ count' \in CountType /\ Settled \in Nat /\ count.records \in Nat
         /\ Settled' = Settled + n + s + e /\ count'.records = count.records + r
<1>1. count' = [records |-> count.records + r, skipped |-> count.skipped + s,
                errors |-> count.errors + e]
  BY DEF Counted
<1>2. count.records \in Nat /\ count.skipped \in Nat /\ count.errors \in Nat
  BY DEF Accounted, CountType
<1>3. count' \in CountType /\ count'.records = count.records + r
      /\ count'.skipped = count.skipped + s /\ count'.errors = count.errors + e
  BY <1>1, <1>2 DEF CountType
<1>4. Len(rows) \in Nat
  <2>1. rows \in Seq(RowType)
    BY DEF IInv
  <2>2. QED
    BY <2>1
<1>5. PICK k \in Nat : k = Len(rows)
  BY <1>4
<1>6. PICK a \in Nat : a = count.skipped
  BY <1>2
<1>7. PICK b \in Nat : b = count.errors
  BY <1>2
<1>8. Settled = k + a + b /\ Settled' = (k + n) + (a + s) + (b + e)
  BY <1>3, <1>5, <1>6, <1>7 DEF Settled
<1>9. k + a + b \in Nat /\ (k + n) + (a + s) + (b + e) = (k + a + b) + n + s + e
  OBVIOUS
<1>10. Settled \in Nat /\ Settled' = Settled + n + s + e
  BY <1>8, <1>9
<1>11. QED
  BY <1>2, <1>3, <1>10

(* Rows that stay.                                                         *)
LEMMA SameCounted ==
  ASSUME IInv, rows' = rows
  PROVE  rows' \in Seq(RowType) /\ Len(rows') = Len(rows) + 0
<1>1. rows \in Seq(RowType)
  BY DEF IInv
<1>2. Len(rows) \in Nat
  BY <1>1
<1>3. QED
  BY <1>1, <1>2

(* A step that counts nothing.                                             *)
LEMMA AccountedStays ==
  ASSUME Accounted, UNCHANGED <<rows, count, obj>>,
         phase' = phase \/ (phase # "done" /\ phase \notin Records /\ phase' # "done" /\ phase' \notin Records)
           \/ (phase \in Records /\ phase' \in Records)
           \/ (phase # "done" /\ ~(obj.gz /\ phase \in Records) /\ phase' = "done")
  PROVE  Accounted'
<1>1. Settled' = Settled /\ count' = count /\ obj' = obj
  BY DEF Settled
<1>2. "done" \notin Records
  BY DEF Records
<1>3. QED
  BY <1>1, <1>2 DEF Accounted

(* Every step counts what it settles.                                      *)
LEMMA AccountedNext ==
  ASSUME IInv, Accounted, [Next]_vars
  PROVE  Accounted'
<1>0. 0 \in Nat /\ 1 \in Nat /\ obj.gz \in BOOLEAN
  BY ObjectIs
<1>1. CASE Send \/ SenderStops \/ Read \/ UNCHANGED vars
  <2>1. UNCHANGED <<rows, count, obj>> /\ phase' = phase
    BY <1>1 DEF Send, SenderStops, Read, vars, parser, result
  <2>2. QED
    BY <2>1, AccountedStays
<1>2. CASE BeginMember \/ FixedHeader \/ OptionalHeader \/ Inflate
  <2>1. UNCHANGED <<rows, count, obj>>
        /\ phase # "done" /\ phase \notin Records /\ phase' # "done" /\ phase' \notin Records
    BY <1>2 DEF BeginMember, FixedHeader, OptionalHeader, Inflate, Then, InMember, Here, result, Records
  <2>2. QED
    BY <2>1, AccountedStays
<1>3. CASE SkipBlank \/ Version \/ HeaderLine \/ HeaderEnd \/ Block
  <2>1. UNCHANGED <<rows, count, obj>> /\ phase \in Records /\ phase' \in Records
    BY <1>3 DEF SkipBlank, Version, HeaderLine, HeaderEnd, Block, Then, Here, result, Records
  <2>2. QED
    BY <2>1, AccountedStays
<1>4. CASE CleanEnd
  <2>1. UNCHANGED <<rows, count, obj>> /\ phase = "member" /\ phase' = "done"
    BY <1>4 DEF CleanEnd, Return, Here
  <2>2. phase # "done" /\ phase \notin Records
    BY <2>1 DEF Records
  <2>3. QED
    BY <2>1, <2>2, AccountedStays
<1>5. CASE SplitterFails
  <2>1. /\ rows' = rows /\ obj' = obj /\ Counted(0, 0, 1) /\ phase' = "done"
        /\ phase # "done" /\ phase \notin Records
    BY <1>5 DEF SplitterFails, Return, Here, Records
  <2>2. /\ count' \in CountType /\ Settled \in Nat /\ count.records \in Nat
        /\ Settled' = Settled + 0 + 0 + 1 /\ count'.records = count.records + 0
    BY <2>1, <1>0, SameCounted, CountedStep
  <2>3. Settled = count.records
    BY <2>1 DEF Accounted
  <2>4. phase' \notin Records /\ Settled' = count'.records + 1
    BY <2>1, <2>2, <2>3 DEF Records
  <2>5. QED
    BY <2>1, <2>2, <2>4 DEF Accounted
<1>6. CASE Trailer
  <2>1. /\ rows' = rows /\ obj' = obj /\ Counted(1, 0, 0) /\ phase' = "record" /\ phase = "trailer"
    BY <1>6 DEF Trailer, Here, Then
  <2>2. /\ count' \in CountType /\ Settled \in Nat /\ count.records \in Nat
        /\ Settled' = Settled + 0 + 0 + 0 /\ count'.records = count.records + 1
    BY <2>1, <1>0, SameCounted, CountedStep
  <2>3. obj.gz /\ Settled = count.records
    <3>1. phase # "done" /\ phase \notin Records
      BY <2>1 DEF Records
    <3>2. obj.gz
      BY <2>1, <3>1, <1>0 DEF IInv, Plain
    <3>3. QED
      BY <3>1, <3>2 DEF Accounted
  <2>4. Settled' + 1 = count'.records /\ phase' \in Records
    BY <2>1, <2>2, <2>3 DEF Records
  <2>5. QED
    BY <2>1, <2>2, <2>3, <2>4 DEF Accounted
<1>7. CASE Terminator
  <2> DEFINE kind == KindOf(obj, header.of)
             r == IF obj.gz THEN 0 ELSE 1
             s == IF kind \in {"capture", "invalid"} THEN 0 ELSE 1
             e == IF kind = "invalid" THEN 1 ELSE 0
             n == IF kind = "capture" THEN 1 ELSE 0
  <2>1. /\ phase = "terminator" /\ phase' = (IF obj.gz THEN "member" ELSE "record") /\ obj' = obj
        /\ Counted(r, s, e) /\ rows' = (IF kind = "capture" THEN Append(rows, Row) ELSE rows)
    BY <1>7 DEF Terminator, handle_record, Here, Then
  <2>2. r \in Nat /\ s \in Nat /\ e \in Nat /\ n \in Nat /\ n + s + e = 1
    OBVIOUS
  <2>3. rows' \in Seq(RowType) /\ Len(rows') = Len(rows) + n
    <3>1. CASE kind = "capture"
      <4>1. PICK w : w = Row
        OBVIOUS
      <4>2. w \in RowType
        BY <1>7, <4>1, RowAdded
      <4>3. rows \in Seq(RowType) /\ rows' = Append(rows, w)
        BY <2>1, <3>1, <4>1 DEF IInv
      <4>4. rows' \in Seq(RowType) /\ Len(rows') = Len(rows) + 1
        BY <4>2, <4>3, AppendProperties
      <4>5. QED
        BY <3>1, <4>4
    <3>2. CASE kind # "capture"
      BY <2>1, <3>2, SameCounted
    <3>3. QED
      BY <3>1, <3>2
  <2> HIDE DEF kind, s, e, n
  <2>4. /\ count' \in CountType /\ Settled \in Nat /\ count.records \in Nat
        /\ Settled' = Settled + n + s + e /\ count'.records = count.records + r
    <3> HIDE DEF r
    <3>1. QED
      BY <2>1, <2>2, <2>3, CountedStep
  <2>5. Settled' = Settled + 1
    BY <2>2, <2>4
  <2>6. phase \in Records /\ phase # "done" /\ phase' # "done"
    BY <2>1 DEF Records
  <2>7. CASE obj.gz
    <3>1. Settled + 1 = count.records /\ count'.records = count.records
      BY <2>4, <2>6, <2>7 DEF Accounted
    <3>2. Settled' = count'.records /\ ~(phase' \in Records)
      BY <3>1, <2>1, <2>5, <2>7 DEF Records
    <3>3. QED
      BY <3>2, <2>1, <2>4, <2>6 DEF Accounted
  <2>8. CASE ~obj.gz
    <3>1. Settled = count.records /\ count'.records = count.records + 1
      BY <2>4, <2>6, <2>8 DEF Accounted
    <3>2. Settled' = count'.records
      BY <3>1, <2>5
    <3>3. QED
      BY <3>2, <2>1, <2>4, <2>6, <2>8 DEF Accounted
  <2>9. QED
    BY <1>0, <2>7, <2>8
<1>8. CASE RecordFails
  <2>1. /\ rows' = rows /\ obj' = obj /\ Counted(0, 0, 1) /\ phase \in Records /\ phase # "done"
        /\ phase' = (IF obj.gz THEN "member" ELSE "done")
    BY <1>8 DEF RecordFails, Malformed, Return, Here, Then, Records
  <2>2. /\ count' \in CountType /\ Settled \in Nat /\ count.records \in Nat
        /\ Settled' = Settled + 0 + 0 + 1 /\ count'.records = count.records + 0
    BY <2>1, <1>0, SameCounted, CountedStep
  <2>3. CASE obj.gz
    <3>1. Settled + 1 = count.records
      BY <2>1, <2>3 DEF Accounted
    <3>2. Settled' = count'.records /\ ~(phase' \in Records) /\ phase' # "done"
      BY <3>1, <2>1, <2>2, <2>3 DEF Records
    <3>3. QED
      BY <3>2, <2>2 DEF Accounted
  <2>4. CASE ~obj.gz
    <3>1. Settled = count.records
      BY <2>1, <2>4 DEF Accounted
    <3>2. Settled' = count'.records + 1 /\ phase' = "done" /\ ~(phase' \in Records)
      BY <3>1, <2>1, <2>2, <2>4 DEF Records
    <3>3. QED
      BY <3>2, <2>2 DEF Accounted
  <2>5. QED
    BY <1>0, <2>3, <2>4
<1>9. CASE NoRecord
  <2>1. rows' = rows /\ obj' = obj /\ phase = "record" /\ phase \in Records /\ phase # "done"
    BY <1>9 DEF NoRecord, Return, Here, Records
  <2>2. CASE obj.gz
    <3>1. Counted(0, 1, 0) /\ phase' = "member"
      BY <1>9, <2>2 DEF NoRecord, Then
    <3>2. /\ count' \in CountType /\ Settled \in Nat /\ count.records \in Nat
          /\ Settled' = Settled + 0 + 1 + 0 /\ count'.records = count.records + 0
      BY <2>1, <3>1, <1>0, SameCounted, CountedStep
    <3>3. Settled + 1 = count.records
      BY <2>1, <2>2 DEF Accounted
    <3>4. Settled' = count'.records /\ ~(phase' \in Records) /\ phase' # "done"
      BY <3>1, <3>2, <3>3 DEF Records
    <3>5. QED
      BY <3>2, <3>4 DEF Accounted
  <2>3. CASE ~obj.gz
    <3>1. UNCHANGED <<rows, count, obj>> /\ phase' = "done"
      BY <1>9, <2>1, <2>3 DEF NoRecord, Return
    <3>2. QED
      BY <3>1, <2>1, <2>3, AccountedStays
  <2>4. QED
    BY <1>0, <2>2, <2>3
<1>10. QED
  BY <1>1, <1>2, <1>3, <1>4, <1>5, <1>6, <1>7, <1>8, <1>9 DEF Next, Sender, Parser

-----------------------------------------------------------------------------
(* The whole invariant.                                                    *)
RInv == IInv /\ Lead /\ Flow /\ Along /\ Undamaged /\ Got /\ Accounted

(* The invariant holds at first, ...                                       *)
LEMMA RowsInit == Init => RInv
<1> SUFFICES ASSUME Init PROVE RInv
  OBVIOUS
<1>1. Lead
  <2>1. /\ obj \in Objects /\ offset = 0 /\ phase = (IF obj.gz THEN "member" ELSE "record")
    BY DEF Init
  <2>2. IInv
    BY InvInit
  <2>3. PassedUpTo(obj, ElementsNow, 0)
    <3> SUFFICES ASSUME NEW y \in ElementsNow PROVE 0 <= From(obj, y)
      BY DEF PassedUpTo
    <3>1. From(obj, y) \in Nat
      BY <2>2, NowAt
    <3>2. QED
      BY <3>1
  <2>4. QED
    BY <2>1, <2>3 DEF Lead, Records
<1>2. QED
  BY <1>1, InvInit, FlowInit, AlongInit, UndamagedInit, GotInit, AccountedInit DEF RInv

(* ... and every step keeps it.                                            *)
LEMMA RowsNext == NoFalseEnd => (RInv /\ [Next]_vars => RInv')
<1> SUFFICES ASSUME NoFalseEnd, RInv, [Next]_vars PROVE RInv'
  OBVIOUS
<1>1. IInv /\ Lead /\ Flow /\ Along /\ Undamaged /\ Got /\ Accounted
  BY DEF RInv
<1>2. IInv'
  BY <1>1, InvNext
<1>3. Lead' /\ Flow' /\ Along' /\ Undamaged' /\ Got' /\ Accounted'
  BY <1>1, LeadNext, FlowNext, AlongNext, UndamagedNext, GotNext, AccountedNext
<1>4. QED
  BY <1>2, <1>3 DEF RInv

(* Every state is what RowsAreCaptures says.                               *)
LEMMA RowsHold ==
  ASSUME RInv
  PROVE  RowsAreCaptures
<1>1. IInv /\ Lead /\ Flow /\ Along /\ Undamaged /\ Got /\ Accounted
  BY DEF RInv
<1>2. obj \in Objects /\ obj.gz \in BOOLEAN
  BY <1>1, ObjectIs
<1>3. /\ sent \in Nat /\ cut \in Nat /\ sent <= cut /\ cut <= Len(Stored[obj]) /\ raw_pos \in Nat
      /\ raw_pos <= sent /\ Len(Stored[obj]) \in Nat
  BY <1>1, ReadWasSent, ObjectIs DEF IInv, Streamed
<1>4. start \in Nat /\ start <= raw_pos
  <2>1. start \in Nat /\ start <= pos /\ Len(buf) \in Nat /\ Len(buf) <= raw_pos
    BY <1>1, ObjectIs DEF IInv, Streamed, Along
  <2>2. pos = raw_pos - Len(buf)
    BY DEF pos
  <2>3. QED
    BY <2>1, <2>2, <1>3
<1>5. TypeOK
  <2>1. sent \in 0..cut /\ cut \in 0..Len(Stored[obj]) /\ raw_pos \in 0..sent /\ start \in 0..raw_pos
    BY <1>3, <1>4
  <2>2. sending \in BOOLEAN /\ reading \in BOOLEAN /\ Len(channel) <= Capacity
    BY <1>1 DEF Flow
  <2>3. offset \in Nat /\ want \in Nat
    BY <1>1 DEF IInv, Along
  <2>4. phase \in {"member", "fixed", "option", "data", "trailer", "record", "header",
                   "block", "terminator", "done"}
    BY <1>1 DEF IInv, Phases, Records
  <2>5. \A i \in 1..Len(rows) : rows[i].length \in Nat
    <3>1. rows \in Seq(RowType)
      BY <1>1 DEF IInv
    <3>2. ASSUME NEW i \in 1..Len(rows) PROVE rows[i].length \in Nat
      <4>1. rows[i] \in RowType
        BY <3>1
      <4>2. QED
        BY <4>1 DEF RowType
    <3>3. QED
      BY <3>2
  <2>6. count \in [records: Nat, skipped: Nat, errors: Nat]
    BY <1>1 DEF Accounted, CountType
  <2>7. QED
    BY <1>2, <2>1, <2>2, <2>3, <2>4, <2>5, <2>6 DEF TypeOK
<1>6. InOrder /\ Found = (IF phase = "done" THEN Arrived ELSE Had(obj, Through))
      /\ Arrived = Had(obj, cut)
  BY <1>1, <1>2, ArrivedIs DEF Got
<1>7. phase # "done" => Through \in Nat /\ Through <= cut
  <2> SUFFICES ASSUME phase # "done" PROVE Through \in Nat /\ Through <= cut
    OBVIOUS
  <2>1. pos \in Nat /\ pos <= cut /\ start <= pos
    BY <1>1, PosArrived DEF Along
  <2>2. CASE obj.gz
    <3>1. Through = pos \/ Through = start
      BY <2>2 DEF Through
    <3>2. QED
      BY <3>1, <2>1, <1>3, <1>4
  <2>3. CASE ~obj.gz
    <3>1. phase \in Records
      BY <1>1, <2>3 DEF IInv, Plain
    <3>2. QED
      BY <3>1, <1>1, <2>3, ReachedArrived DEF Through
  <2>4. QED
    BY <1>2, <2>2, <2>3
<1>8. PICK z : z \in Nat /\ z <= cut /\ Found = Had(obj, z)
  BY <1>3, <1>6, <1>7
<1>9. \A x \in Elements(obj) : UnitsThrough(obj, x) \in Nat
  BY <1>2, ThroughIs
<1>10. Found \subseteq Arrived
  BY <1>3, <1>6, <1>8, <1>9 DEF Had
<1>11. ASSUME NEW x \in Arrived, NEW y \in Found, Before(x, y) PROVE x \in Found
  <2>1. x \in Elements(obj) /\ y \in Elements(obj) /\ Reachable(obj, x) /\ UnitsThrough(obj, y) <= z
    BY <1>6, <1>8 DEF Had
  <2>2. UnitsThrough(obj, x) <= UnitsThrough(obj, y)
    BY <1>2, <1>11, <2>1, ThroughGrows
  <2>3. UnitsThrough(obj, x) <= z
    BY <2>1, <2>2, <1>8, <1>9
  <2>4. QED
    BY <2>1, <2>3, <1>8 DEF Had
<1>12. phase = "done" => (Len(rows) + count.skipped + count.errors) - count.records \in {0, 1}
  <2> SUFFICES ASSUME phase = "done"
               PROVE  (Len(rows) + count.skipped + count.errors) - count.records \in {0, 1}
    OBVIOUS
  <2>1. Settled = count.records \/ Settled = count.records + 1
    BY <1>1 DEF Accounted
  <2>2. count.records \in Nat
    BY <1>1 DEF Accounted, CountType
  <2>4. PICK c \in Nat : c = count.records
    BY <2>2
  <2>5. c - c = 0 /\ (c + 1) - c = 1
    OBVIOUS
  <2>6. Settled - c \in {0, 1}
    BY <2>1, <2>4, <2>5
  <2>7. Settled - count.records \in {0, 1}
    BY <2>4, <2>6
  <2>8. QED
    BY <2>7 DEF Settled
<1>13. \A i, j \in 1..Len(rows) : i < j => Before(rows[i].of, rows[j].of)
  BY <1>6 DEF InOrder
<1>14. QED
  BY <1>5, <1>6, <1>10, <1>11, <1>12, <1>13 DEF RowsAreCaptures

(* However the object is cut into chunks and whichever side runs ahead,    *)
(* the rows index_warc_object finds are those of the captures that         *)
(* arrived, each once and in order, and FileStats accounts for the rest -  *)
(* of objects in which no record declares a block too long that ends       *)
(* before two empty lines all the same.                                    *)
THEOREM CapturesFound == NoFalseEnd => (Spec => []RowsAreCaptures)
<1> SUFFICES ASSUME NoFalseEnd PROVE Spec => []RowsAreCaptures
  OBVIOUS
<1>1. Init => RInv
  BY RowsInit
<1>2. RInv /\ [Next]_vars => RInv'
  BY RowsNext
<1>3. RInv => RowsAreCaptures
  BY RowsHold
<1>4. QED
  BY <1>1, <1>2, <1>3, PTL DEF Spec

=============================================================================
