---------------------------- MODULE SequenceLemmas ----------------------------
(***************************************************************************)
(* Facts about sequences that the proofs about buffered audio rest on.       *)
(***************************************************************************)
EXTENDS Naturals, Sequences, SequenceTheorems, TLAPS

\* A sequence is the prefix of its length of any of its extensions.
LEMMA PrefixOfConcat ==
  ASSUME NEW S, NEW a \in Seq(S), NEW b \in Seq(S)
  PROVE  SubSeq(a \o b, 1, Len(a)) = a
<1> DEFINE p == SubSeq(a \o b, 1, Len(a))
<1>1. a \o b \in Seq(S) /\ Len(a \o b) = Len(a) + Len(b) /\ Len(a) \in Nat /\ Len(b) \in Nat
  OBVIOUS
<1>2. p \in Seq(S) /\ Len(p) = Len(a)
  BY <1>1
<1>3. ASSUME NEW i \in 1 .. Len(a) PROVE p[i] = a[i]
  BY <1>1
<1> QED
  BY <1>2, <1>3, SeqEqual

\* Appending to the last part of a concatenation appends to the whole.
LEMMA AppendToConcat ==
  ASSUME NEW S, NEW a \in Seq(S), NEW b \in Seq(S), NEW x \in S
  PROVE  a \o Append(b, x) = Append(a \o b, x)
<1>1. <<x>> \in Seq(S) /\ a \o b \in Seq(S)
  OBVIOUS
<1>2. Append(b, x) = b \o <<x>> /\ Append(a \o b, x) = (a \o b) \o <<x>>
  BY <1>1, AppendIsConcat
<1> QED
  BY <1>1, <1>2, ConcatAssociative

\* A part that is not empty makes the whole that contains it a longer prefix.
LEMMA LongerPrefix ==
  ASSUME NEW S, NEW a \in Seq(S), NEW b \in Seq(S), NEW c \in Seq(S), NEW front \in Seq(S),
         front = a \o b, b # <<>>
  PROVE  /\ Len(front) \in (Len(a) + 1) .. Len(front \o c)
         /\ front = SubSeq(front \o c, 1, Len(front))
<1>1. SubSeq(front \o c, 1, Len(front)) = front
  BY PrefixOfConcat
<1>2. Len(front) = Len(a) + Len(b) /\ Len(b) > 0
  BY ConcatProperties, EmptySeq
<1>3. Len(front \o c) = Len(front) + Len(c)
  BY ConcatProperties
<1>4. Len(front) \in (Len(a) + 1) .. Len(front \o c)
  BY <1>2, <1>3
<1> QED
  BY <1>1, <1>4

\* Concatenation is associative, for all parts at once.
LEMMA Associative ==
  ASSUME NEW S
  PROVE  \A a, b, c \in Seq(S) : (a \o b) \o c = a \o (b \o c)
BY ConcatAssociative

\* Two adjacent parts make up the sequence.
LEMMA SubSeqsJoin ==
  ASSUME NEW S, NEW s \in Seq(S), NEW n \in 0 .. Len(s)
  PROVE  SubSeq(s, 1, n) \o SubSeq(s, n + 1, Len(s)) = SubSeq(s, 1, Len(s))
<1>1. 1 \in 1 .. Len(s) + 1 /\ n \in (1 - 1) .. Len(s) /\ Len(s) \in n .. Len(s)
  OBVIOUS
<1> QED
  BY <1>1, ConcatAdjacentSubSeq

\* A sequence that counts, extended by the next numbers, counts on.
LEMMA CountOn ==
  ASSUME NEW s \in Seq(Nat), NEW n \in Nat, NEW k \in Nat, s = [i \in 1 .. n |-> i]
  PROVE  s \o [i \in 1 .. k |-> n + i] = [i \in 1 .. n + k |-> i]
<1> DEFINE c == [i \in 1 .. k |-> n + i]
           counted == [i \in 1 .. n + k |-> i]
<1>1. c \in Seq(Nat) /\ Len(c) = k /\ counted \in Seq(Nat) /\ Len(counted) = n + k
  OBVIOUS
<1>2. Len(s) = n /\ s \o c \in Seq(Nat) /\ Len(s \o c) = n + k
  BY <1>1, ConcatProperties
<1>3. ASSUME NEW i \in 1 .. n + k PROVE (s \o c)[i] = counted[i]
  <2>1. CASE i <= n
    BY <1>1, <1>2, <2>1
  <2>2. CASE i > n
    <3>1. (s \o c)[i] = c[i - n] /\ i - n \in 1 .. k
      BY <1>1, <1>2, <2>2
    <3> QED
      BY <3>1
  <2> QED
    BY <2>1, <2>2
<1> QED
  BY <1>1, <1>2, <1>3, SeqEqual

\* Moving the head of the second part to the end of the first keeps the whole.
LEMMA MoveHead ==
  ASSUME NEW S, NEW d \in Seq(S), NEW q \in Seq(S), q # <<>>
  PROVE  Append(d, Head(q)) \o Tail(q) = d \o q
<1>1. Head(q) \in S /\ Tail(q) \in Seq(S) /\ q = <<Head(q)>> \o Tail(q)
  BY HeadTailProperties
<1>2. Append(d, Head(q)) = d \o <<Head(q)>> /\ <<Head(q)>> \in Seq(S)
  BY <1>1, AppendIsConcat
<1>3. PICK h \in Seq(S), t \in Seq(S) : h = <<Head(q)>> /\ t = Tail(q)
  BY <1>1, <1>2
<1>4. (d \o h) \o t = d \o (h \o t)
  BY <1>3, Associative
<1> QED
  BY <1>1, <1>2, <1>3, <1>4

\* Removing the head of the second part moves what is behind it by one.
LEMMA DropHead ==
  ASSUME NEW S, NEW d \in Seq(S), NEW q \in Seq(S), q # <<>>
  PROVE  LET p == Len(d) + 1 IN
         /\ d \o Tail(q) \in Seq(S) /\ p \in DOMAIN (d \o q) /\ (d \o q)[p] = Head(q)
         /\ \A i \in DOMAIN (d \o Tail(q)) :
               IF i < p THEN i \in DOMAIN (d \o q) /\ (d \o Tail(q))[i] = (d \o q)[i]
                        ELSE i + 1 \in DOMAIN (d \o q) /\ (d \o Tail(q))[i] = (d \o q)[i + 1]
         /\ \A i \in DOMAIN (d \o q) :
               IF i < p THEN i \in DOMAIN (d \o Tail(q))
                        ELSE i = p \/ i - 1 \in DOMAIN (d \o Tail(q))
<1> DEFINE p == Len(d) + 1
<1>1. /\ Tail(q) \in Seq(S) /\ Len(Tail(q)) = Len(q) - 1 /\ Len(q) \in Nat \ {0} /\ Head(q) = q[1]
      /\ \A i \in 1 .. Len(q) - 1 : Tail(q)[i] = q[i + 1]
  BY HeadTailProperties, EmptySeq
<1>2. PICK t \in Seq(S) : t = Tail(q)
  BY <1>1
<1>3. /\ d \o q \in Seq(S) /\ Len(d \o q) = Len(d) + Len(q)
      /\ \A i \in 1 .. Len(d) + Len(q) : (d \o q)[i] = IF i <= Len(d) THEN d[i] ELSE q[i - Len(d)]
  BY ConcatProperties
<1>4. /\ d \o t \in Seq(S) /\ Len(d \o t) = Len(d) + Len(t)
      /\ \A i \in 1 .. Len(d) + Len(t) : (d \o t)[i] = IF i <= Len(d) THEN d[i] ELSE t[i - Len(d)]
  BY ConcatProperties
<1>5. Len(t) = Len(q) - 1 /\ \A i \in 1 .. Len(q) - 1 : t[i] = q[i + 1]
  BY <1>1, <1>2
<1>6. DOMAIN (d \o q) = 1 .. Len(d) + Len(q) /\ DOMAIN (d \o t) = 1 .. Len(d) + Len(q) - 1
      /\ Len(d) \in Nat
  BY <1>1, <1>3, <1>4, <1>5
<1>7. p \in DOMAIN (d \o q) /\ (d \o q)[p] = q[1]
  BY <1>1, <1>3, <1>6
<1>8. ASSUME NEW i \in DOMAIN (d \o t)
      PROVE  IF i < p THEN i \in DOMAIN (d \o q) /\ (d \o t)[i] = (d \o q)[i]
                      ELSE i + 1 \in DOMAIN (d \o q) /\ (d \o t)[i] = (d \o q)[i + 1]
  <2>1. i \in Nat /\ i >= 1 /\ i <= Len(d) + Len(q) - 1
    BY <1>1, <1>6, <1>8
  <2>2. CASE i < p
    BY <1>1, <1>3, <1>4, <1>5, <1>6, <2>1, <2>2
  <2>3. CASE ~(i < p)
    <3>1. i + 1 \in 1 .. Len(d) + Len(q) /\ (i + 1) - Len(d) = (i - Len(d)) + 1
          /\ i - Len(d) \in 1 .. Len(q) - 1 /\ ~(i + 1 <= Len(d)) /\ ~(i <= Len(d))
          /\ i \in 1 .. Len(d) + Len(t)
      BY <1>1, <1>5, <1>6, <2>1, <2>3
    <3>2. (d \o q)[i + 1] = q[(i - Len(d)) + 1] /\ (d \o t)[i] = t[i - Len(d)]
      BY <1>3, <1>4, <3>1
    <3> QED
      BY <1>5, <1>6, <2>3, <3>1, <3>2
  <2> QED
    BY <2>2, <2>3
<1>9. ASSUME NEW i \in DOMAIN (d \o q)
      PROVE  IF i < p THEN i \in DOMAIN (d \o t) ELSE i = p \/ i - 1 \in DOMAIN (d \o t)
  <2>1. i \in Nat /\ i >= 1 /\ i <= Len(d) + Len(q) /\ Len(q) >= 1 /\ Len(q) \in Nat
    BY <1>1, <1>6, <1>9
  <2> QED
    BY <1>6, <2>1
<1> QED
  BY <1>1, <1>2, <1>4, <1>7, <1>8, <1>9

-----------------------------------------------------------------------------
(* Which kinds of element a sequence has, and in which order.               *)

Occurs(s, E) == \E i \in DOMAIN s : s[i] \in E

AtMostOnce(s, E) == \A i, j \in DOMAIN s : s[i] \in E /\ s[j] \in E => i = j

\* An F comes before every E.
Preceded(s, E, F) == \A i \in DOMAIN s : s[i] \in E => \E j \in DOMAIN s : j < i /\ s[j] \in F

\* What does not occur occurs at most once, and needs nothing before it.
LEMMA NoneOccurs ==
  ASSUME NEW s, NEW E, NEW F, ~Occurs(s, E)
  PROVE  AtMostOnce(s, E) /\ Preceded(s, E, F)
BY DEF Occurs, AtMostOnce, Preceded

\* Appending an element.
LEMMA KindsOfAppend ==
  ASSUME NEW S, NEW s \in Seq(S), NEW x \in S, NEW E, NEW F
  PROVE  /\ Occurs(Append(s, x), E) <=> Occurs(s, E) \/ x \in E
         /\ AtMostOnce(s, E) /\ ~(x \in E /\ Occurs(s, E)) => AtMostOnce(Append(s, x), E)
         /\ AtMostOnce(Append(s, x), E) => AtMostOnce(s, E)
         /\ Preceded(s, E, F) /\ ~(x \in E /\ ~Occurs(s, F)) => Preceded(Append(s, x), E, F)
<1>1. PICK t \in Seq(S) : t = Append(s, x)
  BY AppendProperties
<1>2. /\ DOMAIN s = 1 .. Len(s) /\ Len(s) \in Nat /\ DOMAIN t = 1 .. Len(s) + 1
      /\ \A i \in 1 .. Len(s) : t[i] = s[i]
      /\ t[Len(s) + 1] = x
  BY <1>1, AppendProperties
<1>3. /\ \A i \in DOMAIN t : (i \in DOMAIN s /\ t[i] = s[i]) \/ (i = Len(s) + 1 /\ t[i] = x)
      /\ \A i \in DOMAIN s : i \in DOMAIN t /\ t[i] = s[i] /\ i < Len(s) + 1
      /\ Len(s) + 1 \in DOMAIN t
  BY <1>2
<1>4. Occurs(t, E) <=> Occurs(s, E) \/ x \in E
  BY <1>2, <1>3 DEF Occurs
<1>5. AtMostOnce(s, E) /\ ~(x \in E /\ Occurs(s, E)) => AtMostOnce(t, E)
  BY <1>3 DEF Occurs, AtMostOnce
<1>6. Preceded(s, E, F) /\ ~(x \in E /\ ~Occurs(s, F)) => Preceded(t, E, F)
  BY <1>3 DEF Occurs, Preceded
<1>7. AtMostOnce(t, E) => AtMostOnce(s, E)
  BY <1>3 DEF AtMostOnce
<1> QED
  BY <1>1, <1>4, <1>5, <1>6, <1>7

\* Removing the head of the second part.
LEMMA KindsOfDrop ==
  ASSUME NEW S, NEW d \in Seq(S), NEW q \in Seq(S), q # <<>>, NEW E, NEW F
  PROVE  /\ Occurs(d \o Tail(q), E) => Occurs(d \o q, E)
         /\ Occurs(d \o q, E) => Occurs(d \o Tail(q), E) \/ Head(q) \in E
         /\ AtMostOnce(d \o q, E) => AtMostOnce(d \o Tail(q), E)
         /\ AtMostOnce(d \o Tail(q), E) /\ Head(q) \notin E => AtMostOnce(d \o q, E)
         /\ Preceded(d \o q, E, F) /\ Head(q) \notin F => Preceded(d \o Tail(q), E, F)
<1>1. PICK w : w = d \o q
  OBVIOUS
<1>2. PICK v : v = d \o Tail(q)
  OBVIOUS
<1>3. PICK p : p = Len(d) + 1
  OBVIOUS
<1>4. /\ v \in Seq(S) /\ p \in DOMAIN w /\ w[p] = Head(q)
      /\ \A i \in DOMAIN v : IF i < p THEN i \in DOMAIN w /\ v[i] = w[i]
                                      ELSE i + 1 \in DOMAIN w /\ v[i] = w[i + 1]
      /\ \A i \in DOMAIN w : IF i < p THEN i \in DOMAIN v ELSE i = p \/ i - 1 \in DOMAIN v
  BY <1>1, <1>2, <1>3, DropHead
<1>5. w \in Seq(S)
  BY <1>1, ConcatProperties
<1>6. (\A i \in DOMAIN v : i \in Nat) /\ (\A i \in DOMAIN w : i \in Nat) /\ p \in Nat
  BY <1>4, <1>5
<1> DEFINE up(i) == IF i < p THEN i ELSE i + 1
           down(i) == IF i < p THEN i ELSE i - 1
<1>7. \A i \in DOMAIN v : up(i) \in DOMAIN w /\ v[i] = w[up(i)] /\ up(i) # p
  BY <1>4, <1>6
<1>8. \A i, j \in DOMAIN v : (up(i) = up(j) => i = j) /\ (up(i) < up(j) => i < j)
  BY <1>6
<1>9. \A i \in DOMAIN w : i # p => /\ down(i) \in DOMAIN v /\ up(down(i)) = i
  <2> SUFFICES ASSUME NEW i \in DOMAIN w, i # p
               PROVE  down(i) \in DOMAIN v /\ up(down(i)) = i
    OBVIOUS
  <2>1. CASE i < p
    BY <1>4, <2>1
  <2>2. CASE ~(i < p)
    <3>1. i - 1 \in DOMAIN v /\ ~(i - 1 < p) /\ (i - 1) + 1 = i
      BY <1>4, <1>6, <2>2
    <3> QED
      BY <2>2, <3>1
  <2> QED
    BY <2>1, <2>2
<1> HIDE DEF up, down
<1>10. Occurs(v, E) => Occurs(w, E)
  BY <1>7 DEF Occurs
<1>11. Occurs(w, E) => Occurs(v, E) \/ Head(q) \in E
  BY <1>4, <1>7, <1>9 DEF Occurs
<1>12. AtMostOnce(w, E) => AtMostOnce(v, E)
  BY <1>7, <1>8 DEF AtMostOnce
<1>13. ASSUME Preceded(w, E, F), Head(q) \notin F PROVE Preceded(v, E, F)
  <2> SUFFICES ASSUME NEW i \in DOMAIN v, v[i] \in E
               PROVE  \E j \in DOMAIN v : j < i /\ v[j] \in F
    BY DEF Preceded
  <2>1. PICK k \in DOMAIN w : k < up(i) /\ w[k] \in F
    BY <1>7, <1>13 DEF Preceded
  <2>2. k # p
    BY <1>4, <1>13, <2>1
  <2>3. down(k) \in DOMAIN v /\ up(down(k)) = k
    BY <1>9, <2>2
  <2>4. down(k) < i /\ v[down(k)] = w[k]
    BY <1>7, <1>8, <2>1, <2>3
  <2> QED
    BY <2>1, <2>3, <2>4
<1>14. ASSUME AtMostOnce(v, E), Head(q) \notin E PROVE AtMostOnce(w, E)
  <2> SUFFICES ASSUME NEW i \in DOMAIN w, NEW j \in DOMAIN w, w[i] \in E, w[j] \in E
               PROVE  i = j
    BY DEF AtMostOnce
  <2>1. i # p /\ j # p
    BY <1>4, <1>14
  <2>2. /\ down(i) \in DOMAIN v /\ up(down(i)) = i /\ v[down(i)] = w[i]
        /\ down(j) \in DOMAIN v /\ up(down(j)) = j /\ v[down(j)] = w[j]
    BY <1>7, <1>9, <2>1
  <2>3. down(i) = down(j)
    BY <1>14, <2>2 DEF AtMostOnce
  <2> QED
    BY <2>2, <2>3
<1> QED
  BY <1>1, <1>2, <1>10, <1>11, <1>12, <1>13, <1>14

\* Removing the head of a sequence.
LEMMA KindsOfTail ==
  ASSUME NEW S, NEW q \in Seq(S), q # <<>>, NEW E, NEW F
  PROVE  /\ Occurs(q, E) <=> Occurs(Tail(q), E) \/ Head(q) \in E
         /\ AtMostOnce(q, E) => AtMostOnce(Tail(q), E) /\ ~(Head(q) \in E /\ Occurs(Tail(q), E))
         /\ Preceded(q, E, F) /\ Head(q) \notin F => Preceded(Tail(q), E, F) /\ Head(q) \notin E
<1>1. <<>> \in Seq(S)
  OBVIOUS
<1>2. Tail(q) \in Seq(S) /\ Head(q) = q[1] /\ 1 \in DOMAIN q /\ DOMAIN q = 1 .. Len(q)
  BY HeadTailProperties, EmptySeq
<1>3. <<>> \o q = q /\ <<>> \o Tail(q) = Tail(q)
  BY <1>2, ConcatEmptySeq
<1>4. /\ Occurs(<<>> \o Tail(q), E) => Occurs(<<>> \o q, E)
      /\ Occurs(<<>> \o q, E) => Occurs(<<>> \o Tail(q), E) \/ Head(q) \in E
      /\ AtMostOnce(<<>> \o q, E) => AtMostOnce(<<>> \o Tail(q), E)
      /\ Preceded(<<>> \o q, E, F) /\ Head(q) \notin F => Preceded(<<>> \o Tail(q), E, F)
  BY <1>1, KindsOfDrop
<1>5. Head(q) \in E => Occurs(q, E)
  BY <1>2 DEF Occurs
<1>6. Preceded(q, E, F) /\ Head(q) \in E => \E j \in DOMAIN q : j < 1
  BY <1>2 DEF Preceded
<1>7. ~ \E j \in DOMAIN q : j < 1
  OBVIOUS
<1>8. \A i \in DOMAIN Tail(q) : i + 1 \in DOMAIN q /\ q[i + 1] = Tail(q)[i] /\ i + 1 # 1
  BY <1>2, HeadTailProperties
<1>9. AtMostOnce(q, E) => ~(Head(q) \in E /\ Occurs(Tail(q), E))
  BY <1>2, <1>8 DEF AtMostOnce, Occurs
<1> QED
  BY <1>3, <1>4, <1>5, <1>6, <1>7, <1>9

\* A concatenation has what its parts have.
LEMMA KindsOfConcat ==
  ASSUME NEW S, NEW d \in Seq(S), NEW q \in Seq(S), NEW E
  PROVE  /\ Occurs(d \o q, E) <=> Occurs(d, E) \/ Occurs(q, E)
         /\ AtMostOnce(d \o q, E) => ~(Occurs(d, E) /\ Occurs(q, E))
<1>1. /\ DOMAIN d = 1 .. Len(d) /\ DOMAIN q = 1 .. Len(q) /\ Len(d) \in Nat /\ Len(q) \in Nat
      /\ DOMAIN (d \o q) = 1 .. Len(d) + Len(q)
      /\ \A i \in 1 .. Len(d) + Len(q) : (d \o q)[i] = IF i <= Len(d) THEN d[i] ELSE q[i - Len(d)]
  BY ConcatProperties
<1>2. \A i \in DOMAIN d : i \in DOMAIN (d \o q) /\ (d \o q)[i] = d[i]
  BY <1>1
<1>3. ASSUME NEW i \in DOMAIN q
      PROVE  i + Len(d) \in DOMAIN (d \o q) /\ (d \o q)[i + Len(d)] = q[i]
  <2>1. /\ i + Len(d) \in 1 .. Len(d) + Len(q) /\ ~(i + Len(d) <= Len(d))
        /\ (i + Len(d)) - Len(d) = i
    BY <1>1
  <2> QED
    BY <1>1, <2>1
<1>4. ASSUME NEW i \in DOMAIN (d \o q)
      PROVE  \/ i \in DOMAIN d /\ (d \o q)[i] = d[i]
             \/ i - Len(d) \in DOMAIN q /\ (d \o q)[i] = q[i - Len(d)]
  BY <1>1
<1>5. Occurs(d \o q, E) <=> Occurs(d, E) \/ Occurs(q, E)
  BY <1>2, <1>3, <1>4 DEF Occurs
<1>6. \A i \in DOMAIN d, j \in DOMAIN q : i # j + Len(d)
  BY <1>1
<1>7. AtMostOnce(d \o q, E) => ~(Occurs(d, E) /\ Occurs(q, E))
  BY <1>2, <1>3, <1>6 DEF Occurs, AtMostOnce
<1> QED
  BY <1>5, <1>7
==============================================================================
