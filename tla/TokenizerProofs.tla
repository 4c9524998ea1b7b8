--------------------------- MODULE TokenizerProofs ---------------------------
(***************************************************************************)
(* Whatever the comment, the template is what stands after its tag, its    *)
(* kind is told by its first word, the tokens made of it are well formed,  *)
(* their texts are whole, and nothing of the template is lost.             *)
(*                                                                         *)
(* There are two inductive invariants. Inv, with Cut in it, is about the   *)
(* tokenizer: the tokens and what is left to read make up the template, and *)
(* text that is left follows an action. Told is about the comment: what was *)
(* read of it and what is left make up what stands after the tag. What the *)
(* two compute of sequences, Covers, Normal and RestOf, is found by induction *)
(* over them.                                                              *)
(***************************************************************************)
EXTENDS DocComment, SequenceLemmas

-----------------------------------------------------------------------------
(* Index and TrimSpace. *)

\* The first place where the brace stands twice, if there is one.
LEMMA IndexIsFirst ==
  ASSUME NEW s \in Seq(Symbols), NEW brace
  PROVE  LET n == Index(s, brace)
         IN  /\ n \in 0..Len(s)
             /\ n # 0 => n + 1 <= Len(s) /\ s[n] = brace /\ s[n + 1] = brace
             /\ \A i \in 1..Len(s) - 1 :
                  s[i] = brace /\ s[i + 1] = brace => n # 0 /\ n <= i
PROOF
  <1> DEFINE at == {i \in 1..Len(s) - 1 : s[i] = brace /\ s[i + 1] = brace}
  <1>1. Index(s, brace) = IF at = {} THEN 0 ELSE CHOOSE i \in at : \A j \in at : i <= j
    BY DEF Index
  <1>2. Len(s) \in Nat
    OBVIOUS
  <1>3. CASE at = {}
    <2>1. Index(s, brace) = 0
      BY <1>1, <1>3
    <2>2. \A i \in 1..Len(s) - 1 : ~(s[i] = brace /\ s[i + 1] = brace)
      BY <1>3
    <2> QED BY <1>2, <2>1, <2>2
  <1>4. CASE at # {}
    <2>1. \E i \in at : \A j \in at : i <= j
      <3>1. at \in SUBSET Nat
        OBVIOUS
      <3> HIDE DEF at
      <3> QED BY <1>4, <3>1, LeastElement
    <2>2. Index(s, brace) \in at /\ \A j \in at : Index(s, brace) <= j
      <3> HIDE DEF at
      <3> QED BY <1>1, <1>4, <2>1
    <2> QED BY <1>2, <2>2
  <1> QED BY <1>3, <1>4

\* Spaces only.
Blank(s) == \A i \in 1..Len(s) : s[i] \in Space

\* TrimSpace cuts the spaces at both ends off.
CutOff(s, a, t, b) == Blank(a) /\ Blank(b) /\ s = (a \o t) \o b

\* What comes after the first n symbols.
LEMMA Rear ==
  ASSUME NEW T, NEW s \in Seq(T), NEW n \in 0..Len(s)
  PROVE  LET b == SubSeq(s, n + 1, Len(s))
         IN  /\ b \in Seq(T) /\ Len(b) = Len(s) - n
             /\ \A i \in 1..Len(b) : b[i] = s[n + i] /\ n + i \in n + 1..Len(s)
PROOF
  <1> DEFINE b == SubSeq(s, n + 1, Len(s))
             m == Len(s)
  <1>1. m \in Nat /\ n \in Nat /\ n <= m
    BY LenProperties
  <1>2. /\ b \in Seq(T) /\ Len(b) = IF n + 1 <= m THEN m - (n + 1) + 1 ELSE 0
        /\ \A i \in 1..m - (n + 1) + 1 : b[i] = s[n + 1 + i - 1]
    <2>1. n + 1 \in 1..m + 1 /\ m \in 0..m
      BY <1>1
    <2> QED BY <2>1, PartOf
  <1> HIDE DEF b, m
  <1>3. Len(b) = m - n
    BY <1>1, <1>2
  <1>4. ASSUME NEW i \in 1..Len(b) PROVE b[i] = s[n + i] /\ n + i \in n + 1..m
    <2>1. i \in 1..m - (n + 1) + 1 /\ n + 1 + i - 1 = n + i /\ n + i \in n + 1..m
      BY <1>1, <1>3, <1>4
    <2>2. b[i] = s[n + 1 + i - 1]
      BY <1>2, <2>1
    <2> QED BY <2>1, <2>2
  <1> QED BY <1>2, <1>3, <1>4 DEF b, m

LEMMA TrimParts ==
  ASSUME NEW s \in Seq(Symbols)
  PROVE  LET t == TrimSpace(s)
         IN  /\ t \in Seq(Symbols)
             /\ \E a, b \in Seq(Symbols) : CutOff(s, a, t, b)
             /\ t # << >> => t[1] \notin Space /\ Last(t) \notin Space
             /\ (\E i \in DOMAIN s : s[i] \notin Space) => t # << >>
PROOF
  <1> DEFINE solid == {i \in DOMAIN s : s[i] \notin Space}
             first == CHOOSE i \in solid : \A j \in solid : i <= j
             last == CHOOSE i \in solid : \A j \in solid : j <= i
  <1>1. TrimSpace(s) = IF solid = {} THEN << >> ELSE SubSeq(s, first, last)
    BY DEF TrimSpace
  <1>2. Len(s) \in Nat /\ DOMAIN s = 1..Len(s)
    BY LenProperties
  <1>3. CASE solid = {}
    <2>1. Blank(s)
      BY <1>2, <1>3 DEF Blank
    <2>2. << >> \in Seq(Symbols) /\ s \o << >> = s
      BY EmptySeq, ConcatEmptySeq
    <2>3. Blank(<< >>)
      BY DEF Blank
    <2>4. CutOff(s, s, << >>, << >>)
      BY <2>1, <2>2, <2>3 DEF CutOff
    <2>5. ~\E i \in DOMAIN s : s[i] \notin Space
      BY <1>3
    <2> HIDE DEF solid
    <2> QED BY <1>1, <1>3, <2>2, <2>4, <2>5
  <1>4. CASE solid # {}
    <2>1. solid \in SUBSET Nat /\ solid \subseteq 0..Len(s)
      BY <1>2
    <2>2. (\E i \in solid : \A j \in solid : i <= j) /\ \E i \in solid : \A j \in solid : j <= i
      <3> HIDE DEF solid
      <3> QED BY <1>2, <1>4, <2>1, LeastElement, GreatestElement
    <2>3. /\ first \in solid /\ \A j \in solid : first <= j
          /\ last \in solid /\ \A j \in solid : j <= last
      <3> HIDE DEF solid
      <3> QED BY <2>2
    <2> HIDE DEF first, last
    <2>4. /\ first \in 1..Len(s) /\ last \in 1..Len(s) /\ first <= last
          /\ s[first] \notin Space /\ s[last] \notin Space
          /\ \A i \in 1..first - 1 : s[i] \in Space
          /\ \A i \in last + 1..Len(s) : s[i] \in Space
      BY <1>2, <2>3
    <2> DEFINE t == SubSeq(s, first, last)
               a == SubSeq(s, 1, first - 1)
               b == SubSeq(s, last + 1, Len(s))
               u == SubSeq(s, 1, last)
    <2>5. /\ t \in Seq(Symbols) /\ Len(t) = last - first + 1
          /\ \A i \in 1..last - first + 1 : t[i] = s[first + i - 1]
      BY <2>4, PartOf
    <2>6. /\ a \in Seq(Symbols) /\ Len(a) = first - 1 /\ \A i \in 1..first - 1 : a[i] = s[i]
          /\ b \in Seq(Symbols) /\ \A i \in 1..Len(b) : b[i] = s[last + i] /\ last + i \in last + 1..Len(s)
      <3>1. a \in Seq(Symbols) /\ Len(a) = first - 1 /\ \A i \in 1..first - 1 : a[i] = s[i]
        <4>1. /\ a \in Seq(Symbols) /\ Len(a) = IF 1 <= first - 1 THEN first - 1 - 1 + 1 ELSE 0
              /\ \A i \in 1..first - 1 - 1 + 1 : a[i] = s[1 + i - 1]
          BY <2>4, PartOf
        <4> HIDE DEF a
        <4> QED BY <2>4, <4>1
      <3>2. b \in Seq(Symbols) /\ \A i \in 1..Len(b) : b[i] = s[last + i] /\ last + i \in last + 1..Len(s)
        BY <1>2, <2>4, Rear
      <3> QED BY <3>1, <3>2
    <2>7. Blank(a) /\ Blank(b)
      <3> HIDE DEF a, b
      <3> QED BY <2>4, <2>6 DEF Blank
    <2>8. s = u \o b
      BY <2>4, CutInTwo
    <2>9. u = a \o t
      <3>1. 1 \in 1..Len(s) + 1 /\ first - 1 \in 1 - 1..last /\ last \in first - 1..Len(s)
        BY <2>4
      <3>2. first - 1 + 1 = first
        BY <2>4
      <3> QED BY <3>1, <3>2, <2>4, ConcatAdjacentSubSeq
    <2>10. t # << >> /\ t[1] \notin Space /\ Last(t) \notin Space
      <3> HIDE DEF t
      <3> QED BY <2>4, <2>5 DEF Last
    <2>11. TrimSpace(s) = t
      BY <1>1, <1>4 DEF first, last, t
    <2> HIDE DEF t, a, b, u
    <2>12. CutOff(s, a, t, b)
      BY <2>7, <2>8, <2>9 DEF CutOff
    <2> QED BY <2>5, <2>6, <2>10, <2>11, <2>12
  <1> QED BY <1>3, <1>4

-----------------------------------------------------------------------------
(* Sequences put together of three. *)

\* The parts of x, y and z put together.
LEMMA ThreeParts ==
  ASSUME NEW T, NEW x \in Seq(T), NEW y \in Seq(T), NEW z \in Seq(T),
         NEW s, s = (x \o y) \o z
  PROVE  /\ s \in Seq(T) /\ Len(s) = Len(x) + Len(y) + Len(z)
         /\ \A i \in 1..Len(x) : s[i] = x[i]
         /\ \A i \in 1..Len(y) : s[Len(x) + i] = y[i]
         /\ \A i \in 1..Len(z) : s[Len(x) + Len(y) + i] = z[i]
PROOF
  <1>1. PICK u \in Seq(T) : u = x \o y
    BY ConcatProperties
  <1>2. s \in Seq(T) /\ s = u \o z
    BY <1>1, ConcatProperties
  <1>3. /\ Len(u) = Len(x) + Len(y) /\ Len(x) \in Nat /\ Len(y) \in Nat /\ Len(z) \in Nat
        /\ \A i \in 1..Len(u) : u[i] = IF i <= Len(x) THEN x[i] ELSE y[i - Len(x)]
    BY <1>1, ConcatProperties
  <1>4. /\ Len(s) = Len(u) + Len(z)
        /\ \A i \in 1..Len(s) : s[i] = IF i <= Len(u) THEN u[i] ELSE z[i - Len(u)]
    BY <1>2, ConcatProperties
  <1>5. \A i \in 1..Len(x) : s[i] = x[i]
    BY <1>3, <1>4
  <1>6. ASSUME NEW i \in 1..Len(y) PROVE s[Len(x) + i] = y[i]
    <2>1. Len(x) + i \in 1..Len(u) /\ Len(x) + i \in 1..Len(s) /\ ~(Len(x) + i <= Len(x)) /\ Len(x) + i - Len(x) = i
      BY <1>3, <1>4
    <2> QED BY <1>3, <1>4, <2>1
  <1>7. ASSUME NEW i \in 1..Len(z) PROVE s[Len(x) + Len(y) + i] = z[i]
    <2>1. Len(u) + i \in 1..Len(s) /\ ~(Len(u) + i <= Len(u)) /\ Len(u) + i - Len(u) = i
      BY <1>3, <1>4
    <2> QED BY <1>3, <1>4, <2>1
  <1> QED BY <1>1, <1>2, <1>3, <1>4, <1>5, <1>6, <1>7

\* A part is found again where it was put.
LEMMA MiddlePart ==
  ASSUME NEW T, NEW x \in Seq(T), NEW y \in Seq(T), NEW z \in Seq(T)
  PROVE  SubSeq((x \o y) \o z, Len(x) + 1, Len(x) + Len(y)) = y
PROOF
  <1>1. PICK s : s = (x \o y) \o z
    OBVIOUS
  <1>2. /\ s \in Seq(T) /\ Len(s) = Len(x) + Len(y) + Len(z)
        /\ \A i \in 1..Len(y) : s[Len(x) + i] = y[i]
    BY <1>1, ThreeParts
  <1>3. Len(x) \in Nat /\ Len(y) \in Nat /\ Len(z) \in Nat
    BY LenProperties
  <1>4. PICK p : p = SubSeq(s, Len(x) + 1, Len(x) + Len(y))
    OBVIOUS
  <1>5. /\ p \in Seq(T) /\ Len(p) = Len(y)
        /\ \A i \in 1..Len(y) : p[i] = s[Len(x) + 1 + i - 1]
    <2>1. Len(x) + 1 \in 1..Len(s) + 1 /\ Len(x) + Len(y) \in 0..Len(s)
      BY <1>2, <1>3
    <2>2. Len(x) + Len(y) - (Len(x) + 1) + 1 = Len(y) /\ (Len(x) + 1 <= Len(x) + Len(y) <=> Len(y) # 0)
      BY <1>3
    <2> QED BY <1>2, <1>3, <1>4, <2>1, <2>2, PartOf
  <1>6. \A i \in 1..Len(y) : p[i] = y[i]
    <2> TAKE i \in 1..Len(y)
    <2>1. Len(x) + 1 + i - 1 = Len(x) + i
      BY <1>3
    <2> QED BY <1>2, <1>5, <2>1
  <1>7. p = y
    BY <1>5, <1>6, SeqEqual
  <1> QED BY <1>1, <1>4, <1>7

\* What comes before the parts, and after the first and the second.
LEMMA OuterParts ==
  ASSUME NEW T, NEW x \in Seq(T), NEW y \in Seq(T), NEW n, n = Len(x)
  PROVE  To(x \o y, n) = x /\ From(x \o y, n + 1) = y
PROOF
  <1>1. << >> \in Seq(T) /\ Len(<< >>) = 0
    BY EmptySeq
  <1>2. Len(x) \in Nat /\ Len(y) \in Nat /\ x \o y \in Seq(T) /\ Len(x \o y) = Len(x) + Len(y)
    BY ConcatProperties, LenProperties
  <1>3. (<< >> \o x) \o y = x \o y /\ (x \o y) \o << >> = x \o y
    BY <1>2, ConcatEmptySeq
  <1>4. SubSeq((<< >> \o x) \o y, Len(<< >>) + 1, Len(<< >>) + Len(x)) = x
    BY <1>1, MiddlePart
  <1>5. SubSeq((x \o y) \o << >>, Len(x) + 1, Len(x) + Len(y)) = y
    BY <1>1, MiddlePart
  <1>6. Len(<< >>) + 1 = 1 /\ Len(<< >>) + Len(x) = Len(x)
    BY <1>1, <1>2
  <1> QED BY <1>2, <1>3, <1>4, <1>5, <1>6 DEF To, From

-----------------------------------------------------------------------------
(* Spaces around words. *)

\* Spaces before and after t.
LEMMA PaddedCut ==
  ASSUME NEW a \in Seq(Symbols), NEW t \in Seq(Symbols), NEW b \in Seq(Symbols),
         Blank(a), Blank(b)
  PROVE  Padded((a \o t) \o b, t)
PROOF
  <1>1. PICK s : s = (a \o t) \o b
    OBVIOUS
  <1>2. /\ s \in Seq(Symbols) /\ Len(s) = Len(a) + Len(t) + Len(b)
        /\ \A i \in 1..Len(a) : s[i] = a[i]
        /\ \A i \in 1..Len(b) : s[Len(a) + Len(t) + i] = b[i]
    BY <1>1, ThreeParts
  <1>3. Len(a) \in Nat /\ Len(t) \in Nat /\ Len(b) \in Nat /\ DOMAIN s = 1..Len(s)
    BY <1>2, LenProperties
  <1>4. SubSeq(s, Len(a) + 1, Len(a) + Len(t)) = t
    BY <1>1, MiddlePart
  <1>5. ASSUME NEW i \in DOMAIN s, i \notin Len(a) + 1..Len(a) + Len(t) PROVE s[i] \in Space
    <2>1. CASE i \in 1..Len(a)
      BY <1>2, <2>1 DEF Blank
    <2>2. CASE i > Len(a) + Len(t)
      <3>1. PICK k \in 1..Len(b) : i = Len(a) + Len(t) + k
        <4>1. i - (Len(a) + Len(t)) \in 1..Len(b) /\ i = Len(a) + Len(t) + (i - (Len(a) + Len(t)))
          BY <1>2, <1>3, <2>2
        <4> QED BY <4>1
      <3> QED BY <1>2, <3>1 DEF Blank
    <2> QED BY <1>3, <1>5, <2>1, <2>2
  <1>6. Len(a) \in 0..Len(s) - Len(t)
    BY <1>2, <1>3
  <1>7. Padded(s, t)
    BY <1>4, <1>5, <1>6 DEF Padded
  <1> QED BY <1>1, <1>7

\* A space less before it.
LEMMA PaddedAfterSpace ==
  ASSUME NEW c \in Symbols, c \in Space, NEW v \in Seq(Symbols), NEW t \in Seq(Symbols),
         t # << >>, t[1] \notin Space, Padded(<<c>> \o v, t)
  PROVE  Padded(v, t)
PROOF
  <1>1. PICK s : s = <<c>> \o v
    OBVIOUS
  <1>2. <<c>> \in Seq(Symbols) /\ Len(<<c>>) = 1 /\ <<c>>[1] = c
    OBVIOUS
  <1>3. /\ s \in Seq(Symbols) /\ Len(s) = 1 + Len(v)
        /\ \A i \in 1..Len(s) : s[i] = IF i <= 1 THEN <<c>>[i] ELSE v[i - 1]
    BY <1>1, <1>2, ConcatProperties
  <1>4. Len(v) \in Nat /\ Len(t) \in Nat \ {0} /\ DOMAIN s = 1..Len(s) /\ DOMAIN v = 1..Len(v)
    BY <1>3, LenProperties, EmptySeq
  <1>5. s[1] = c /\ \A i \in 1..Len(v) : s[i + 1] = v[i]
    <2>1. s[1] = c
      BY <1>2, <1>3, <1>4
    <2>2. ASSUME NEW i \in 1..Len(v) PROVE s[i + 1] = v[i]
      <3>1. i + 1 \in 1..Len(s) /\ ~(i + 1 <= 1) /\ i + 1 - 1 = i
        BY <1>3, <1>4
      <3> QED BY <1>3, <3>1
    <2> QED BY <2>1, <2>2
  <1>6. PICK a \in 0..Len(s) - Len(t) :
          /\ SubSeq(s, a + 1, a + Len(t)) = t
          /\ \A i \in DOMAIN s : i \in a + 1..a + Len(t) \/ s[i] \in Space
    BY <1>1 DEF Padded
  <1>7. a \in Nat /\ a + Len(t) <= Len(s)
    BY <1>3, <1>4
  <1>8. \A i \in 1..Len(t) : t[i] = s[a + i]
    <2> TAKE i \in 1..Len(t)
    <2>1. a + 1 \in 1..Len(s) + 1 /\ a + Len(t) \in 0..Len(s) /\ i \in 1..(a + Len(t)) - (a + 1) + 1
      BY <1>3, <1>4, <1>7
    <2>2. a + 1 + i - 1 = a + i
      BY <1>7
    <2> QED BY <1>3, <1>6, <2>1, <2>2, PartOf
  <1>9. a # 0
    <2> SUFFICES ASSUME a = 0 PROVE FALSE
      OBVIOUS
    <2>1. 1 \in 1..Len(t) /\ a + 1 = 1
      BY <1>4
    <2> QED BY <1>5, <1>8, <2>1
  <1>10. a - 1 \in 0..Len(v) - Len(t) /\ a - 1 + 1 = a /\ a - 1 \in Nat
    BY <1>3, <1>4, <1>7, <1>9
  <1>11. SubSeq(v, a - 1 + 1, a - 1 + Len(t)) = t
    <2>1. PICK p : p = SubSeq(v, a - 1 + 1, a - 1 + Len(t))
      OBVIOUS
    <2>2. a - 1 + 1 \in 1..Len(v) + 1 /\ a - 1 + Len(t) \in 0..Len(v)
      BY <1>4, <1>10
    <2>3. a - 1 + Len(t) - (a - 1 + 1) + 1 = Len(t) /\ a - 1 + 1 <= a - 1 + Len(t)
      BY <1>4, <1>10
    <2>4. /\ p \in Seq(Symbols) /\ Len(p) = Len(t)
          /\ \A i \in 1..Len(t) : p[i] = v[a - 1 + 1 + i - 1]
      BY <2>1, <2>2, <2>3, PartOf
    <2>5. ASSUME NEW i \in 1..Len(t) PROVE p[i] = t[i]
      <3>1. a - 1 + 1 + i - 1 = a - 1 + i /\ a - 1 + i \in 1..Len(v) /\ a - 1 + i + 1 = a + i
        BY <1>3, <1>4, <1>7, <1>10
      <3> QED BY <1>5, <1>8, <2>4, <3>1
    <2>6. p = t
      BY <2>4, <2>5, SeqEqual
    <2> QED BY <2>1, <2>6
  <1>12. ASSUME NEW i \in DOMAIN v PROVE i \in a - 1 + 1..a - 1 + Len(t) \/ v[i] \in Space
    <2>1. i + 1 \in DOMAIN s /\ v[i] = s[i + 1]
      BY <1>3, <1>4, <1>5
    <2>2. i + 1 \in a + 1..a + Len(t) => i \in a - 1 + 1..a - 1 + Len(t)
      BY <1>4, <1>10
    <2> QED BY <1>6, <2>1, <2>2
  <1> QED BY <1>10, <1>11, <1>12 DEF Padded

\* More spaces after it.
LEMMA PaddedBefore ==
  ASSUME NEW v \in Seq(Symbols), NEW t \in Seq(Symbols), NEW z \in Seq(Symbols),
         Blank(z), Padded(v, t)
  PROVE  Padded(v \o z, t)
PROOF
  <1>1. PICK s : s = v \o z
    OBVIOUS
  <1>2. /\ s \in Seq(Symbols) /\ Len(s) = Len(v) + Len(z)
        /\ \A i \in 1..Len(s) : s[i] = IF i <= Len(v) THEN v[i] ELSE z[i - Len(v)]
    BY <1>1, ConcatProperties
  <1>3. Len(v) \in Nat /\ Len(z) \in Nat /\ Len(t) \in Nat /\ DOMAIN s = 1..Len(s) /\ DOMAIN v = 1..Len(v)
    BY <1>2, LenProperties
  <1>4. PICK a \in 0..Len(v) - Len(t) :
          /\ SubSeq(v, a + 1, a + Len(t)) = t
          /\ \A i \in DOMAIN v : i \in a + 1..a + Len(t) \/ v[i] \in Space
    BY DEF Padded
  <1>5. a \in 0..Len(s) - Len(t) /\ a \in Nat /\ a + Len(t) <= Len(v)
    BY <1>2, <1>3
  <1>6. SubSeq(s, a + 1, a + Len(t)) = t
    <2>1. PICK p : p = SubSeq(s, a + 1, a + Len(t))
      OBVIOUS
    <2>2. PICK q : q = SubSeq(v, a + 1, a + Len(t))
      OBVIOUS
    <2>3. /\ a + 1 \in 1..Len(v) + 1 /\ a + Len(t) \in 0..Len(v)
          /\ a + 1 \in 1..Len(s) + 1 /\ a + Len(t) \in 0..Len(s)
      BY <1>2, <1>3, <1>5
    <2>4. /\ p \in Seq(Symbols) /\ q \in Seq(Symbols) /\ Len(p) = Len(q)
          /\ Len(p) = IF a + 1 <= a + Len(t) THEN a + Len(t) - (a + 1) + 1 ELSE 0
          /\ \A i \in 1..a + Len(t) - (a + 1) + 1 : p[i] = s[a + 1 + i - 1] /\ q[i] = v[a + 1 + i - 1]
      BY <1>2, <2>1, <2>2, <2>3, PartOf
    <2>5. ASSUME NEW i \in 1..Len(p) PROVE p[i] = q[i]
      <3>1. i \in 1..a + Len(t) - (a + 1) + 1 /\ a + 1 + i - 1 \in 1..Len(s) /\ a + 1 + i - 1 <= Len(v)
        BY <1>2, <1>3, <1>5, <2>4
      <3> QED BY <1>2, <2>4, <3>1
    <2>6. p = q
      BY <2>4, <2>5, SeqEqual
    <2> QED BY <1>4, <2>1, <2>2, <2>6
  <1>7. ASSUME NEW i \in DOMAIN s PROVE i \in a + 1..a + Len(t) \/ s[i] \in Space
    <2>1. CASE i <= Len(v)
      BY <1>2, <1>3, <1>4, <2>1
    <2>2. CASE i > Len(v)
      <3>1. i - Len(v) \in 1..Len(z) /\ s[i] = z[i - Len(v)]
        BY <1>2, <1>3, <2>2
      <3> QED BY <3>1 DEF Blank
    <2> QED BY <1>3, <2>1, <2>2
  <1>8. Padded(s, t)
    BY <1>5, <1>6, <1>7 DEF Padded
  <1> QED BY <1>1, <1>8

\* Words that are nothing but the spaces around t.
LEMMA PaddedByNothing ==
  ASSUME NEW t \in Seq(Symbols)
  PROVE  Padded(t, t)
PROOF
  <1>1. << >> \in Seq(Symbols) /\ Blank(<< >>)
    BY EmptySeq DEF Blank
  <1>2. Padded((<< >> \o t) \o << >>, t)
    BY <1>1, PaddedCut
  <1>3. (<< >> \o t) \o << >> = t
    BY ConcatEmptySeq
  <1> QED BY <1>2, <1>3

-----------------------------------------------------------------------------
(* Tokens. *)

TokenSet == [kind : Kinds, text : Seq(Symbols)]

LEMMA Short ==
  ASSUME NEW T, NEW x \in T, NEW y \in T
  PROVE  <<x>> \in Seq(T) /\ <<x, y>> \in Seq(T) /\ SubSeq(<<x, y>>, 1, 2) = <<x, y>>
PROOF
  <1> DEFINE s == <<x, y>>
  <1>1. <<x>> \in Seq(T) /\ s \in Seq(T) /\ Len(s) = 2
    OBVIOUS
  <1>2. SubSeq(s, 1, 2) = s
    <2> HIDE DEF s
    <2> QED BY <1>1, SubSeqFull
  <1> QED BY <1>1, <1>2

LEMMA ShortOfFour ==
  ASSUME NEW T, NEW x \in T, NEW y \in T, NEW z \in T, NEW w \in T
  PROVE  <<x, y, z, w>> \in Seq(T)
PROOF
  OBVIOUS

LEMMA Braces == <<"{", "{">> \in Seq(Symbols) /\ <<"}", "}">> \in Seq(Symbols)
PROOF
  <1>1. "{" \in Symbols /\ "}" \in Symbols
    BY SymbolsAssumption
  <1> QED BY <1>1, Short

LEMMA StartsWithElseIf ==
  ASSUME NEW s, IsPrefix(ElseIfPrefix, s)
  PROVE  Len(s) >= 3 + 1 /\ SubSeq(s, 1, 3 + 1) = ElseIfPrefix /\ ElseIfPrefix[3 + 1] \in Space
PROOF
  <1> USE DEF ElseIfPrefix
  <1>1. Len(ElseIfPrefix) = 4 /\ ElseIfPrefix[4] = " "
    OBVIOUS
  <1>2. SubSeq(ElseIfPrefix, 1, 4) = ElseIfPrefix
    <2>1. "else" \in Symbols /\ " " \in Symbols /\ "if" \in Symbols
      BY SymbolsAssumption DEF Keywords, Space
    <2>2. PICK s4 \in Seq(Symbols) : s4 = ElseIfPrefix /\ Len(s4) = 4
      BY <1>1, <2>1, ShortOfFour
    <2>3. SubSeq(s4, 1, Len(s4)) = s4
      BY SubSeqFull
    <2> QED BY <2>2, <2>3
  <1> HIDE DEF ElseIfPrefix
  <1>3. Len(s) >= 4 /\ SubSeq(s, 1, 4) = ElseIfPrefix
    BY <1>1, <1>2 DEF IsPrefix
  <1>4. 3 + 1 = 4
    OBVIOUS
  <1>5. ElseIfPrefix[4] \in Space
    BY <1>1, Zenon DEF Space
  <1> QED BY <1>3, <1>4, <1>5

LEMMA StartsWithIf ==
  ASSUME NEW s, IsPrefix(IfPrefix, s)
  PROVE  Len(s) >= 1 + 1 /\ SubSeq(s, 1, 1 + 1) = IfPrefix /\ IfPrefix[1 + 1] \in Space
PROOF
  <1> USE DEF IfPrefix
  <1>1. Len(IfPrefix) = 2 /\ IfPrefix[2] = " "
    OBVIOUS
  <1>2. SubSeq(IfPrefix, 1, 2) = IfPrefix
    <2>1. " " \in Symbols /\ "if" \in Symbols
      BY SymbolsAssumption DEF Keywords, Space
    <2> QED BY <2>1, Short
  <1> HIDE DEF IfPrefix
  <1>3. Len(s) >= 2 /\ SubSeq(s, 1, 2) = IfPrefix
    BY <1>1, <1>2 DEF IsPrefix
  <1>4. 1 + 1 = 2
    OBVIOUS
  <1>5. IfPrefix[2] \in Space
    BY <1>1, Zenon DEF Space
  <1> QED BY <1>3, <1>4, <1>5

Trimmed(s) == s # << >> => s[1] \notin Space /\ Last(s) \notin Space

\* What stands after a keyword and its space is an expression.
LEMMA AfterKeyword ==
  ASSUME NEW s \in Seq(Symbols), Trimmed(s), NEW n \in Nat \ {0}, n + 1 <= Len(s),
         NEW prefix, SubSeq(s, 1, n + 1) = prefix, prefix[n + 1] \in Space
  PROVE  LET t == TrimSpace(From(s, n + 1))
         IN  /\ t \in Seq(Symbols) /\ t # << >> /\ Trimmed(t)
             /\ prefix \in Seq(Symbols) /\ From(s, n + 2) \in Seq(Symbols)
             /\ s = prefix \o From(s, n + 2) /\ Padded(From(s, n + 2), t)
PROOF
  <1> DEFINE r == From(s, n + 1)
             v == From(s, n + 2)
             t == TrimSpace(r)
  <1>1. Len(s) \in Nat /\ n + 1 \in 0..Len(s) /\ n + 1 \in 1..Len(s) /\ n + 1 + 1 = n + 2
    OBVIOUS
  <1>2. prefix \in Seq(Symbols) /\ v \in Seq(Symbols) /\ s = prefix \o v
    <2>1. 1 \in 1..Len(s) + 1 /\ n + 2 \in 1..Len(s) + 1 /\ Len(s) \in 0..Len(s)
      BY <1>1
    <2> QED BY <1>1, <2>1, CutInTwo, PartOf DEF From
  <1>3. s[n + 1] \in Space /\ s[n + 1] \in Symbols
    <2>1. 1 \in 1..Len(s) + 1 /\ n + 1 \in 1..n + 1 - 1 + 1 /\ 1 + (n + 1) - 1 = n + 1
      BY <1>1
    <2>2. prefix[n + 1] = s[1 + (n + 1) - 1]
      BY <1>1, <2>1, PartOf
    <2> QED BY <1>1, <2>1, <2>2, ElementOfSeq
  <1>4. r = <<s[n + 1]>> \o v
    <2>1. SubSeq(s, n + 1, Len(s)) = << s[n + 1] >> \o SubSeq(s, n + 1 + 1, Len(s))
      BY <1>1, SubSeqRecursiveFirst
    <2> QED BY <1>1, <2>1 DEF From
  <1>5. r \in Seq(Symbols) /\ Len(r) = Len(s) - n /\ r[Len(s) - n] = s[Len(s)]
    <2>1. n + 1 \in 1..Len(s) + 1 /\ Len(s) \in 0..Len(s) /\ Len(s) - (n + 1) + 1 = Len(s) - n
          /\ n + 1 <= Len(s) /\ Len(s) - n \in 1..Len(s) - n /\ n + 1 + (Len(s) - n) - 1 = Len(s)
      BY <1>1
    <2> QED BY <2>1, PartOf DEF From
  <1>6. s[Len(s)] \notin Space
    BY <1>1 DEF Trimmed, Last
  <1> HIDE DEF r, v
  <1>7. \E i \in DOMAIN r : r[i] \notin Space
    <2>1. Len(s) - n \in DOMAIN r
      BY <1>1, <1>5, LenProperties
    <2> QED BY <1>5, <1>6, <2>1
  <1>8. t \in Seq(Symbols) /\ t # << >> /\ Trimmed(t)
    BY <1>5, <1>7, TrimParts DEF Trimmed
  <1>9. Padded(r, t)
    <2>1. PICK a \in Seq(Symbols), b \in Seq(Symbols) : CutOff(r, a, t, b)
      BY <1>5, TrimParts
    <2> HIDE DEF t
    <2> QED BY <1>8, <2>1, PaddedCut DEF CutOff
  <1> HIDE DEF t
  <1>10. PICK c \in Symbols : c = s[n + 1] /\ c \in Space
    BY <1>3
  <1>11. Padded(v, t)
    BY <1>2, <1>4, <1>8, <1>9, <1>10, PaddedAfterSpace DEF Trimmed
  <1> QED BY <1>2, <1>8, <1>11 DEF t, r, v

\* A keyword, an expression with spaces around it, and spaces around both.
LEMMA KeywordSays ==
  ASSUME NEW tk, NEW a \in Seq(Symbols), NEW b \in Seq(Symbols), Blank(a), Blank(b),
         Keyword(tk) \in Seq(Symbols), tk.text \in Seq(Symbols),
         NEW v \in Seq(Symbols), Padded(v, tk.text)
  PROVE  Says(tk, (a \o (Keyword(tk) \o v)) \o b)
PROOF
  <1>1. PICK k : k = Keyword(tk)
    OBVIOUS
  <1>2. PICK x \in Seq(Symbols) : x = a \o k
    BY <1>1, ConcatProperties
  <1>3. PICK y \in Seq(Symbols) : y = v \o b
    BY ConcatProperties
  <1>4. PICK w \in Seq(Symbols) : w = x \o y
    BY ConcatProperties
  <1>5. (a \o (k \o v)) \o b = w
    <2>1. PICK u \in Seq(Symbols) : u = k \o v
      BY <1>1, ConcatProperties
    <2>2. Associates(a, k, v) /\ Associates(x, v, b) /\ k \in Seq(Symbols)
      BY <1>1, AllAssociate
    <2> QED BY <1>2, <1>3, <1>4, <2>2 DEF Associates
  <1>6. Len(x) \in 0..Len(w) /\ To(w, Len(x)) = x /\ From(w, Len(x) + 1) = y
    <2>1. Len(w) = Len(x) + Len(y) /\ Len(x) \in Nat /\ Len(y) \in Nat
      BY <1>4, ConcatProperties, LenProperties
    <2> QED BY <1>4, <2>1, OuterParts
  <1>7. Padded(x, k)
    <2>1. << >> \in Seq(Symbols) /\ Blank(<< >>) /\ x \o << >> = x
      BY EmptySeq, ConcatEmptySeq DEF Blank
    <2>2. Padded((a \o k) \o << >>, k)
      BY <1>1, <2>1, PaddedCut
    <2> QED BY <1>2, <2>1, <2>2
  <1>8. Padded(y, tk.text)
    BY <1>3, PaddedBefore
  <1>9. Says(tk, w)
    BY <1>1, <1>6, <1>7, <1>8 DEF Says
  <1> QED BY <1>1, <1>5, <1>9

\* What is said of the token of an action.
SaidBy(tk, words) ==
  /\ tk \in TokenSet /\ tk.kind # "text"
  /\ tk.kind \in {"if", "elseif"} => tk.text # << >> /\ Trimmed(tk.text)
  /\ Says(tk, words)

\* A token says the words of its action, with the spaces around them.
LEMMA ActionSays ==
  ASSUME NEW s \in Seq(Symbols), Trimmed(s), NEW tk \in ClassifyAction(s),
         NEW a \in Seq(Symbols), NEW b \in Seq(Symbols), Blank(a), Blank(b)
  PROVE  SaidBy(tk, (a \o s) \o b)
PROOF
  <1> USE DEF Tok, TokenSet, Kinds
  <1>0. << >> \in Seq(Symbols) /\ s \o << >> = s /\ << >> \o s = s
    BY EmptySeq, ConcatEmptySeq
  <1>1. ASSUME NEW k \in {"end", "else"}, s = <<k>>, tk = Tok(k, << >>)
        PROVE  SaidBy(tk, (a \o s) \o b)
    <2>1. Keyword(tk) = s /\ tk.text = << >>
      BY <1>1 DEF Keyword
    <2>2. Says(tk, (a \o (s \o << >>)) \o b)
      BY <1>0, <2>1, KeywordSays, PaddedByNothing
    <2> QED BY <1>0, <1>1, <2>2 DEF SaidBy
  <1>2. ASSUME IsPrefix(ElseIfPrefix, s), tk = Tok("elseif", TrimSpace(From(s, 4)))
        PROVE  SaidBy(tk, (a \o s) \o b)
    <2>1. Len(s) >= 3 + 1 /\ SubSeq(s, 1, 3 + 1) = ElseIfPrefix /\ ElseIfPrefix[3 + 1] \in Space
      BY <1>2, StartsWithElseIf
    <2>2. LET t == TrimSpace(From(s, 3 + 1))
          IN  /\ t \in Seq(Symbols) /\ t # << >> /\ Trimmed(t)
              /\ ElseIfPrefix \in Seq(Symbols) /\ From(s, 3 + 2) \in Seq(Symbols)
              /\ s = ElseIfPrefix \o From(s, 3 + 2) /\ Padded(From(s, 3 + 2), t)
      <3>1. 3 \in Nat \ {0} /\ 3 + 1 <= Len(s)
        BY <2>1
      <3> QED BY <2>1, <3>1, AfterKeyword
    <2>3. PICK v \in Seq(Symbols) : s = ElseIfPrefix \o v /\ Padded(v, tk.text)
      <3>1. tk.text = TrimSpace(From(s, 3 + 1))
        BY <1>2
      <3> QED BY <2>2, <3>1
    <2>4. tk.text \in Seq(Symbols) /\ tk.text # << >> /\ Trimmed(tk.text) /\ tk.kind = "elseif"
      BY <1>2, <2>2
    <2>5. Keyword(tk) = ElseIfPrefix
      BY <2>4 DEF Keyword
    <2>6. Says(tk, (a \o s) \o b)
      BY <2>2, <2>3, <2>4, <2>5, KeywordSays
    <2> QED BY <1>2, <2>4, <2>6 DEF SaidBy
  <1>3. ASSUME IsPrefix(IfPrefix, s), tk = Tok("if", TrimSpace(From(s, 2)))
        PROVE  SaidBy(tk, (a \o s) \o b)
    <2>1. Len(s) >= 1 + 1 /\ SubSeq(s, 1, 1 + 1) = IfPrefix /\ IfPrefix[1 + 1] \in Space
      BY <1>3, StartsWithIf
    <2>2. LET t == TrimSpace(From(s, 1 + 1))
          IN  /\ t \in Seq(Symbols) /\ t # << >> /\ Trimmed(t)
              /\ IfPrefix \in Seq(Symbols) /\ From(s, 1 + 2) \in Seq(Symbols)
              /\ s = IfPrefix \o From(s, 1 + 2) /\ Padded(From(s, 1 + 2), t)
      <3>1. 1 \in Nat \ {0} /\ 1 + 1 <= Len(s)
        BY <2>1
      <3> QED BY <2>1, <3>1, AfterKeyword
    <2>3. PICK v \in Seq(Symbols) : s = IfPrefix \o v /\ Padded(v, tk.text)
      <3>1. tk.text = TrimSpace(From(s, 1 + 1))
        BY <1>3
      <3> QED BY <2>2, <3>1
    <2>4. tk.text \in Seq(Symbols) /\ tk.text # << >> /\ Trimmed(tk.text) /\ tk.kind = "if"
      BY <1>3, <2>2
    <2>5. Keyword(tk) = IfPrefix
      BY <2>4 DEF Keyword
    <2>6. Says(tk, (a \o s) \o b)
      BY <2>2, <2>3, <2>4, <2>5, KeywordSays
    <2> QED BY <1>3, <2>4, <2>6 DEF SaidBy
  <1>4. ASSUME tk = Tok("subst", s)
        PROVE  SaidBy(tk, (a \o s) \o b)
    <2>1. Keyword(tk) = << >> /\ tk.text = s
      BY <1>4 DEF Keyword
    <2>2. Says(tk, (a \o (<< >> \o s)) \o b)
      BY <1>0, <2>1, KeywordSays, PaddedByNothing
    <2> QED BY <1>0, <1>4, <2>2 DEF SaidBy
  <1> HIDE DEF Tok, TokenSet, Kinds
  <1>5. \/ \E k \in {"end", "else"} : s = <<k>> /\ tk = Tok(k, << >>)
        \/ IsPrefix(ElseIfPrefix, s) /\ tk = Tok("elseif", TrimSpace(From(s, 4)))
        \/ IsPrefix(IfPrefix, s) /\ tk = Tok("if", TrimSpace(From(s, 2)))
        \/ tk = Tok("subst", s)
    BY DEF ClassifyAction
  <1> QED BY <1>1, <1>2, <1>3, <1>4, <1>5

\* An action stands between its braces.
LEMMA BracedStands ==
  ASSUME NEW words \in Seq(Symbols), NEW tk, tk.kind # "text", Says(tk, words)
  PROVE  Braced(words) \in Seq(Symbols) /\ Stands(tk, Braced(words))
PROOF
  <1>1. PICK open \in Seq(Symbols) : open = <<"{", "{">> /\ Len(open) = 2
    BY Braces
  <1>2. PICK close \in Seq(Symbols) : close = <<"}", "}">> /\ Len(close) = 2
    BY Braces
  <1>3. PICK s : s = (open \o words) \o close
    OBVIOUS
  <1>4. s = Braced(words)
    BY <1>1, <1>2, <1>3 DEF Braced
  <1>5. s \in Seq(Symbols) /\ Len(s) = 2 + Len(words) + 2 /\ Len(words) \in Nat
    <2>1. s \in Seq(Symbols) /\ Len(s) = Len(open) + Len(words) + Len(close)
      BY <1>3, ThreeParts
    <2> QED BY <1>1, <1>2, <2>1, LenProperties
  <1>6. SubSeq(s, 2 + 1, 2 + Len(words)) = words
    BY <1>1, <1>3, MiddlePart
  <1>7. Len(s) >= 4 /\ SubSeq(s, 3, Len(s) - 2) = words
    <2>1. 2 + 1 = 3 /\ Len(s) - 2 = 2 + Len(words) /\ Len(s) >= 4
      BY <1>5
    <2> QED BY <1>6, <2>1
  <1>8. Stands(tk, s)
    BY <1>4, <1>7 DEF Stands
  <1> QED BY <1>4, <1>5, <1>8

-----------------------------------------------------------------------------
(* What the tokens cover. *)

\* The function in the definition of Covers, for the first n tokens.
CoverStep(f, ts, s, i) ==
  IF i = 0 THEN {0}
  ELSE UNION {{q \in p..Len(s) : Stands(ts[i], SubSeq(s, p + 1, q))} : p \in f[i - 1]}
CoversUpTo(f, ts, s, n) == f = [i \in 0..n |-> CoverStep(f, ts, s, i)]

LEMMA CoversExist ==
  ASSUME NEW ts, NEW s, NEW n \in Nat
  PROVE  \E f : CoversUpTo(f, ts, s, n)
PROOF
  <1> DEFINE S == {m \in Nat : \E f : CoversUpTo(f, ts, s, m)}
  <1>1. 0 \in S
    <2>1. PICK f : f = [i \in 0..0 |-> {0}]
      OBVIOUS
    <2>2. \A i \in 0..0 : CoverStep(f, ts, s, i) = {0}
      BY DEF CoverStep
    <2>3. f = [i \in 0..0 |-> CoverStep(f, ts, s, i)]
      BY <2>1, <2>2
    <2> QED BY <2>3 DEF CoversUpTo
  <1>2. ASSUME NEW m \in Nat, m \in S PROVE m + 1 \in S
    <2>1. PICK f : CoversUpTo(f, ts, s, m)
      BY <1>2
    <2>2. PICK g : g = [i \in 0..m + 1 |-> IF i <= m THEN f[i] ELSE CoverStep(f, ts, s, i)]
      OBVIOUS
    <2>3. \A i \in 0..m : g[i] = f[i] /\ f[i] = CoverStep(f, ts, s, i)
      BY <2>1, <2>2 DEF CoversUpTo
    <2>4. ASSUME NEW i \in 0..m + 1 PROVE g[i] = CoverStep(g, ts, s, i)
      <3>1. g[i] = CoverStep(f, ts, s, i)
        BY <2>2, <2>3
      <3>2. i = 0 \/ i - 1 \in 0..m
        OBVIOUS
      <3>3. i = 0 \/ g[i - 1] = f[i - 1]
        BY <2>3, <3>2
      <3> QED BY <3>1, <3>3 DEF CoverStep
    <2>5. g = [i \in 0..m + 1 |-> CoverStep(g, ts, s, i)]
      BY <2>2, <2>4
    <2> QED BY <2>5 DEF CoversUpTo
  <1> HIDE DEF S
  <1>3. n \in S
    BY <1>1, <1>2, Induction
  <1> QED BY <1>3 DEF S

LEMMA CoversIs ==
  ASSUME NEW ts, NEW s, Len(ts) \in Nat
  PROVE  \E f : CoversUpTo(f, ts, s, Len(ts)) /\ Covers(ts, s) = f[Len(ts)]
PROOF
  <1>1. \E f : f = [i \in 0..Len(ts) |->
          IF i = 0 THEN {0}
          ELSE UNION {{q \in p..Len(s) : Stands(ts[i], SubSeq(s, p + 1, q))} : p \in f[i - 1]}]
    <2>1. PICK f : CoversUpTo(f, ts, s, Len(ts))
      BY CoversExist
    <2> QED BY <2>1 DEF CoversUpTo, CoverStep
  <1>2. Covers(ts, s) = (CHOOSE f : f = [i \in 0..Len(ts) |->
          IF i = 0 THEN {0}
          ELSE UNION {{q \in p..Len(s) : Stands(ts[i], SubSeq(s, p + 1, q))} : p \in f[i - 1]}])[Len(ts)]
    BY DEF Covers
  <1> QED BY <1>1, <1>2 DEF CoversUpTo, CoverStep

\* No token covers nothing.
LEMMA CoversNone ==
  ASSUME NEW s
  PROVE  Covers(<< >>, s) = {0}
PROOF
  <1>1. Len(<< >>) = 0
    OBVIOUS
  <1>2. PICK f : CoversUpTo(f, << >>, s, 0) /\ Covers(<< >>, s) = f[0]
    BY <1>1, CoversIs
  <1>3. f[0] = CoverStep(f, << >>, s, 0)
    BY <1>2 DEF CoversUpTo
  <1> QED BY <1>2, <1>3 DEF CoverStep

\* One token more covers the piece it stands for.
LEMMA CoversAppend ==
  ASSUME NEW T, NEW ts \in Seq(T), NEW tk \in T, NEW s, NEW p \in Covers(ts, s),
         NEW q \in p..Len(s), Stands(tk, SubSeq(s, p + 1, q))
  PROVE  q \in Covers(Append(ts, tk), s)
PROOF
  <1>1. PICK us, n : us = Append(ts, tk) /\ n = Len(ts)
    OBVIOUS
  <1>2. /\ us \in Seq(T) /\ n \in Nat /\ Len(us) = n + 1
        /\ us[n + 1] = tk /\ \A i \in 1..n : us[i] = ts[i]
    BY <1>1, AppendProperties
  <1>3. PICK g : CoversUpTo(g, us, s, n + 1) /\ Covers(us, s) = g[n + 1]
    BY <1>2, CoversIs
  <1>4. PICK f : CoversUpTo(f, ts, s, n) /\ Covers(ts, s) = f[n]
    BY <1>1, <1>2, CoversIs
  <1>5. /\ \A i \in 0..n : f[i] = CoverStep(f, ts, s, i)
        /\ \A i \in 0..n + 1 : g[i] = CoverStep(g, us, s, i)
    BY <1>3, <1>4 DEF CoversUpTo
  <1> DEFINE P == {k \in Nat : k \in 0..n => f[k] = g[k]}
  <1>6. 0 \in P
    <2>1. 0 \in 0..n /\ 0 \in 0..n + 1
      BY <1>2
    <2> QED BY <1>5, <2>1 DEF CoverStep
  <1>7. ASSUME NEW k \in Nat, k \in P PROVE k + 1 \in P
    <2> SUFFICES ASSUME k + 1 \in 0..n PROVE f[k + 1] = g[k + 1]
      OBVIOUS
    <2>1. k \in 0..n /\ k + 1 \in 1..n /\ k + 1 \in 0..n + 1 /\ k + 1 # 0 /\ k + 1 - 1 = k
      BY <1>2
    <2>2. f[k] = g[k] /\ us[k + 1] = ts[k + 1]
      BY <1>2, <1>7, <2>1
    <2>3. CoverStep(f, ts, s, k + 1) = CoverStep(g, us, s, k + 1)
      BY <2>1, <2>2 DEF CoverStep
    <2> QED BY <1>5, <2>1, <2>3
  <1>8. n \in P
    <2> HIDE DEF P
    <2> QED BY <1>2, <1>6, <1>7, Induction
  <1>9. f[n] = g[n] /\ n + 1 \in 0..n + 1 /\ n + 1 # 0 /\ n + 1 - 1 = n
    BY <1>2, <1>8
  <1>10. g[n + 1] = UNION {{r \in o..Len(s) : Stands(tk, SubSeq(s, o + 1, r))} : o \in f[n]}
    <2> DEFINE m == n + 1
    <2>1. g[m] = CoverStep(g, us, s, m)
      BY <1>5, <1>9
    <2>2. m # 0 /\ us[m] = tk /\ g[m - 1] = f[n]
      BY <1>2, <1>9
    <2> HIDE DEF m
    <2>3. g[m] = UNION {{r \in o..Len(s) : Stands(tk, SubSeq(s, o + 1, r))} : o \in f[n]}
      BY <2>1, <2>2 DEF CoverStep
    <2> QED BY <2>3 DEF m
  <1>11. q \in {r \in p..Len(s) : Stands(tk, SubSeq(s, p + 1, r))}
    OBVIOUS
  <1> QED BY <1>1, <1>3, <1>4, <1>10, <1>11

\* Put together, what was covered, the piece of one token more, and the rest.
LEMMA CoversPiece ==
  ASSUME NEW T, NEW ts \in Seq(T), NEW tk \in T,
         NEW x \in Seq(Symbols), NEW y \in Seq(Symbols), NEW z \in Seq(Symbols),
         NEW s, s = (x \o y) \o z, Len(x) \in Covers(ts, s), Stands(tk, y)
  PROVE  Len(x \o y) \in Covers(Append(ts, tk), s)
PROOF
  <1>1. SubSeq(s, Len(x) + 1, Len(x) + Len(y)) = y
    BY MiddlePart
  <1>2. Len(s) = Len(x) + Len(y) + Len(z)
    BY ThreeParts
  <1>3. Len(x \o y) = Len(x) + Len(y) /\ Len(x) \in Nat /\ Len(y) \in Nat /\ Len(z) \in Nat
    BY ConcatProperties, LenProperties
  <1>4. Len(x) + Len(y) \in Len(x)..Len(s)
    BY <1>2, <1>3
  <1> QED BY <1>1, <1>3, <1>4, CoversAppend

\* Cutting a template where a brace stands twice.
LEMMA CutAtBraces ==
  ASSUME NEW s \in Seq(Symbols), NEW brace, Index(s, brace) # 0
  PROVE  LET n == Index(s, brace)
         IN  /\ To(s, n - 1) \in Seq(Symbols) /\ From(s, n + 2) \in Seq(Symbols)
             /\ <<brace, brace>> \in Seq(Symbols)
             /\ s = To(s, n - 1) \o (<<brace, brace>> \o From(s, n + 2))
PROOF
  <1> DEFINE n == Index(s, brace)
  <1>1. n \in 1..Len(s) /\ n + 1 \in 1..Len(s) /\ s[n] = brace /\ s[n + 1] = brace /\ Len(s) \in Nat
    BY IndexIsFirst
  <1> HIDE DEF n
  <1>2. To(s, n - 1) \in Seq(Symbols) /\ From(s, n + 2) \in Seq(Symbols) /\ From(s, n) \in Seq(Symbols)
    <2>1. /\ n - 1 \in 0..Len(s) /\ n + 2 \in 1..Len(s) + 1 /\ Len(s) \in 0..Len(s)
          /\ 1 \in 1..Len(s) + 1 /\ n \in 1..Len(s) + 1
      BY <1>1
    <2> QED BY <2>1, PartOf DEF To, From
  <1>3. brace \in Symbols
    BY <1>1, ElementOfSeq
  <1>4. s = To(s, n - 1) \o From(s, n)
    <2>1. n - 1 \in 0..Len(s) /\ n - 1 + 1 = n
      BY <1>1
    <2> QED BY <2>1, CutInTwo DEF To, From
  <1>5. From(s, n) = <<brace, brace>> \o From(s, n + 2)
    <2>1. From(s, n) = SubSeq(s, n, n + 1) \o SubSeq(s, n + 2, Len(s))
      <3>1. n \in 1..Len(s) + 1 /\ n + 1 \in n - 1..Len(s) /\ Len(s) \in n + 1..Len(s) /\ n + 1 + 1 = n + 2
        BY <1>1
      <3> QED BY <3>1, ConcatAdjacentSubSeq DEF From
    <2>2. SubSeq(s, n, n + 1) = <<brace, brace>>
      <3> DEFINE p == SubSeq(s, n, n + 1)
                 b == <<brace, brace>>
      <3>1. n \in 1..Len(s) + 1 /\ n + 1 \in 0..Len(s) /\ n <= n + 1 /\ n + 1 - n + 1 = 2
        BY <1>1
      <3>2. p \in Seq(Symbols) /\ Len(p) = 2 /\ \A i \in 1..2 : p[i] = s[n + i - 1]
        BY <3>1, PartOf
      <3>3. b \in Seq(Symbols) /\ Len(b) = 2 /\ \A i \in 1..2 : b[i] = brace
        BY <1>3, Short
      <3> HIDE DEF p, b
      <3>4. \A i \in 1..2 : p[i] = b[i]
        BY <1>1, <3>2, <3>3
      <3>5. p = b
        BY <3>2, <3>3, <3>4, SeqEqual
      <3> QED BY <3>5 DEF p, b
    <2> QED BY <2>1, <2>2 DEF From
  <1>6. <<brace, brace>> \in Seq(Symbols)
    BY <1>3, Short
  <1> QED BY <1>2, <1>4, <1>5, <1>6 DEF n

-----------------------------------------------------------------------------
(* The tokenizer's steps. *)

\* What TypeOK and TextsAreMaximal say of a single token, and of it and the one before.
FineToken(tk) ==
  /\ tk \in TokenSet
  /\ tk.kind \in {"if", "elseif"} => tk.text # << >> /\ Trimmed(tk.text)
  /\ tk.kind = "text" => tk.text # << >> /\ Index(tk.text, "{") = 0

EndsInAction(ts) == ts # << >> => ts[Len(ts)].kind # "text"

Fine(ts) ==
  /\ ts \in Seq(TokenSet)
  /\ \A i \in DOMAIN ts : FineToken(ts[i])
  /\ \A i \in DOMAIN ts : ts[i].kind = "text" /\ i > 1 => ts[i - 1].kind # "text"

LEMMA FineAppend ==
  ASSUME NEW ts, Fine(ts), NEW tk, FineToken(tk), tk.kind = "text" => EndsInAction(ts)
  PROVE  Fine(Append(ts, tk)) /\ (tk.kind # "text" => EndsInAction(Append(ts, tk)))
PROOF
  <1> DEFINE us == Append(ts, tk)
             n == Len(ts)
  <1>1. ts \in Seq(TokenSet) /\ tk \in TokenSet
    BY DEF Fine, FineToken
  <1>2. n \in Nat /\ DOMAIN ts = 1..n /\ (n # 0 => ts # << >>)
    BY <1>1, LenProperties
  <1>3. /\ us \in Seq(TokenSet) /\ Len(us) = n + 1 /\ DOMAIN us = 1..n + 1
        /\ us[n + 1] = tk /\ \A i \in 1..n : us[i] = ts[i]
    BY <1>1, AppendProperties, LenProperties
  <1> HIDE DEF us
  <1>4. \A i \in 1..n + 1 : FineToken(us[i])
    <2> TAKE i \in 1..n + 1
    <2>1. i \in 1..n \/ i = n + 1
      BY <1>2
    <2> QED BY <1>2, <1>3, <2>1 DEF Fine
  <1>5. \A i \in 1..n + 1 : us[i].kind = "text" /\ i > 1 => us[i - 1].kind # "text"
    <2> SUFFICES ASSUME NEW i \in 1..n + 1, us[i].kind = "text", i > 1 PROVE us[i - 1].kind # "text"
      OBVIOUS
    <2>1. CASE i \in 1..n
      <3>1. i - 1 \in 1..n
        BY <1>2, <2>1
      <3> QED BY <1>2, <1>3, <2>1, <3>1 DEF Fine
    <2>2. CASE i = n + 1
      <3>1. i - 1 = n /\ n \in 1..n /\ n # 0
        BY <1>2, <2>2
      <3>2. us[i - 1] = ts[n] /\ us[i] = tk
        BY <1>3, <2>2, <3>1
      <3> QED BY <1>2, <3>1, <3>2 DEF EndsInAction
    <2> QED BY <1>2, <2>1, <2>2
  <1>6. Fine(us) /\ (tk.kind # "text" => EndsInAction(us))
    BY <1>3, <1>4, <1>5 DEF Fine, EndsInAction
  <1> QED BY <1>6 DEF us

LEMMA FineIsWhatIsChecked ==
  ASSUME Fine(tokens)
  PROVE  /\ TextsAreMaximal
         /\ tokens \in Seq([kind : Kinds, text : Seq(Symbols)])
         /\ \A i \in DOMAIN tokens :
              tokens[i].kind \in {"if", "elseif"} =>
                tokens[i].text # << >> /\ tokens[i].text[1] \notin Space /\ Last(tokens[i].text) \notin Space
PROOF
  BY DEF Fine, FineToken, TextsAreMaximal, TokenSet, Trimmed

\* The text before an action has none in it.
LEMMA BeforeBraces ==
  ASSUME NEW s \in Seq(Symbols), NEW brace, Index(s, brace) > 1
  PROVE  LET t == To(s, Index(s, brace) - 1)
         IN  t \in Seq(Symbols) /\ t # << >> /\ Index(t, brace) = 0
PROOF
  <1> DEFINE n == Index(s, brace)
             t == To(s, n - 1)
             m == Index(t, brace)
  <1>1. /\ n \in 0..Len(s) /\ n > 1 /\ n + 1 <= Len(s) /\ Len(s) \in Nat
        /\ \A i \in 1..Len(s) - 1 : s[i] = brace /\ s[i + 1] = brace => n <= i
    BY IndexIsFirst
  <1> HIDE DEF n
  <1>2. t \in Seq(Symbols) /\ Len(t) = n - 1 /\ \A i \in 1..n - 1 : t[i] = s[i]
    <2>1. n - 1 \in 0..Len(s) /\ 1 \in 1..Len(s) + 1
      BY <1>1
    <2> QED BY <1>1, <2>1, PartOf DEF To
  <1> HIDE DEF t
  <1>3. t # << >>
    BY <1>1, <1>2
  <1>4. m \in 0..Len(t) /\ (m # 0 => m + 1 <= Len(t) /\ t[m] = brace /\ t[m + 1] = brace)
    BY <1>2, IndexIsFirst
  <1> HIDE DEF m
  <1>5. m = 0
    <2> SUFFICES ASSUME m # 0 PROVE FALSE
      OBVIOUS
    <2>1. m \in 1..n - 1 /\ m + 1 \in 1..n - 1 /\ m \in 1..Len(s) - 1 /\ ~(n <= m)
      BY <1>1, <1>2, <1>4
    <2> QED BY <1>1, <1>2, <1>4, <2>1
  <1> QED BY <1>2, <1>3, <1>5 DEF n, t, m

LEMMA LeadingIsFine ==
  ASSUME NEW s \in Seq(Symbols), Index(s, "{") > 1
  PROVE  FineToken(Tok("text", To(s, Index(s, "{") - 1)))
PROOF
  <1> DEFINE t == To(s, Index(s, "{") - 1)
  <1>1. t \in Seq(Symbols) /\ t # << >> /\ Index(t, "{") = 0
    BY BeforeBraces, Zenon
  <1> HIDE DEF t
  <1>2. FineToken(Tok("text", t))
    BY <1>1 DEF FineToken, TokenSet, Tok, Kinds
  <1> QED BY <1>2 DEF t

LEMMA FoundIsNotZero ==
  ASSUME NEW s \in Seq(Symbols), NEW brace, Index(s, brace) > 0
  PROVE  Index(s, brace) # 0
PROOF
  BY IndexIsFirst

\* The tokens stand for the part of the template that was read.
Piecewise ==
  \E read \in Seq(Symbols) : input = read \o sql /\ Len(read) \in Covers(tokens, input)

\* What the tokenizer's steps rely on: the text that is left follows an action.
Cut ==
  /\ input \in Seq(Symbols) /\ sql \in Seq(Symbols)
  /\ state \in {"idle", "reading", "done", "rejected"}
  /\ Fine(tokens)
  /\ Piecewise
  /\ state = "reading" /\ sql # << >> => EndsInAction(tokens)
  /\ state = "idle" => tokens = << >> /\ sql = << >>

LEMMA PiecewiseIsWhatIsChecked ==
  ASSUME sql \in Seq(Symbols), Piecewise
  PROVE  NothingLost
PROOF
  <1>1. PICK read \in Seq(Symbols) : input = read \o sql /\ Len(read) \in Covers(tokens, input)
    BY DEF Piecewise
  <1>2. Len(input) = Len(read) + Len(sql) /\ Len(read) \in Nat /\ Len(sql) \in Nat
    BY <1>1, ConcatProperties, LenProperties
  <1>3. Len(input) - Len(sql) = Len(read)
    BY <1>2
  <1>4. From(input, Len(read) + 1) = sql
    BY <1>1, OuterParts
  <1> QED BY <1>1, <1>3, <1>4 DEF NothingLost

LEMMA CutBegins ==
  ASSUME TokenizerInit
  PROVE  Cut
PROOF
  <1>1. << >> \in Seq(Symbols) /\ << >> \in Seq(TokenSet) /\ DOMAIN << >> = {} /\ Len(<< >>) = 0
    BY EmptySeq
  <1>2. Fine(<< >>)
    BY <1>1 DEF Fine
  <1>3. << >> \o << >> = << >> /\ 0 \in Covers(<< >>, << >>)
    BY <1>1, CoversNone, ConcatEmptySeq
  <1> QED BY <1>1, <1>2, <1>3 DEF Cut, TokenizerInit, Piecewise

LEMMA TokenizeIsCut ==
  ASSUME Cut, NEW s \in Seq(Symbols), Tokenize(s)
  PROVE  Cut'
PROOF
  <1>1. state = "idle" /\ tokens = << >> /\ tokens' = tokens /\ sql' = s /\ input' = s /\ state' = "reading"
    BY DEF Cut, Tokenize
  <1>2. << >> \in Seq(Symbols) /\ << >> \o s = s /\ Len(<< >>) = 0 /\ 0 \in Covers(<< >>, s)
    BY EmptySeq, CoversNone, ConcatEmptySeq
  <1>3. Piecewise'
    BY <1>1, <1>2 DEF Piecewise
  <1>4. Fine(tokens') /\ EndsInAction(tokens')
    BY <1>1 DEF Cut, EndsInAction
  <1> QED BY <1>1, <1>3, <1>4 DEF Cut

LEMMA TailTextIsCut ==
  ASSUME Cut, TailText
  PROVE  Cut'
PROOF
  <1> DEFINE tk == Tok("text", sql)
  <1>1. /\ Fine(tokens) /\ EndsInAction(tokens) /\ sql \in Seq(Symbols) /\ sql # << >>
        /\ Index(sql, "{") = 0
        /\ tokens' = Append(tokens, tk) /\ sql' = << >> /\ input' = input
        /\ state' = "reading"
    BY DEF Cut, TailText, Reading, Open
  <1>2. FineToken(tk) /\ tk.kind = "text" /\ tk.text = sql
    BY <1>1 DEF FineToken, Tok, TokenSet, Kinds
  <1>3. Stands(tk, sql)
    BY <1>2 DEF Stands
  <1>4. tk \in TokenSet /\ tokens \in Seq(TokenSet)
    BY <1>1, <1>2 DEF FineToken, Fine
  <1> HIDE DEF tk
  <1>5. Fine(tokens')
    BY <1>1, <1>2, FineAppend
  <1>6. Piecewise'
    <2>1. PICK read \in Seq(Symbols) : input = read \o sql /\ Len(read) \in Covers(tokens, input)
      BY DEF Cut, Piecewise
    <2>2. PICK all \in Seq(Symbols) : all = read \o sql
      BY <1>1, ConcatProperties
    <2>3. all \o << >> = all /\ << >> \in Seq(Symbols)
      BY EmptySeq, ConcatEmptySeq
    <2>4. Len(all) \in Covers(tokens', input)
      <3>1. input = (read \o sql) \o << >>
        BY <2>1, <2>2, <2>3
      <3> QED BY <1>1, <1>3, <1>4, <2>1, <2>2, <2>3, <3>1, CoversPiece
    <2> QED BY <1>1, <2>1, <2>2, <2>3, <2>4 DEF Piecewise
  <1>7. << >> \in Seq(Symbols)
    BY EmptySeq
  <1> QED BY <1>1, <1>5, <1>6, <1>7 DEF Cut

LEMMA ActionIsCut ==
  ASSUME Cut, Action
  PROVE  Cut'
PROOF
  <1> DEFINE open == <<"{", "{">>
             close == <<"}", "}">>
             h == To(sql, Open - 1)
             a == AfterOpen
             b == To(a, Close - 1)
             r == From(a, Close + 2)
  <1>1. /\ Fine(tokens) /\ EndsInAction(tokens) /\ sql \in Seq(Symbols)
        /\ Open > 0 /\ Close > 0 /\ sql' = r /\ input' = input /\ state' = "reading"
    BY DEF Cut, Action, Reading
  <1>2. PICK tk \in ClassifyAction(TrimSpace(b)) : tokens' = tokens \o Leading \o <<tk>>
    BY DEF Action
  <1>3. /\ h \in Seq(Symbols) /\ a \in Seq(Symbols) /\ open \in Seq(Symbols)
        /\ sql = h \o (open \o a)
    <2>1. Index(sql, "{") # 0
      BY <1>1, FoundIsNotZero, Zenon DEF Open
    <2> QED BY <1>1, <2>1, CutAtBraces DEF Open, AfterOpen
  <1>4. /\ b \in Seq(Symbols) /\ r \in Seq(Symbols) /\ close \in Seq(Symbols)
        /\ a = b \o (close \o r)
    <2>1. Index(a, "}") # 0
      BY <1>1, <1>3, FoundIsNotZero, Zenon DEF Close
    <2> HIDE DEF a
    <2>2. Close = Index(a, "}")
      BY DEF Close, a
    <2> QED BY <1>3, <2>1, <2>2, CutAtBraces
  <1>5. SaidBy(tk, b)
    <2>1. PICK t \in Seq(Symbols), x \in Seq(Symbols), y \in Seq(Symbols) :
            t = TrimSpace(b) /\ CutOff(b, x, t, y) /\ Trimmed(t)
      BY <1>4, TrimParts DEF Trimmed
    <2> QED BY <1>2, <2>1, ActionSays DEF CutOff
  <1>6. FineToken(tk) /\ tk \in TokenSet /\ tk.kind # "text"
        /\ Braced(b) \in Seq(Symbols) /\ Stands(tk, Braced(b))
    BY <1>4, <1>5, BracedStands DEF FineToken, SaidBy
  <1>7. sql = h \o (Braced(b) \o r)
    <2> HIDE DEF open, close, a, b, h, r
    <2> DEFINE u == close \o r
               v == open \o b
    <2>1. u \in Seq(Symbols) /\ v \in Seq(Symbols)
      BY <1>3, <1>4, ConcatProperties
    <2>2. (v \o close) \o r = v \o (close \o r)
      <3> HIDE DEF v
      <3> QED BY <1>4, <2>1, AllAssociate DEF Associates
    <2>3. (open \o b) \o u = open \o (b \o u)
      <3> HIDE DEF u, v
      <3>1. Associates(open, b, u)
        BY <1>3, <1>4, <2>1, AllAssociate
      <3> QED BY <3>1 DEF Associates
    <2>4. v \o close = Braced(b)
      BY DEF Braced, open, close
    <2> QED BY <1>3, <1>4, <2>2, <2>3, <2>4
  <1>8. PICK read \in Seq(Symbols) : input = read \o sql /\ Len(read) \in Covers(tokens, input)
    BY DEF Cut, Piecewise
  <1> HIDE DEF a, b, r
  <1>9. PICK x \in Seq(Symbols), w \in Seq(Symbols), y \in Seq(Symbols) :
          w = Braced(b) /\ x = read \o h /\ y = x \o w /\ input = y \o r
    <2>1. PICK w \in Seq(Symbols) : w = Braced(b)
      BY <1>6
    <2>2. PICK x \in Seq(Symbols), z \in Seq(Symbols) : x = read \o h /\ z = w \o r
      BY <1>3, <1>4, ConcatProperties
    <2>3. PICK y \in Seq(Symbols) : y = x \o w
      BY ConcatProperties
    <2> HIDE DEF h
    <2>4. Associates(read, h, z) /\ Associates(x, w, r)
      BY <1>3, <1>4, AllAssociate
    <2>5. input = y \o r
      BY <1>7, <1>8, <2>1, <2>2, <2>3, <2>4 DEF Associates
    <2> QED BY <2>1, <2>2, <2>3, <2>5
  <1>10. \E ts : Fine(ts) /\ tokens' = ts \o <<tk>> /\ Len(x) \in Covers(ts, input)
    <2>1. tokens \in Seq(TokenSet)
      BY <1>1 DEF Fine
    <2>2. CASE Open > 1
      <3> DEFINE lead == Tok("text", h)
      <3>1. FineToken(lead)
        BY <1>1, <2>2, LeadingIsFine DEF Open
      <3>2. lead.kind = "text" /\ Stands(lead, h) /\ lead \in TokenSet
        BY <3>1 DEF Tok, Stands, FineToken
      <3>3. Leading = <<lead>>
        BY <2>2 DEF Leading
      <3> HIDE DEF lead
      <3>4. tokens \o Leading = Append(tokens, lead)
        BY <2>1, <3>2, <3>3, AppendIsConcat
      <3>5. PICK z \in Seq(Symbols) : z = w \o r
        BY <1>4, ConcatProperties
      <3>6. input = (read \o h) \o z
        <4>1. Associates(x, w, r)
          BY <1>4, AllAssociate
        <4> QED BY <1>9, <3>5, <4>1 DEF Associates
      <3>7. Len(read \o h) \in Covers(Append(tokens, lead), input)
        <4> HIDE DEF h
        <4> QED BY <1>3, <1>8, <2>1, <3>2, <3>5, <3>6, CoversPiece
      <3> QED BY <1>1, <1>2, <1>9, <2>1, <3>1, <3>2, <3>4, <3>7, FineAppend
    <2>3. CASE ~(Open > 1)
      <3>1. Leading = << >>
        BY <2>3 DEF Leading
      <3>2. tokens \o Leading = tokens
        BY <2>1, <3>1, ConcatEmptySeq
      <3>3. h = << >>
        <4>1. Open \in 0..Len(sql)
          BY <1>1, IndexIsFirst DEF Open
        <4>2. Open - 1 = 0
          BY <1>1, <2>3, <4>1
        <4> QED BY <4>2, <1>1, SubSeqEmpty DEF To
      <3>4. x = read
        BY <1>9, <3>3, ConcatEmptySeq
      <3> QED BY <1>1, <1>2, <1>8, <3>2, <3>4
    <2> QED BY <2>2, <2>3
  <1>11. PICK ts : Fine(ts) /\ tokens' = ts \o <<tk>> /\ Len(x) \in Covers(ts, input)
    BY <1>10
  <1>12. ts \in Seq(TokenSet) /\ tokens' = Append(ts, tk)
    BY <1>6, <1>11, AppendIsConcat DEF Fine
  <1>13. Fine(tokens') /\ EndsInAction(tokens')
    BY <1>6, <1>11, <1>12, FineAppend
  <1>14. Len(y) \in Covers(tokens', input)
    BY <1>4, <1>6, <1>9, <1>11, <1>12, CoversPiece
  <1>15. Piecewise'
    BY <1>1, <1>9, <1>14 DEF Piecewise
  <1> QED BY <1>1, <1>4, <1>13, <1>15 DEF Cut

LEMMA TokenizerIsCut ==
  ASSUME Cut, TokenizerNext
  PROVE  Cut'
PROOF
  <1>1. CASE TailText
    BY <1>1, TailTextIsCut
  <1>2. CASE Action
    BY <1>2, ActionIsCut
  <1>3. CASE Reject
    BY <1>3 DEF Cut, Reject, Piecewise, Reading
  <1>4. CASE Finish
    BY <1>4 DEF Cut, Finish, Piecewise
  <1> QED BY <1>1, <1>2, <1>3, <1>4 DEF TokenizerNext

-----------------------------------------------------------------------------
(* Normal. *)

Pieces(s) == [i \in DOMAIN s |-> Piece(s, i)]

LEMMA PieceTyped ==
  ASSUME NEW s \in Seq(Symbols), NEW i \in 1..Len(s)
  PROVE  Piece(s, i) \in Seq(Symbols)
PROOF
  <1>1. s[i] \in Symbols /\ " " \in Symbols
    BY ElementOfSeq, SymbolsAssumption DEF Space
  <1>2. <<s[i]>> \in Seq(Symbols) /\ <<" ", s[i]>> \in Seq(Symbols) /\ << >> \in Seq(Symbols)
    BY <1>1, Short, EmptySeq
  <1> QED BY <1>2 DEF Piece

LEMMA NormalTyped ==
  ASSUME NEW s \in Seq(Symbols)
  PROVE  /\ Pieces(s) \in Seq(Seq(Symbols)) /\ Len(Pieces(s)) = Len(s)
         /\ \A i \in 1..Len(s) : Pieces(s)[i] = Piece(s, i)
         /\ Normal(s) \in Seq(Symbols) /\ Normal(s) = FlattenSeq(Pieces(s))
PROOF
  <1>1. Len(s) \in Nat /\ DOMAIN s = 1..Len(s)
    BY LenProperties
  <1>2. Pieces(s) \in [1..Len(s) -> Seq(Symbols)]
    BY <1>1, PieceTyped DEF Pieces
  <1>3. Pieces(s) \in Seq(Seq(Symbols)) /\ Len(Pieces(s)) = Len(s)
    BY <1>1, <1>2, SeqOfFunction
  <1>4. \A i \in 1..Len(s) : Pieces(s)[i] = Piece(s, i)
    BY <1>1 DEF Pieces
  <1>5. Normal(s) = FlattenSeq(Pieces(s))
    BY DEF Normal, Pieces
  <1> QED BY <1>3, <1>4, <1>5, FlattenTyped

LEMMA NormalOfNone == Normal(<< >>) = << >>
PROOF
  <1>1. [i \in DOMAIN << >> |-> Piece(<< >>, i)] = << >>
    OBVIOUS
  <1> QED BY <1>1 DEF Normal, FlattenSeq

\* One symbol more adds what is kept of it.
LEMMA NormalAppend ==
  ASSUME NEW s \in Seq(Symbols), NEW c \in Symbols
  PROVE  Normal(Append(s, c)) =
           Normal(s) \o (IF c \in Space THEN << >>
                         ELSE IF ~Blank(s) /\ s[Len(s)] \in Space THEN <<" ", c>> ELSE <<c>>)
PROOF
  <1> DEFINE z == Append(s, c)
             n == Len(s)
             k == IF c \in Space THEN << >>
                  ELSE IF ~Blank(s) /\ s[n] \in Space THEN <<" ", c>> ELSE <<c>>
  <1>1. /\ n \in Nat /\ z \in Seq(Symbols) /\ Len(z) = n + 1 /\ z[n + 1] = c
        /\ \A i \in 1..n : z[i] = s[i]
    BY AppendProperties, LenProperties
  <1> HIDE DEF z
  <1>2. \A i \in 1..n : Piece(z, i) = Piece(s, i)
    <2> SUFFICES ASSUME NEW i \in 1..n PROVE Piece(z, i) = Piece(s, i)
      OBVIOUS
    <2>1. /\ \A j \in 1..(i - 1) : j \in 1..n
          /\ z[i] = s[i]
      BY <1>1
    <2>2. {j \in 1..(i - 1) : z[j] \notin Space} = {j \in 1..(i - 1) : s[j] \notin Space}
      BY <1>1, <2>1
    <2> QED BY <2>1, <2>2 DEF Piece
  <1>3. Piece(z, n + 1) = k
    <2> DEFINE before == {j \in 1..n : s[j] \notin Space}
    <2>1. {j \in 1..((n + 1) - 1) : z[j] \notin Space} = before /\ (n + 1) - 1 = n
      BY <1>1
    <2>2. before # {} <=> ~Blank(s)
      BY DEF Blank
    <2>3. before # {} => (n \notin before <=> s[n] \in Space)
      BY <1>1
    <2> HIDE DEF before
    <2>4. Piece(z, n + 1) = IF z[n + 1] \in Space THEN << >>
                           ELSE IF before # {} /\ n \notin before THEN <<" ", z[n + 1]>> ELSE <<z[n + 1]>>
      BY <2>1 DEF Piece
    <2> QED BY <1>1, <2>2, <2>3, <2>4
  <1>4. k \in Seq(Symbols)
    <2>1. n + 1 \in 1..Len(z)
      BY <1>1
    <2> QED BY <1>1, <1>3, <2>1, PieceTyped
  <1>5. Pieces(z) = Append(Pieces(s), k)
    <2>1. /\ Pieces(z) \in Seq(Seq(Symbols)) /\ Len(Pieces(z)) = n + 1
          /\ \A i \in 1..(n + 1) : Pieces(z)[i] = Piece(z, i)
      BY <1>1, NormalTyped
    <2>2. /\ Pieces(s) \in Seq(Seq(Symbols)) /\ Len(Pieces(s)) = n
          /\ \A i \in 1..n : Pieces(s)[i] = Piece(s, i)
      BY NormalTyped
    <2> HIDE DEF k
    <2>3. /\ Append(Pieces(s), k) \in Seq(Seq(Symbols)) /\ Len(Append(Pieces(s), k)) = n + 1
          /\ \A i \in 1..n : Append(Pieces(s), k)[i] = Pieces(s)[i]
          /\ Append(Pieces(s), k)[n + 1] = k
      BY <1>4, <2>2, AppendProperties
    <2>4. \A i \in 1..(n + 1) : Pieces(z)[i] = Append(Pieces(s), k)[i]
      <3> TAKE i \in 1..(n + 1)
      <3>1. CASE i \in 1..n
        BY <1>2, <2>1, <2>2, <2>3, <3>1
      <3>2. CASE i = n + 1
        BY <1>3, <2>1, <2>3, <3>2
      <3>3. i \in 1..n \/ i = n + 1
        BY <1>1
      <3> QED BY <3>1, <3>2, <3>3
    <2> QED BY <2>1, <2>3, <2>4, SeqEqual
  <1> HIDE DEF k
  <1>6. Normal(z) = FlattenSeq(Pieces(s)) \o k
    BY <1>1, <1>4, <1>5, NormalTyped, FlattenAppend
  <1> QED BY <1>6, NormalTyped DEF z, k

NotEmpty(s, t) == s \o t # << >>

LEMMA NotEmptied ==
  ASSUME NEW s \in Seq(Symbols), NEW t \in Seq(Symbols), t # << >>
  PROVE  NotEmpty(s, t)
PROOF
  BY ConcatEqualIffEmpty DEF NotEmpty

\* Nothing is left of spaces, and of spaces only.
LEMMA BlankIsNothing ==
  ASSUME NEW s \in Seq(Symbols)
  PROVE  Blank(s) <=> Normal(s) = << >>
PROOF
  <1> DEFINE P == {t \in Seq(Symbols) : Blank(t) <=> Normal(t) = << >>}
  <1>1. << >> \in P
    BY NormalOfNone, EmptySeq DEF Blank
  <1>2. ASSUME NEW t \in Seq(Symbols), NEW c \in Symbols, t \in P PROVE Append(t, c) \in P
    <2>1. /\ Append(t, c) \in Seq(Symbols) /\ Len(t) \in Nat /\ Len(Append(t, c)) = Len(t) + 1
          /\ Append(t, c)[Len(t) + 1] = c /\ \A i \in 1..Len(t) : Append(t, c)[i] = t[i]
      BY AppendProperties, LenProperties
    <2>2. Blank(Append(t, c)) <=> Blank(t) /\ c \in Space
      BY <2>1 DEF Blank
    <2>3. Normal(t) \in Seq(Symbols) /\ " " \in Symbols
      BY NormalTyped, SymbolsAssumption DEF Space
    <2>4. CASE c \in Space
      <3>1. Normal(Append(t, c)) = Normal(t) \o << >>
        BY <2>4, NormalAppend
      <3> QED BY <1>2, <2>1, <2>2, <2>3, <2>4, <3>1, ConcatEmptySeq
    <2>5. CASE c \notin Space
      <3>1. PICK k \in {<<" ", c>>, <<c>>} : Normal(Append(t, c)) = Normal(t) \o k
        BY <2>5, NormalAppend
      <3>2. k \in Seq(Symbols) /\ k # << >>
        <4>1. <<" ", c>> \in Seq(Symbols) /\ <<c>> \in Seq(Symbols)
          BY <2>3, Short
        <4>2. <<" ", c>> # << >> /\ <<c>> # << >>
          OBVIOUS
        <4> QED BY <4>1, <4>2
      <3>3. Normal(t) \o k # << >>
        <4>1. NotEmpty(Normal(t), k)
          BY <2>3, <3>2, NotEmptied
        <4> QED BY <4>1 DEF NotEmpty
      <3> QED BY <2>1, <2>2, <2>5, <3>1, <3>3
    <2> QED BY <2>4, <2>5
  <1> HIDE DEF P
  <1>3. s \in P
    BY <1>1, <1>2, SeqInduction
  <1> QED BY <1>3 DEF P

\* Two texts with a space between them.
Gap == <<" ">>
Spaced(p, q) == IF p = << >> THEN q ELSE IF q = << >> THEN p ELSE (p \o Gap) \o q

LEMMA GapTyped ==
  /\ Gap \in Seq(Symbols)
  /\ \A c \in Symbols : <<" ", c>> \in Seq(Symbols) /\ <<c>> \in Seq(Symbols)
PROOF
  <1>1. " " \in Symbols
    BY SymbolsAssumption DEF Space
  <1> QED BY <1>1, Short DEF Gap

LEMMA SpacedTyped ==
  ASSUME NEW p \in Seq(Symbols), NEW q \in Seq(Symbols)
  PROVE  Spaced(p, q) \in Seq(Symbols) /\ (Spaced(p, q) = << >> <=> p = << >> /\ q = << >>)
PROOF
  <1>1. PICK u \in Seq(Symbols) : u = p \o Gap
    BY GapTyped, ConcatProperties
  <1>2. u \o q \in Seq(Symbols) /\ (u \o q = << >> => q = << >>)
    BY ConcatProperties, ConcatEqualIffEmpty
  <1> QED BY <1>1, <1>2 DEF Spaced

LEMMA SpacedAppend ==
  ASSUME NEW p \in Seq(Symbols), NEW q \in Seq(Symbols), NEW k \in Seq(Symbols), q # << >>
  PROVE  Spaced(p, q) \o k = Spaced(p, q \o k)
PROOF
  <1>1. PICK u \in Seq(Symbols) : u = p \o Gap
    BY GapTyped, ConcatProperties
  <1>2. (u \o q) \o k = u \o (q \o k)
    <2>1. Associates(u, q, k)
      BY AllAssociate
    <2> QED BY <2>1 DEF Associates
  <1>3. q \o k # << >>
    BY ConcatEqualIffEmpty
  <1> QED BY <1>1, <1>2, <1>3 DEF Spaced

\* A single word.
Adjoins(p, g, w, b) == (p \o g) \o w = p \o b

LEMMA TwoMore == \A n \in Nat : \A i \in 1..(n + 2) : i <= n \/ i = n + 1 \/ i = n + 2
PROOF
  OBVIOUS

LEMMA TwoAdjoin ==
  ASSUME NEW T, NEW p \in Seq(T), NEW g \in Seq(T), Len(g) = 1, NEW w \in Seq(T), Len(w) = 1,
         NEW b \in Seq(T), Len(b) = 2, b[1] = g[1], b[2] = w[1]
  PROVE  Adjoins(p, g, w, b)
PROOF
  <1>1. Len(p) \in Nat
    BY LenProperties
  <1>2. PICK u \in Seq(T) : u = p \o g
    BY ConcatProperties
  <1>3. /\ Len(u) = Len(p) + 1
        /\ \A i \in 1..(Len(p) + 1) : u[i] = IF i <= Len(p) THEN p[i] ELSE g[i - Len(p)]
    <2>1. /\ Len(u) = Len(p) + Len(g)
          /\ \A i \in 1..(Len(p) + Len(g)) : u[i] = IF i <= Len(p) THEN p[i] ELSE g[i - Len(p)]
      BY <1>2, ConcatProperties
    <2>2. Len(g) = 1
      OBVIOUS
    <2> QED BY <2>1, <2>2
  <1>4. PICK v \in Seq(T) : v = u \o w
    BY <1>2, ConcatProperties
  <1>5. /\ Len(v) = Len(p) + 2
        /\ \A i \in 1..(Len(p) + 2) : v[i] = IF i <= Len(p) + 1 THEN u[i] ELSE w[i - (Len(p) + 1)]
    BY <1>1, <1>2, <1>3, <1>4, ConcatProperties
  <1>6. PICK z \in Seq(T) : z = p \o b
    BY ConcatProperties
  <1>7. /\ Len(z) = Len(p) + 2
        /\ \A i \in 1..(Len(p) + 2) : z[i] = IF i <= Len(p) THEN p[i] ELSE b[i - Len(p)]
    <2>1. /\ Len(z) = Len(p) + Len(b)
          /\ \A i \in 1..(Len(p) + Len(b)) : z[i] = IF i <= Len(p) THEN p[i] ELSE b[i - Len(p)]
      BY <1>6, ConcatProperties
    <2>2. Len(b) = 2
      OBVIOUS
    <2> QED BY <2>1, <2>2
  <1>8. \A i \in 1..(Len(p) + 2) : v[i] = z[i]
    <2> TAKE i \in 1..(Len(p) + 2)
    <2>1. CASE i <= Len(p)
      BY <1>1, <1>3, <1>5, <1>7, <2>1
    <2>2. CASE i = Len(p) + 1
      <3>1. i - Len(p) = 1 /\ ~(i <= Len(p)) /\ i \in 1..(Len(p) + 1) /\ i <= Len(p) + 1
        BY <1>1, <2>2
      <3>2. v[i] = u[i] /\ u[i] = g[1] /\ z[i] = b[1]
        BY <1>3, <1>5, <1>7, <3>1
      <3> QED BY <3>2
    <2>3. CASE i = Len(p) + 2
      <3>1. i - Len(p) = 2 /\ i - (Len(p) + 1) = 1 /\ ~(i <= Len(p)) /\ ~(i <= Len(p) + 1)
        BY <1>1, <2>3
      <3>2. v[i] = w[1] /\ z[i] = b[2]
        BY <1>5, <1>7, <3>1
      <3> QED BY <3>2
    <2>4. i <= Len(p) \/ i = Len(p) + 1 \/ i = Len(p) + 2
      BY <1>1, TwoMore
    <2> QED BY <2>1, <2>2, <2>3, <2>4
  <1>9. v = z
    BY <1>4, <1>5, <1>6, <1>7, <1>8, SeqEqual
  <1> QED BY <1>2, <1>4, <1>6, <1>9 DEF Adjoins

LEMMA SpacedOne ==
  ASSUME NEW p \in Seq(Symbols), p # << >>, NEW c \in Symbols
  PROVE  Spaced(p, <<c>>) = p \o <<" ", c>>
PROOF
  <1>1. /\ Gap \in Seq(Symbols) /\ <<c>> \in Seq(Symbols) /\ <<" ", c>> \in Seq(Symbols)
        /\ Len(Gap) = 1 /\ Len(<<c>>) = 1 /\ Len(<<" ", c>>) = 2
        /\ <<" ", c>>[1] = Gap[1] /\ <<" ", c>>[2] = <<c>>[1]
    BY GapTyped DEF Gap
  <1>2. Adjoins(p, Gap, <<c>>, <<" ", c>>)
    BY <1>1, TwoAdjoin
  <1>3. <<c>> # << >>
    OBVIOUS
  <1> QED BY <1>2, <1>3 DEF Adjoins, Spaced

\* The same with a name, and for every text.
Extends(p, q, k) == Spaced(p, q) \o k = Spaced(p, q \o k)

LEMMA SpacedExtends ==
  ASSUME NEW p \in Seq(Symbols), NEW q \in Seq(Symbols), NEW k \in Seq(Symbols), q # << >>
  PROVE  Extends(p, q, k)
PROOF
  BY SpacedAppend DEF Extends

LEMMA SpacedAssociative ==
  ASSUME NEW p \in Seq(Symbols), NEW q \in Seq(Symbols), NEW r \in Seq(Symbols)
  PROVE  Spaced(Spaced(p, q), r) = Spaced(p, Spaced(q, r))
PROOF
  <1>2. Gap \in Seq(Symbols)
    BY GapTyped
  <1>3. CASE p = << >>
    BY <1>3 DEF Spaced
  <1>4. CASE q = << >>
    BY <1>4 DEF Spaced
  <1>5. CASE r = << >>
    BY <1>5 DEF Spaced
  <1>6. CASE p # << >> /\ q # << >> /\ r # << >>
    <2> DEFINE tail == Gap \o r
    <2>1. tail \in Seq(Symbols)
      BY <1>2, ConcatProperties
    <2>2. Spaced(q, r) = q \o tail
      <3>1. (q \o Gap) \o r = q \o tail
        <4>1. Associates(q, Gap, r)
          BY <1>2, AllAssociate
        <4> QED BY <4>1 DEF Associates
      <3> QED BY <1>6, <3>1 DEF Spaced
    <2>3. Spaced(Spaced(p, q), r) = Spaced(p, q) \o tail
      <3>1. Spaced(p, q) \in Seq(Symbols) /\ Spaced(p, q) # << >>
        BY <1>6, SpacedTyped
      <3>2. (Spaced(p, q) \o Gap) \o r = Spaced(p, q) \o tail
        <4>1. Associates(Spaced(p, q), Gap, r)
          BY <1>2, <3>1, AllAssociate
        <4> QED BY <4>1 DEF Associates
      <3>3. Spaced(Spaced(p, q), r) = (Spaced(p, q) \o Gap) \o r
        <4>1. \A u : u # << >> => Spaced(u, r) = (u \o Gap) \o r
          BY <1>6 DEF Spaced
        <4> QED BY <3>1, <4>1
      <3> QED BY <3>2, <3>3
    <2> HIDE DEF tail
    <2>4. Spaced(p, q) \o tail = Spaced(p, q \o tail)
      <3>1. PICK w \in Seq(Symbols) : w = tail
        BY <2>1
      <3>2. Extends(p, q, w)
        BY <1>6, SpacedExtends
      <3> QED BY <3>1, <3>2 DEF Extends
    <2> QED BY <2>2, <2>3, <2>4
  <1> QED BY <1>3, <1>4, <1>5, <1>6

\* A space keeps what is before it and what is after it apart, and nothing more.
LEMMA NormalSpaced ==
  ASSUME NEW x \in Seq(Symbols), NEW y \in Seq(Symbols), NEW sp \in Space
  PROVE  Normal(Append(x, sp) \o y) = Spaced(Normal(x), Normal(y))
PROOF
  <1>0. sp \in Symbols
    BY SymbolsAssumption
  <1> DEFINE xs == Append(x, sp)
             P == {t \in Seq(Symbols) : Normal(xs \o t) = Spaced(Normal(x), Normal(t))}
  <1>1. /\ xs \in Seq(Symbols) /\ Normal(x) \in Seq(Symbols) /\ Len(xs) = Len(x) + 1 /\ xs[Len(xs)] = sp
        /\ Len(x) \in Nat
    BY <1>0, AppendProperties, NormalTyped, LenProperties
  <1>2. Normal(xs) = Normal(x)
    BY <1>0, <1>1, NormalAppend, ConcatEmptySeq
  <1> HIDE DEF xs
  <1>3. << >> \in P
    <2>1. xs \o << >> = xs /\ << >> \in Seq(Symbols)
      BY <1>1, ConcatEmptySeq, EmptySeq
    <2> QED BY <1>2, <2>1, NormalOfNone DEF Spaced
  <1>4. ASSUME NEW t \in Seq(Symbols), NEW c \in Symbols, t \in P PROVE Append(t, c) \in P
    <2> DEFINE z == xs \o t
               p == Normal(x)
               q == Normal(t)
    <2>1. /\ z \in Seq(Symbols) /\ p \in Seq(Symbols) /\ q \in Seq(Symbols)
          /\ Append(t, c) \in Seq(Symbols) /\ xs \o Append(t, c) = Append(z, c)
          /\ Normal(z) = Spaced(p, q)
      <3>1. z \in Seq(Symbols) /\ Append(t, c) \in Seq(Symbols)
        BY <1>1, ConcatProperties, AppendProperties
      <3>2. xs \o Append(t, c) = Append(z, c)
        BY <1>1, AppendConcat
      <3>3. p \in Seq(Symbols) /\ q \in Seq(Symbols)
        BY NormalTyped
      <3>4. Normal(z) = Spaced(p, q)
        BY <1>4
      <3> QED BY <3>1, <3>2, <3>3, <3>4
    <2>2. IF t = << >> THEN z[Len(z)] \in Space ELSE z[Len(z)] = t[Len(t)]
      <3>1. /\ Len(t) \in Nat /\ Len(xs) \in Nat /\ Len(z) = Len(xs) + Len(t)
            /\ \A i \in 1..(Len(xs) + Len(t)) : z[i] = IF i <= Len(xs) THEN xs[i] ELSE t[i - Len(xs)]
        BY <1>1, ConcatProperties, LenProperties
      <3> HIDE DEF z
      <3>2. CASE t = << >>
        <4>1. Len(t) = 0 /\ Len(xs) > 0
          BY <1>1, <3>2, EmptySeq
        <4> QED BY <1>1, <3>1, <3>2, <4>1
      <3>3. CASE t # << >>
        <4>1. Len(t) > 0
          BY <3>1, <3>3, EmptySeq
        <4>2. \A a, b \in Nat : b > 0 => a + b \in 1..(a + b) /\ ~(a + b <= a) /\ (a + b) - a = b
          OBVIOUS
        <4> QED BY <3>1, <3>3, <4>1, <4>2
      <3> QED BY <3>2, <3>3
    <2>3. /\ Blank(t) <=> q = << >>
          /\ Blank(z) <=> p = << >> /\ q = << >>
          /\ Blank(t) /\ t # << >> => t[Len(t)] \in Space
      <3>1. t # << >> => Len(t) \in 1..Len(t)
        BY EmptySeq, LenProperties
      <3>2. Blank(z) <=> Spaced(p, q) = << >>
        BY <2>1, BlankIsNothing
      <3>3. Blank(t) <=> q = << >>
        BY BlankIsNothing
      <3>4. Spaced(p, q) = << >> <=> p = << >> /\ q = << >>
        BY <2>1, SpacedTyped
      <3>5. Blank(t) /\ t # << >> => t[Len(t)] \in Space
        BY <3>1 DEF Blank
      <3> QED BY <3>2, <3>3, <3>4, <3>5
    <2> DEFINE k == IF c \in Space THEN << >>
                    ELSE IF ~Blank(z) /\ z[Len(z)] \in Space THEN <<" ", c>> ELSE <<c>>
               l == IF c \in Space THEN << >>
                    ELSE IF ~Blank(t) /\ t[Len(t)] \in Space THEN <<" ", c>> ELSE <<c>>
    <2>4. Normal(Append(z, c)) = Spaced(p, q) \o k /\ Normal(Append(t, c)) = q \o l
      BY <2>1, NormalAppend
    <2>5. /\ <<c>> \in Seq(Symbols) /\ <<" ", c>> \in Seq(Symbols) /\ << >> \in Seq(Symbols)
          /\ <<c>> # << >>
      <3>1. <<c>> # << >>
        OBVIOUS
      <3> QED BY <3>1, GapTyped, EmptySeq
    <2> HIDE DEF z, p, q
    <2>6. Spaced(p, q) \o k = Spaced(p, q \o l)
      <3>1. CASE c \in Space
        <4>1. k = << >> /\ l = << >>
          BY <3>1
        <4>2. Spaced(p, q) \in Seq(Symbols)
          BY <2>1, SpacedTyped
        <4> HIDE DEF k, l
        <4> QED BY <2>1, <4>1, <4>2, ConcatEmptySeq
      <3>2. CASE c \notin Space /\ q # << >>
        <4>1. t # << >>
          BY <3>2, NormalOfNone DEF q
        <4>2. k = l /\ k \in Seq(Symbols)
          BY <2>2, <2>3, <2>5, <3>2, <4>1
        <4> HIDE DEF k, l
        <4>3. Extends(p, q, k)
          BY <2>1, <3>2, <4>2, SpacedExtends
        <4> QED BY <4>2, <4>3 DEF Extends
      <3>3. CASE c \notin Space /\ q = << >>
        <4>1. l = <<c>> /\ q \o l = <<c>>
          BY <2>3, <2>5, <3>3, ConcatEmptySeq
        <4>2. z[Len(z)] \in Space
          BY <2>2, <2>3, <3>3
        <4>3. CASE p = << >>
          <5>1. k = <<c>> /\ Spaced(p, q) = << >>
            BY <2>3, <3>3, <4>3 DEF Spaced
          <5>2. Spaced(p, <<c>>) = <<c>> /\ << >> \o <<c>> = <<c>>
            BY <2>5, <4>3, ConcatEmptySeq DEF Spaced
          <5> HIDE DEF k, l
          <5> QED BY <4>1, <5>1, <5>2
        <4>4. CASE p # << >>
          <5>1. k = <<" ", c>> /\ Spaced(p, q) = p
            BY <2>3, <3>3, <4>2, <4>4 DEF Spaced
          <5>3. Spaced(p, <<c>>) = p \o <<" ", c>>
            BY <2>1, <4>4, SpacedOne
          <5> HIDE DEF k, l
          <5> QED BY <4>1, <5>1, <5>3
        <4> QED BY <4>3, <4>4
      <3> QED BY <3>1, <3>2, <3>3
    <2> HIDE DEF k, l
    <2>7. Normal(xs \o Append(t, c)) = Spaced(Normal(x), Normal(Append(t, c)))
      BY <2>1, <2>4, <2>6 DEF p
    <2> QED BY <2>1, <2>7
  <1> HIDE DEF P
  <1>5. y \in P
    BY <1>3, <1>4, SeqInduction
  <1> QED BY <1>5 DEF P, xs

\* What comes first stays first.
Leads(s, k) == s \o k # << >> /\ (s \o k)[1] = s[1]

LEMMA FirstLeads ==
  ASSUME NEW s \in Seq(Symbols), s # << >>, NEW k \in Seq(Symbols)
  PROVE  Leads(s, k)
PROOF
  <1>1. Len(s) \in Nat /\ Len(k) \in Nat /\ Len(s) # 0
    BY LenProperties, EmptySeq
  <1>2. PICK u \in Seq(Symbols) : u = s \o k
    BY ConcatProperties
  <1>3. /\ Len(u) = Len(s) + Len(k)
        /\ \A i \in 1..(Len(s) + Len(k)) : u[i] = IF i <= Len(s) THEN s[i] ELSE k[i - Len(s)]
    BY <1>2, ConcatProperties
  <1>4. Len(u) # 0 /\ 1 \in 1..(Len(s) + Len(k)) /\ 1 <= Len(s)
    BY <1>1, <1>3
  <1>5. u # << >> /\ u[1] = s[1]
    BY <1>3, <1>4, EmptySeq
  <1> QED BY <1>2, <1>5 DEF Leads

LEMMA NormalLeads ==
  ASSUME NEW s \in Seq(Symbols), s # << >>, s[1] \notin Space
  PROVE  Normal(s) # << >> /\ Normal(s)[1] = s[1]
PROOF
  <1> DEFINE P == {t \in Seq(Symbols) :
                     t # << >> /\ t[1] \notin Space => Normal(t) # << >> /\ Normal(t)[1] = t[1]}
  <1>1. << >> \in P
    BY EmptySeq
  <1>2. ASSUME NEW t \in Seq(Symbols), NEW c \in Symbols, t \in P PROVE Append(t, c) \in P
    <2> DEFINE z == Append(t, c)
               k == IF c \in Space THEN << >>
                    ELSE IF ~Blank(t) /\ t[Len(t)] \in Space THEN <<" ", c>> ELSE <<c>>
    <2>1. /\ z \in Seq(Symbols) /\ Len(t) \in Nat /\ z[Len(t) + 1] = c
          /\ \A i \in 1..Len(t) : z[i] = t[i]
      BY AppendProperties, LenProperties
    <2>2. Normal(z) = Normal(t) \o k /\ Normal(t) \in Seq(Symbols)
      BY NormalAppend, NormalTyped
    <2>3. k \in Seq(Symbols)
      BY GapTyped, EmptySeq
    <2>4. CASE t = << >>
      <3>1. Len(t) = 0 /\ Blank(t)
        BY <2>4, EmptySeq DEF Blank
      <3>2. z[1] = c
        BY <2>1, <3>1
      <3>3. c \notin Space => k = <<c>>
        BY <3>1
      <3>4. Normal(t) = << >>
        BY <2>4, NormalOfNone
      <3>5. << >> \o k = k
        <4> HIDE DEF k
        <4> QED BY <2>3, ConcatEmptySeq
      <3>6. c \notin Space => Normal(z) = <<c>>
        BY <2>2, <3>3, <3>4, <3>5
      <3> HIDE DEF z
      <3>7. <<c>> # << >> /\ <<c>>[1] = c
        OBVIOUS
      <3>8. z \in P
        BY <2>1, <3>2, <3>6, <3>7
      <3> QED BY <3>8 DEF z
    <2>5. CASE t # << >>
      <3>1. 1 \in 1..Len(t)
        BY <2>1, <2>5, EmptySeq
      <3>2. z[1] = t[1]
        BY <2>1, <3>1
      <3>3. ASSUME t[1] \notin Space PROVE Normal(z) # << >> /\ Normal(z)[1] = t[1]
        <4>1. Normal(t) # << >> /\ Normal(t)[1] = t[1]
          BY <1>2, <2>5, <3>3
        <4> HIDE DEF z, k
        <4>2. Leads(Normal(t), k)
          BY <2>2, <2>3, <4>1, FirstLeads
        <4> QED BY <2>2, <4>1, <4>2 DEF Leads
      <3> HIDE DEF z
      <3>4. z \in P
        BY <2>1, <3>2, <3>3
      <3> QED BY <3>4 DEF z
    <2> QED BY <2>4, <2>5
  <1> HIDE DEF P
  <1>3. s \in P
    BY <1>1, <1>2, SeqInduction
  <1> QED BY <1>3 DEF P

\* Spaces at the beginning and at the end do not count.
LEMMA NormalAfterBlank ==
  ASSUME NEW a \in Seq(Symbols), Blank(a), NEW t \in Seq(Symbols)
  PROVE  Normal(a \o t) = Normal(t)
PROOF
  <1>1. CASE a = << >>
    BY <1>1, ConcatEmptySeq
  <1>2. CASE a # << >>
    <2>1. PICK u \in Seq(Symbols), c \in Symbols : a = Append(u, c)
      BY <1>2, SequenceEmptyOrAppend
    <2>2. /\ Len(u) \in Nat /\ Len(a) = Len(u) + 1 /\ a[Len(u) + 1] = c
          /\ \A i \in 1..Len(u) : a[i] = u[i]
      BY <2>1, AppendProperties, LenProperties
    <2>3. c \in Space /\ Blank(u)
      BY <2>2 DEF Blank
    <2>4. Normal(u) = << >>
      BY <2>3, BlankIsNothing
    <2>5. Normal(Append(u, c) \o t) = Spaced(Normal(u), Normal(t))
      BY <2>3, NormalSpaced
    <2> QED BY <2>1, <2>4, <2>5 DEF Spaced
  <1> QED BY <1>1, <1>2

LEMMA NormalBeforeBlank ==
  ASSUME NEW t \in Seq(Symbols), NEW b \in Seq(Symbols), Blank(b)
  PROVE  Normal(t \o b) = Normal(t)
PROOF
  <1> DEFINE P == {u \in Seq(Symbols) : Blank(u) => Normal(t \o u) = Normal(t)}
  <1>1. << >> \in P
    BY EmptySeq, ConcatEmptySeq
  <1>2. ASSUME NEW u \in Seq(Symbols), NEW c \in Symbols, u \in P PROVE Append(u, c) \in P
    <2>1. /\ Append(u, c) \in Seq(Symbols) /\ Len(u) \in Nat /\ Len(Append(u, c)) = Len(u) + 1
          /\ Append(u, c)[Len(u) + 1] = c /\ \A i \in 1..Len(u) : Append(u, c)[i] = u[i]
      BY AppendProperties, LenProperties
    <2>2. ASSUME Blank(Append(u, c)) PROVE Normal(t \o Append(u, c)) = Normal(t)
      <3>1. c \in Space /\ Blank(u)
        BY <2>1, <2>2 DEF Blank
      <3>2. PICK v \in Seq(Symbols) : v = t \o u
        BY ConcatProperties
      <3>3. Normal(v) = Normal(t)
        BY <1>2, <3>1, <3>2
      <3>4. t \o Append(u, c) = Append(v, c)
        BY <3>2, AppendConcat
      <3>5. Normal(Append(v, c)) = Normal(v) \o << >> /\ Normal(v) \in Seq(Symbols)
        BY <3>1, <3>2, NormalAppend, NormalTyped
      <3>6. Normal(Append(v, c)) = Normal(v)
        BY <3>5, ConcatEmptySeq
      <3> QED BY <3>3, <3>4, <3>6
    <2> QED BY <2>1, <2>2
  <1> HIDE DEF P
  <1>3. b \in P
    BY <1>1, <1>2, SeqInduction
  <1> QED BY <1>3 DEF P

LEMMA NormalOfTrim ==
  ASSUME NEW s \in Seq(Symbols)
  PROVE  LET t == TrimSpace(s)
         IN  /\ t \in Seq(Symbols) /\ Normal(t) = Normal(s)
             /\ IF Normal(s) = << >> THEN t = << >> ELSE t # << >> /\ t[1] = Normal(s)[1]
PROOF
  <1> DEFINE t == TrimSpace(s)
  <1>1. t \in Seq(Symbols) /\ (t # << >> => t[1] \notin Space)
    BY TrimParts
  <1>2. PICK a \in Seq(Symbols), b \in Seq(Symbols) : CutOff(s, a, t, b)
    BY TrimParts
  <1> HIDE DEF t
  <1>3. PICK u \in Seq(Symbols) : u = a \o t
    BY <1>1, <1>2, ConcatProperties
  <1>4. Normal(s) = Normal(u)
    BY <1>2, <1>3, NormalBeforeBlank DEF CutOff
  <1>5. Normal(u) = Normal(t)
    BY <1>1, <1>2, <1>3, NormalAfterBlank DEF CutOff
  <1>6. t # << >> => Normal(t) # << >> /\ Normal(t)[1] = t[1]
    BY <1>1, NormalLeads
  <1> QED BY <1>1, <1>4, <1>5, <1>6, NormalOfNone DEF t

-----------------------------------------------------------------------------
(* The tag. *)

Tag == "@sql"
Tagless(s) == ~Contains(s, Tag)

LEMMA ContainsConcat ==
  ASSUME NEW T, NEW u \in Seq(T), NEW v \in Seq(T), NEW e
  PROVE  Contains(u \o v, e) <=> Contains(u, e) \/ Contains(v, e)
PROOF
  <1>1. Len(u) \in Nat /\ Len(v) \in Nat
    BY LenProperties
  <1>2. PICK c \in Seq(T) : c = u \o v
    BY ConcatProperties
  <1>3. /\ Len(c) = Len(u) + Len(v)
        /\ \A i \in 1..(Len(u) + Len(v)) : c[i] = IF i <= Len(u) THEN u[i] ELSE v[i - Len(u)]
    BY <1>2, ConcatProperties
  <1>4. \A i \in 1..Len(u) : i \in 1..Len(c) /\ c[i] = u[i]
    BY <1>1, <1>3
  <1>5. \A i \in 1..Len(v) : Len(u) + i \in 1..Len(c) /\ c[Len(u) + i] = v[i]
    <2> TAKE i \in 1..Len(v)
    <2>1. Len(u) + i \in 1..(Len(u) + Len(v)) /\ ~(Len(u) + i <= Len(u)) /\ (Len(u) + i) - Len(u) = i
      BY <1>1
    <2> QED BY <1>3, <2>1
  <1>6. \A i \in 1..Len(c) : \/ (i \in 1..Len(u) /\ c[i] = u[i])
                            \/ (i - Len(u) \in 1..Len(v) /\ c[i] = v[i - Len(u)])
    <2> TAKE i \in 1..Len(c)
    <2>1. i \in 1..(Len(u) + Len(v)) /\ (i \in 1..Len(u) \/ (~(i <= Len(u)) /\ i - Len(u) \in 1..Len(v)))
      <3>1. i \in 1..(Len(u) + Len(v))
        BY <1>3
      <3>2. \A m, n \in Nat : \A j \in 1..(m + n) : j \in 1..m \/ (~(j <= m) /\ j - m \in 1..n)
        OBVIOUS
      <3> QED BY <1>1, <3>1, <3>2
    <2>2. i \in 1..Len(u) => i <= Len(u)
      BY <1>1
    <2> QED BY <1>3, <2>1, <2>2
  <1>7. Contains(c, e) <=> Contains(u, e) \/ Contains(v, e)
    BY <1>4, <1>5, <1>6 DEF Contains
  <1> QED BY <1>2, <1>7

\* What comes before the first tag, and what comes after it.
Tagged(s, a, b) == Tagless(a) /\ s = Append(a, Tag) \o b

LEMMA RestOfTagged ==
  ASSUME NEW a \in Seq(Symbols), NEW b \in Seq(Symbols), NEW s, Tagged(s, a, b), Tag \in Symbols
  PROVE  Contains(s, Tag) /\ RestOf(s) = b
PROOF
  <1> DEFINE n == Len(a)
             Is(i) == i \in DOMAIN s /\ s[i] = Tag /\ \A j \in 1..(i - 1) : s[j] # Tag
  <1>1. /\ n \in Nat /\ Append(a, Tag) \in Seq(Symbols) /\ Len(Append(a, Tag)) = n + 1
        /\ Append(a, Tag)[n + 1] = Tag /\ \A i \in 1..n : Append(a, Tag)[i] = a[i]
    BY AppendProperties, LenProperties
  <1>2. PICK u \in Seq(Symbols) : u = Append(a, Tag)
    BY <1>1
  <1>3. s \in Seq(Symbols) /\ s = u \o b
    BY <1>2, ConcatProperties DEF Tagged
  <1>4. /\ Len(s) = (n + 1) + Len(b) /\ Len(b) \in Nat /\ DOMAIN s = 1..Len(s)
        /\ \A i \in 1..((n + 1) + Len(b)) : s[i] = IF i <= n + 1 THEN u[i] ELSE b[i - (n + 1)]
    BY <1>1, <1>2, <1>3, ConcatProperties, LenProperties
  <1>5. \A i \in 1..n : s[i] # Tag
    <2> TAKE i \in 1..n
    <2>1. i \in 1..((n + 1) + Len(b)) /\ i <= n + 1
      BY <1>1, <1>4
    <2>2. s[i] = a[i]
      BY <1>1, <1>2, <1>4, <2>1
    <2> QED BY <2>2 DEF Tagged, Tagless, Contains
  <1>6. n + 1 \in 1..Len(s) /\ s[n + 1] = Tag
    <2>1. n + 1 \in 1..((n + 1) + Len(b)) /\ n + 1 <= n + 1
      BY <1>1, <1>4
    <2> QED BY <1>1, <1>2, <1>4, <2>1
  <1>7. Is(n + 1)
    <2>1. (n + 1) - 1 = n
      BY <1>1
    <2> QED BY <1>4, <1>5, <1>6, <2>1
  <1>8. \A i : Is(i) => i = n + 1
    <2> SUFFICES ASSUME NEW i, Is(i) PROVE i = n + 1
      OBVIOUS
    <2>1. i \in Nat /\ i \in 1..Len(s) /\ s[i] = Tag
      BY <1>4
    <2>2. ~(n + 1 \in 1..(i - 1))
      BY <1>6
    <2>3. ~(i \in 1..n)
      BY <1>5, <2>1
    <2> QED BY <1>1, <2>1, <2>2, <2>3
  <1>9. AfterTag(s) = From(s, n + 2)
    <2>1. AfterTag(s) = From(s, (CHOOSE i : Is(i)) + 1)
      <3>1. (CHOOSE i \in DOMAIN s : s[i] = Tag /\ \A j \in 1..(i - 1) : s[j] # Tag) = CHOOSE i : Is(i)
        OBVIOUS
      <3> HIDE DEF Is
      <3> QED BY <3>1 DEF AfterTag, Tag
    <2> HIDE DEF Is
    <2>2. (CHOOSE i : Is(i)) = n + 1
      BY <1>7, <1>8
    <2>3. (n + 1) + 1 = n + 2
      BY <1>1
    <2> QED BY <2>1, <2>2, <2>3
  <1>10. From(s, n + 2) = b
    <2> DEFINE w == SubSeq(s, (n + 1) + 1, Len(s))
    <2>1. n + 1 \in 0..Len(s)
      BY <1>1, <1>6
    <2>2. /\ w \in Seq(Symbols) /\ Len(w) = Len(s) - (n + 1)
          /\ \A i \in 1..Len(w) : w[i] = s[(n + 1) + i]
      BY <1>3, <2>1, Rear
    <2>3. From(s, n + 2) = w
      <3>1. (n + 1) + 1 = n + 2
        BY <1>1
      <3> QED BY <3>1 DEF From
    <2> HIDE DEF w, n
    <2>4. Len(w) = Len(b)
      BY <1>1, <1>4, <2>2
    <2>5. \A i \in 1..Len(b) : w[i] = b[i]
      <3> TAKE i \in 1..Len(b)
      <3>1. (n + 1) + i \in 1..((n + 1) + Len(b)) /\ ~((n + 1) + i <= n + 1) /\ ((n + 1) + i) - (n + 1) = i
        BY <1>1, <1>4
      <3>2. s[(n + 1) + i] = b[i]
        BY <1>4, <3>1
      <3> QED BY <2>2, <2>4, <3>2
    <2>6. w = b
      BY <2>2, <2>4, <2>5, SeqEqual
    <2> QED BY <2>3, <2>6
  <1>11. Contains(s, Tag)
    BY <1>6 DEF Contains
  <1> QED BY <1>9, <1>10, <1>11 DEF RestOf, Tag

LEMMA TagIsFound ==
  ASSUME NEW s \in Seq(Symbols), Contains(s, Tag)
  PROVE  Tag \in Symbols /\ \E a, b \in Seq(Symbols) : Tagged(s, a, b)
PROOF
  <1> DEFINE tagged == {i \in 1..Len(s) : s[i] = Tag}
  <1>1. Len(s) \in Nat
    BY LenProperties
  <1>2. tagged \in SUBSET Nat /\ tagged # {}
    BY <1>1 DEF Contains
  <1>3. PICK i \in tagged : \A j \in tagged : i <= j
    <2> HIDE DEF tagged
    <2> QED BY <1>2, LeastElement
  <1>4. i \in 1..Len(s) /\ s[i] = Tag
    BY <1>3
  <1>5. Tag \in Symbols
    BY <1>4, ElementOfSeq
  <1> DEFINE a == SubSeq(s, 1, i - 1)
             b == SubSeq(s, i + 1, Len(s))
  <1>6. b \in Seq(Symbols) /\ s = SubSeq(s, 1, i) \o b
    <2>1. i \in 0..Len(s)
      BY <1>1, <1>4
    <2> QED BY <2>1, Rear, CutInTwo
  <1>7. a \in Seq(Symbols) /\ Tagless(a)
    <2>1. 1 \in 1..Len(s) + 1 /\ i - 1 \in 0..Len(s)
      BY <1>1, <1>4
    <2>2. /\ a \in Seq(Symbols) /\ Len(a) = IF 1 <= i - 1 THEN i - 1 - 1 + 1 ELSE 0
          /\ \A j \in 1..i - 1 - 1 + 1 : a[j] = s[1 + j - 1]
      BY <2>1, PartOf
    <2> HIDE DEF a
    <2>3. ASSUME NEW j \in 1..Len(a) PROVE a[j] # Tag
      <3>1. j \in 1..i - 1 - 1 + 1 /\ 1 + j - 1 = j /\ j \in 1..Len(s) /\ ~(i <= j)
        BY <1>1, <1>4, <2>2, <2>3
      <3>2. a[j] = s[j] /\ j \notin tagged
        BY <1>3, <2>2, <3>1
      <3> QED BY <3>1, <3>2
    <2> QED BY <2>2, <2>3 DEF Tagless, Contains
  <1>8. SubSeq(s, 1, i) = Append(a, Tag)
    <2>1. 1 \in 1..Len(s) /\ i \in 1..Len(s)
      BY <1>1, <1>4
    <2>2. SubSeq(s, 1, i) = a \o <<s[i]>>
      BY <2>1, SubSeqRecursiveSecond
    <2> HIDE DEF a
    <2>3. Append(a, Tag) = a \o <<Tag>>
      BY <1>5, <1>7, AppendIsConcat
    <2> QED BY <1>4, <2>2, <2>3
  <1> HIDE DEF a, b
  <1> QED BY <1>5, <1>6, <1>7, <1>8 DEF Tagged

\* Text without a tag does not count, what follows the tag stays.
LEMMA RestSkips ==
  ASSUME NEW x \in Seq(Symbols), Tagless(x), NEW y \in Seq(Symbols)
  PROVE  (Contains(x \o y, Tag) <=> Contains(y, Tag)) /\ RestOf(x \o y) = RestOf(y)
PROOF
  <1>1. PICK z \in Seq(Symbols) : z = x \o y
    BY ConcatProperties
  <1>2. Contains(z, Tag) <=> Contains(y, Tag)
    BY <1>1, ContainsConcat DEF Tagless
  <1>3. CASE ~Contains(y, Tag)
    BY <1>1, <1>2, <1>3 DEF RestOf, Tag
  <1>4. CASE Contains(y, Tag)
    <2>1. Tag \in Symbols
      BY <1>4, TagIsFound
    <2>2. PICK a \in Seq(Symbols), b \in Seq(Symbols) : Tagged(y, a, b)
      BY <1>4, TagIsFound
    <2>3. PICK u \in Seq(Symbols) : u = Append(a, Tag)
      BY <2>1, <2>2, AppendProperties
    <2>4. PICK v \in Seq(Symbols) : v = x \o a
      BY <2>2, ConcatProperties
    <2>5. x \o u = Append(v, Tag)
      BY <2>1, <2>2, <2>3, <2>4, AppendConcat
    <2>6. y = u \o b
      BY <2>2, <2>3 DEF Tagged
    <2>7. (x \o u) \o b = x \o (u \o b)
      <3>1. Associates(x, u, b)
        BY <2>2, <2>3, AllAssociate
      <3> QED BY <3>1 DEF Associates
    <2>8. Tagless(v)
      BY <2>2, <2>4, ContainsConcat DEF Tagged, Tagless
    <2>9. Tagged(z, v, b)
      BY <1>1, <2>5, <2>6, <2>7, <2>8 DEF Tagged
    <2>10. RestOf(z) = b /\ RestOf(y) = b
      BY <2>1, <2>2, <2>4, <2>9, RestOfTagged
    <2> QED BY <1>1, <1>2, <2>10
  <1> QED BY <1>3, <1>4

LEMMA RestTakes ==
  ASSUME NEW x \in Seq(Symbols), Contains(x, Tag), NEW y \in Seq(Symbols)
  PROVE  RestOf(x) \in Seq(Symbols) /\ RestOf(x \o y) = RestOf(x) \o y
PROOF
  <1>1. Tag \in Symbols
    BY TagIsFound
  <1>2. PICK a \in Seq(Symbols), b \in Seq(Symbols) : Tagged(x, a, b)
    BY TagIsFound
  <1>3. PICK u \in Seq(Symbols) : u = Append(a, Tag)
    BY <1>1, <1>2, AppendProperties
  <1>4. PICK z \in Seq(Symbols) : z = b \o y
    BY <1>2, ConcatProperties
  <1>5. x = u \o b
    BY <1>2, <1>3 DEF Tagged
  <1>6. (u \o b) \o y = u \o (b \o y)
    <2>1. Associates(u, b, y)
      BY <1>2, <1>3, AllAssociate
    <2> QED BY <2>1 DEF Associates
  <1>7. Tagged(x \o y, a, z)
    BY <1>2, <1>3, <1>4, <1>5, <1>6 DEF Tagged
  <1>8. RestOf(x) = b
    BY <1>1, <1>2, RestOfTagged
  <1>9. RestOf(x \o y) = z
    BY <1>1, <1>2, <1>4, <1>7, RestOfTagged
  <1> QED BY <1>2, <1>4, <1>8, <1>9

-----------------------------------------------------------------------------
(* Reading the comment. *)

DocTyped ==
  /\ doc \in Seq(Seq(Symbols))
  /\ left \in Seq(Seq(Symbols)) /\ lines \in Seq(Seq(Symbols))
  /\ inSQL \in BOOLEAN
  /\ kind \in QueryKinds \cup {"unread", "skipped", ""}

LEMMA TextTyped ==
  ASSUME NEW line \in Seq(Symbols)
  PROVE  Text(line) \in Seq(Symbols)
PROOF
  <1>1. \A x : \A s \in Seq(Symbols) : TrimPrefix(s, x) \in Seq(Symbols)
    BY HeadTailProperties DEF TrimPrefix
  <1> HIDE DEF TrimPrefix
  <1> QED BY <1>1, Zenon DEF Text

LEMMA AfterTagTyped ==
  ASSUME NEW s \in Seq(Symbols), Contains(s, "@sql")
  PROVE  AfterTag(s) \in Seq(Symbols)
PROOF
  <1> DEFINE tagged == {i \in DOMAIN s : s[i] = "@sql"}
             Is(i) == i \in DOMAIN s /\ s[i] = "@sql" /\ \A j \in 1..(i - 1) : s[j] # "@sql"
  <1>1. Len(s) \in Nat /\ DOMAIN s = 1..Len(s)
    BY LenProperties
  <1>2. tagged \in SUBSET Nat /\ tagged # {}
    BY <1>1 DEF Contains
  <1>3. PICK i \in tagged : \A j \in tagged : i <= j
    <2> HIDE DEF tagged
    <2> QED BY <1>2, LeastElement
  <1>4. i \in DOMAIN s /\ s[i] = "@sql" /\ \A j \in 1..(i - 1) : s[j] # "@sql"
    <2>1. i \in 1..Len(s) /\ s[i] = "@sql"
      BY <1>1, <1>3
    <2>2. \A j \in 1..(i - 1) : j \in 1..Len(s) /\ ~(i <= j)
      BY <1>1, <2>1
    <2> QED BY <1>1, <1>3, <2>1, <2>2
  <1>5. PICK k \in 1..Len(s) : AfterTag(s) = From(s, k + 1)
    BY <1>1, <1>4 DEF AfterTag
  <1>6. k + 1 \in 1..Len(s) + 1 /\ Len(s) \in 0..Len(s)
    BY <1>1
  <1> QED BY <1>5, <1>6, PartOf DEF From

LEMMA JoinTyped ==
  ASSUME NEW ls \in Seq(Seq(Symbols))
  PROVE  Join(ls) \in Seq(Symbols)
PROOF
  <1> DEFINE ps == [i \in DOMAIN ls |-> IF i = 1 THEN ls[i] ELSE <<NL>> \o ls[i]]
  <1>1. <<NL>> \in Seq(Symbols)
    BY SymbolsAssumption, Short DEF Space
  <1>2. Len(ls) \in Nat /\ DOMAIN ls = 1..Len(ls) /\ \A i \in 1..Len(ls) : ls[i] \in Seq(Symbols)
    BY LenProperties, ElementOfSeq
  <1>3. \A i \in 1..Len(ls) : <<NL>> \o ls[i] \in Seq(Symbols)
    BY <1>1, <1>2, ConcatProperties
  <1>4. ps \in [1..Len(ls) -> Seq(Symbols)]
    BY <1>2, <1>3
  <1>5. ps \in Seq(Seq(Symbols))
    BY <1>2, <1>4, SeqDef
  <1>6. Join(ls) = FlattenSeq(ps)
    BY DEF Join
  <1> HIDE DEF ps
  <1> QED BY <1>5, <1>6, FlattenTyped

LEMMA KindTyped ==
  ASSUME NEW ls
  PROVE  Kind(ls) \in QueryKinds \cup {""}
PROOF
  BY KindsAssumption DEF Kind, QueryKinds

-----------------------------------------------------------------------------
(* Comments. *)

Slashed(line) == line # << >> /\ line[1] = "//"

LEMMA OneBlank ==
  ASSUME NEW s, Len(s) = 1, s[1] \in Space
  PROVE  Blank(s)
PROOF
  <1>1. \A i \in 1..1 : i = 1
    OBVIOUS
  <1> QED BY <1>1 DEF Blank

LEMMA OneTagless ==
  ASSUME NEW s, Len(s) = 1, s[1] # Tag
  PROVE  Tagless(s)
PROOF
  <1>1. \A i \in 1..1 : i = 1
    OBVIOUS
  <1> QED BY <1>1 DEF Tagless, Contains

\* The first of a sequence, and the others.
HeadFirst(s) == s = <<s[1]>> \o Tail(s)

LEMMA BeginsWithHead ==
  ASSUME NEW T, NEW s \in Seq(T), s # << >>
  PROVE  HeadFirst(s)
PROOF
  <1>1. Len(s) \in Nat /\ Len(s) # 0
    BY LenProperties, EmptySeq
  <1>2. 1 \in 1..Len(s) /\ Len(s) \in 1..Len(s)
    BY <1>1
  <1>3. SubSeq(s, 1, Len(s)) = <<s[1]>> \o SubSeq(s, 1 + 1, Len(s))
    BY <1>2, SubSeqRecursiveFirst
  <1>4. 1 + 1 = 2
    OBVIOUS
  <1>5. SubSeq(s, 1, Len(s)) = s /\ Tail(s) = SubSeq(s, 2, Len(s))
    BY SubSeqFull, TailIsSubSeq
  <1> QED BY <1>3, <1>4, <1>5 DEF HeadFirst

\* Without the slashes a line is what is read of it, but for a space.
LEMMA LineIsRead ==
  ASSUME NEW line \in Seq(Symbols), Slashed(line)
  PROVE  /\ Tail(line) \in Seq(Symbols) /\ Text(line) \in Seq(Symbols)
         /\ Normal(Text(line)) = Normal(Tail(line))
         /\ Contains(Text(line), Tag) <=> Contains(Tail(line), Tag)
         /\ RestOf(Text(line)) = RestOf(Tail(line))
PROOF
  <1>1. Text(line) = TrimPrefix(Tail(line), " ")
    <2>1. TrimPrefix(line, "//") = Tail(line)
      BY DEF TrimPrefix, Slashed
    <2> QED BY <2>1 DEF Text
  <1>2. PICK u \in Seq(Symbols) : u = Tail(line)
    BY HeadTailProperties DEF Slashed
  <1>3. CASE u = << >> \/ u[1] # " "
    <2>1. TrimPrefix(u, " ") = u
      BY <1>3 DEF TrimPrefix
    <2> QED BY <1>1, <1>2, <2>1
  <1>4. CASE u # << >> /\ u[1] = " "
    <2>1. TrimPrefix(u, " ") = Tail(u)
      BY <1>4 DEF TrimPrefix
    <2>2. PICK t \in Seq(Symbols) : t = Tail(u)
      BY <1>4, HeadTailProperties
    <2>3. Gap \in Seq(Symbols) /\ Blank(Gap) /\ Tagless(Gap)
      <3>1. Len(Gap) = 1 /\ Gap[1] = " "
        BY DEF Gap
      <3>2. " " \in Space /\ " " # Tag
        BY DEF Space, Tag
      <3>3. Blank(Gap) /\ Tagless(Gap)
        BY <3>1, <3>2, OneBlank, OneTagless
      <3> QED BY <3>3, GapTyped
    <2>4. u = Gap \o t
      <3>1. HeadFirst(u)
        BY <1>4, BeginsWithHead
      <3> QED BY <1>4, <2>2, <3>1 DEF HeadFirst, Gap
    <2>5. Normal(u) = Normal(t)
      BY <2>2, <2>3, <2>4, NormalAfterBlank
    <2>6. (Contains(u, Tag) <=> Contains(t, Tag)) /\ RestOf(u) = RestOf(t)
      BY <2>2, <2>3, <2>4, RestSkips
    <2> QED BY <1>1, <1>2, <2>1, <2>2, <2>5, <2>6
  <1> QED BY <1>3, <1>4

\* The tag of a line, or of the lines below it.
LEMMA TagOfLine ==
  ASSUME NEW u \in Seq(Symbols), NEW y \in Seq(Symbols)
  PROVE  /\ Append(u, NL) \o y \in Seq(Symbols)
         /\ Tagless(u) => RestOf(Append(u, NL) \o y) = RestOf(y)
         /\ Contains(u, Tag) =>
              /\ RestOf(u) \in Seq(Symbols)
              /\ Normal(RestOf(Append(u, NL) \o y)) = Spaced(Normal(RestOf(u)), Normal(y))
PROOF
  <1>1. NL \in Symbols /\ NL \in Space /\ NL # Tag
    BY SymbolsAssumption DEF Space, NL, Tag
  <1>2. PICK e \in Seq(Symbols) : e = <<NL>> /\ Tagless(e)
    <2>1. Len(<<NL>>) = 1 /\ <<NL>>[1] = NL
      OBVIOUS
    <2>2. Tagless(<<NL>>)
      BY <1>1, <2>1 DEF Tagless, Contains
    <2> QED BY <1>1, <2>2, Short
  <1>3. PICK v \in Seq(Symbols) : v = Append(u, NL) /\ v = u \o e
    BY <1>1, <1>2, AppendProperties, AppendIsConcat
  <1>4. v \o y \in Seq(Symbols)
    BY ConcatProperties
  <1>5. ASSUME Tagless(u) PROVE RestOf(v \o y) = RestOf(y)
    <2>1. Tagless(v)
      BY <1>2, <1>3, <1>5, ContainsConcat DEF Tagless
    <2> QED BY <2>1, RestSkips
  <1>6. ASSUME Contains(u, Tag)
        PROVE  /\ RestOf(u) \in Seq(Symbols)
               /\ Normal(RestOf(v \o y)) = Spaced(Normal(RestOf(u)), Normal(y))
    <2>1. PICK r \in Seq(Symbols) : r = RestOf(u) /\ RestOf(u \o e) = r \o e
      BY <1>2, <1>6, RestTakes
    <2>2. Contains(v, Tag)
      <3>1. Contains(u \o e, Tag)
        BY <1>2, <1>6, ContainsConcat
      <3> QED BY <1>3, <3>1
    <2>3. RestOf(v \o y) = RestOf(v) \o y
      BY <2>2, RestTakes
    <2>4. r \o e = Append(r, NL)
      BY <1>1, <1>2, AppendIsConcat
    <2>5. RestOf(v \o y) = Append(r, NL) \o y
      BY <1>3, <2>1, <2>3, <2>4
    <2>6. Normal(Append(r, NL) \o y) = Spaced(Normal(r), Normal(y))
      BY <1>1, NormalSpaced
    <2> QED BY <2>1, <2>5, <2>6
  <1> QED BY <1>3, <1>4, <1>5, <1>6

\* The lines without slashes, one after the other.
LEMMA BareTyped ==
  ASSUME NEW ls \in Seq(Seq(Symbols)), \A i \in 1..Len(ls) : Slashed(ls[i])
  PROVE  /\ Bare(ls) \in Seq(Symbols)
         /\ [i \in DOMAIN ls |-> Append(Tail(ls[i]), NL)] \in Seq(Seq(Symbols))
PROOF
  <1> DEFINE ps == [i \in DOMAIN ls |-> Append(Tail(ls[i]), NL)]
  <1>1. Len(ls) \in Nat /\ DOMAIN ls = 1..Len(ls) /\ \A i \in 1..Len(ls) : ls[i] \in Seq(Symbols)
    BY LenProperties, ElementOfSeq
  <1>2. NL \in Symbols
    BY SymbolsAssumption DEF Space
  <1>3. \A i \in 1..Len(ls) : Append(Tail(ls[i]), NL) \in Seq(Symbols)
    <2> TAKE i \in 1..Len(ls)
    <2>1. PICK u \in Seq(Symbols) : u = Tail(ls[i])
      BY <1>1, LineIsRead
    <2> QED BY <1>2, <2>1, AppendProperties
  <1>4. ps \in [1..Len(ls) -> Seq(Symbols)]
    BY <1>1, <1>3
  <1>5. ps \in Seq(Seq(Symbols))
    BY <1>1, <1>4, SeqOfFunction
  <1>6. Bare(ls) = FlattenSeq(ps)
    BY DEF Bare
  <1> HIDE DEF ps
  <1>7. FlattenSeq(ps) \in Seq(Symbols)
    BY <1>5, FlattenTyped
  <1> QED BY <1>5, <1>6, <1>7 DEF ps

LEMMA BareOfNone == Bare(<< >>) = << >>
PROOF
  <1>1. [i \in DOMAIN << >> |-> Append(Tail(<< >>[i]), NL)] = << >>
    OBVIOUS
  <1> QED BY <1>1 DEF Bare, FlattenSeq

LEMMA BareBegins ==
  ASSUME NEW ls \in Seq(Seq(Symbols)), ls # << >>, \A i \in 1..Len(ls) : Slashed(ls[i])
  PROVE  /\ Tail(ls) \in Seq(Seq(Symbols)) /\ \A i \in 1..Len(Tail(ls)) : Slashed(Tail(ls)[i])
         /\ Head(ls) \in Seq(Symbols) /\ Slashed(Head(ls))
         /\ Bare(ls) = Append(Tail(Head(ls)), NL) \o Bare(Tail(ls))
PROOF
  <1> DEFINE Ps(ss) == [i \in DOMAIN ss |-> Append(Tail(ss[i]), NL)]
  <1>1. /\ Len(ls) \in Nat /\ Len(ls) # 0 /\ DOMAIN ls = 1..Len(ls)
        /\ \A i \in 1..Len(ls) : ls[i] \in Seq(Symbols)
    BY LenProperties, EmptySeq, ElementOfSeq
  <1>2. PICK rs \in Seq(Seq(Symbols)) : rs = Tail(ls)
    BY HeadTailProperties
  <1>3. Len(rs) = Len(ls) - 1 /\ \A i \in 1..Len(rs) : rs[i] = ls[i + 1]
    BY <1>2, HeadTailProperties
  <1>4. \A i \in 1..Len(rs) : i + 1 \in 1..Len(ls)
    BY <1>1, <1>3
  <1>5. \A i \in 1..Len(rs) : Slashed(rs[i])
    BY <1>3, <1>4
  <1>6. Head(ls) = ls[1] /\ 1 \in 1..Len(ls)
    BY <1>1
  <1>7. Head(ls) \in Seq(Symbols) /\ Slashed(Head(ls))
    BY <1>1, <1>6
  <1>8. PICK h \in Seq(Symbols) : h = Append(Tail(Head(ls)), NL)
    <2>1. PICK u \in Seq(Symbols) : u = Tail(Head(ls))
      BY <1>7, LineIsRead
    <2>2. NL \in Symbols
      BY SymbolsAssumption DEF Space
    <2> QED BY <2>1, <2>2, AppendProperties
  <1>9. Ps(ls) \in Seq(Seq(Symbols)) /\ Ps(rs) \in Seq(Seq(Symbols))
    BY <1>5, BareTyped
  <1>10. /\ Len(Ps(ls)) = Len(ls) /\ Len(Ps(rs)) = Len(rs)
         /\ Ps(ls)[1] = h /\ \A i \in 1..Len(rs) : Ps(rs)[i] = Ps(ls)[i + 1]
    <2>1. DOMAIN Ps(ls) = DOMAIN ls /\ DOMAIN Ps(rs) = DOMAIN rs
      OBVIOUS
    <2>2. DOMAIN rs = 1..Len(rs) /\ Len(rs) \in Nat
      BY LenProperties
    <2>3. \A i \in 1..Len(ls) : Ps(ls)[i] = Append(Tail(ls[i]), NL)
      BY <1>1
    <2>4. \A i \in 1..Len(rs) : Ps(rs)[i] = Append(Tail(rs[i]), NL)
      BY <2>2
    <2> HIDE DEF Ps
    <2>5. Len(Ps(ls)) = Len(ls) /\ Len(Ps(rs)) = Len(rs)
      BY <1>1, <1>9, <2>1, <2>2, LenProperties
    <2>6. \A i \in 1..Len(rs) : Ps(rs)[i] = Ps(ls)[i + 1]
      BY <1>3, <1>4, <2>3, <2>4
    <2> QED BY <1>6, <1>8, <2>3, <2>5, <2>6
  <1> HIDE DEF Ps
  <1>11. Ps(ls) = <<h>> \o Ps(rs)
    <2>1. PICK f \in Seq(Seq(Symbols)) : f = Ps(ls)
      BY <1>9
    <2>2. f # << >> /\ Len(f) # 0 /\ Len(f) \in Nat
      BY <1>1, <1>10, <2>1, EmptySeq, LenProperties
    <2>3. f = <<f[1]>> \o Tail(f)
      BY <2>2, BeginsWithHead DEF HeadFirst
    <2>4. Tail(f) = Ps(rs)
      <3>1. /\ Tail(f) \in Seq(Seq(Symbols)) /\ Len(Tail(f)) = Len(f) - 1
            /\ \A i \in 1..Len(Tail(f)) : Tail(f)[i] = f[i + 1]
        BY <2>2, HeadTailProperties
      <3>2. PICK g \in Seq(Seq(Symbols)) : g = Ps(rs)
        BY <1>9
      <3>3. PICK c \in Seq(Seq(Symbols)) : c = Tail(f)
        BY <3>1
      <3>4. Len(c) = Len(g)
        BY <1>3, <1>10, <2>1, <3>1, <3>2, <3>3
      <3>5. \A i \in 1..Len(c) : c[i] = g[i]
        <4>1. ASSUME NEW i \in 1..Len(c) PROVE c[i] = g[i]
          <5>1. i \in 1..Len(rs) /\ i \in 1..Len(Tail(f))
            BY <1>10, <2>1, <3>1, <3>2, <3>3, <3>4, LenProperties
          <5>2. c[i] = f[i + 1]
            BY <3>1, <3>3, <5>1
          <5>3. g[i] = f[i + 1]
            BY <1>10, <2>1, <3>2, <5>1
          <5> QED BY <5>2, <5>3
        <4> QED BY <4>1
      <3> QED BY <3>2, <3>3, <3>4, <3>5, SeqEqual
    <2> QED BY <1>10, <2>1, <2>3, <2>4
  <1>12. FlattenSeq(<<h>> \o Ps(rs)) = h \o FlattenSeq(Ps(rs))
    BY <1>8, <1>9, FlattenCons
  <1>13. Bare(ls) = FlattenSeq(Ps(ls)) /\ Bare(rs) = FlattenSeq(Ps(rs))
    BY DEF Bare, Ps
  <1> QED BY <1>2, <1>5, <1>7, <1>8, <1>11, <1>12, <1>13

\* The lines of the query, joined.
LEMMA JoinOfNone == Join(<< >>) = << >>
PROOF
  <1>1. [i \in DOMAIN << >> |-> IF i = 1 THEN << >>[i] ELSE <<NL>> \o << >>[i]] = << >>
    OBVIOUS
  <1> QED BY <1>1 DEF Join, FlattenSeq

LEMMA JoinAppend ==
  ASSUME NEW ls \in Seq(Seq(Symbols)), NEW line \in Seq(Symbols)
  PROVE  /\ Append(ls, line) \in Seq(Seq(Symbols)) /\ Join(Append(ls, line)) \in Seq(Symbols)
         /\ ls = << >> => Join(Append(ls, line)) = line
         /\ ls # << >> => Join(Append(ls, line)) = Append(Join(ls), NL) \o line
PROOF
  <1> DEFINE Ps(ss) == [i \in DOMAIN ss |-> IF i = 1 THEN ss[i] ELSE <<NL>> \o ss[i]]
             n == Len(ls)
  <1>1. /\ n \in Nat /\ DOMAIN ls = 1..n /\ \A i \in 1..n : ls[i] \in Seq(Symbols)
    BY LenProperties, ElementOfSeq
  <1>2. PICK z \in Seq(Seq(Symbols)) : z = Append(ls, line)
    BY AppendProperties
  <1>3. Len(z) = n + 1 /\ DOMAIN z = 1..(n + 1) /\ z[n + 1] = line /\ \A i \in 1..n : z[i] = ls[i]
    BY <1>2, AppendProperties, LenProperties
  <1>4. NL \in Symbols /\ <<NL>> \in Seq(Symbols)
    BY SymbolsAssumption, Short DEF Space
  <1>5. PICK e \in Seq(Symbols) : e = <<NL>>
    BY <1>4
  <1>6. PICK k \in Seq(Symbols) : k = IF n + 1 = 1 THEN line ELSE <<NL>> \o line
    <2>1. e \o line \in Seq(Symbols)
      BY <1>5, ConcatProperties
    <2> QED BY <1>5, <2>1
  <1>7. Ps(ls) \in Seq(Seq(Symbols)) /\ Len(Ps(ls)) = n
    <2>1. \A i \in 1..n : <<NL>> \o ls[i] \in Seq(Symbols)
      <3> TAKE i \in 1..n
      <3>1. PICK u \in Seq(Symbols) : u = ls[i]
        BY <1>1
      <3>2. e \o u \in Seq(Symbols)
        BY <1>5, <3>1, ConcatProperties
      <3> QED BY <1>5, <3>1, <3>2
    <2>2. Ps(ls) \in [1..n -> Seq(Symbols)]
      BY <1>1, <2>1
    <2> HIDE DEF Ps
    <2> QED BY <1>1, <2>2, SeqOfFunction
  <1>8. /\ DOMAIN Ps(z) = 1..(n + 1) /\ \A i \in 1..n : Ps(z)[i] = Ps(ls)[i]
        /\ Ps(z)[n + 1] = k
    <2>1. DOMAIN Ps(z) = 1..(n + 1)
      BY <1>3
    <2>2. \A i \in 1..(n + 1) : Ps(z)[i] = IF i = 1 THEN z[i] ELSE <<NL>> \o z[i]
      BY <1>3
    <2>3. \A i \in 1..n : Ps(ls)[i] = IF i = 1 THEN ls[i] ELSE <<NL>> \o ls[i]
      BY <1>1
    <2> HIDE DEF Ps
    <2>4. n + 1 \in 1..(n + 1) /\ \A i \in 1..n : i \in 1..(n + 1)
      BY <1>1
    <2>5. \A i \in 1..n : Ps(z)[i] = Ps(ls)[i]
      BY <1>3, <2>2, <2>3, <2>4
    <2>6. Ps(z)[n + 1] = IF n + 1 = 1 THEN line ELSE <<NL>> \o line
      BY <1>3, <2>2, <2>4
    <2>7. Ps(z)[n + 1] = k
      BY <1>6, <2>6
    <2> QED BY <2>1, <2>5, <2>7
  <1>9. Ps(z) = Append(Ps(ls), k)
    <2>1. PICK f \in Seq(Seq(Symbols)) : f = Ps(ls) /\ Len(f) = n
      BY <1>7
    <2>2. PICK g \in Seq(Seq(Symbols)) : g = Append(f, k)
      BY <1>6, <2>1, AppendProperties
    <2>3. /\ Len(g) = n + 1 /\ g[n + 1] = k /\ \A i \in 1..n : g[i] = f[i]
          /\ DOMAIN g = 1..(n + 1)
      BY <1>6, <2>1, <2>2, AppendProperties, LenProperties
    <2>4. \A i \in 1..(n + 1) : i \in 1..n \/ i = n + 1
      BY <1>1
    <2>5. \A i \in 1..(n + 1) : Ps(z)[i] = g[i]
      <3> HIDE DEF Ps
      <3> QED BY <1>8, <2>1, <2>3, <2>4
    <2>6. PICK d \in Seq(Seq(Symbols)) : d = Ps(z) /\ Len(d) = n + 1
      <3> HIDE DEF Ps
      <3>1. \A i \in 1..(n + 1) : Ps(z)[i] \in Seq(Symbols)
        BY <2>2, <2>3, <2>5, ElementOfSeq
      <3>2. Ps(z) = [i \in 1..(n + 1) |-> Ps(z)[i]]
        <4>1. Ps(z) = [i \in DOMAIN Ps(z) |-> Ps(z)[i]]
          BY DEF Ps
        <4> QED BY <1>8, <4>1
      <3>3. Ps(z) \in [1..(n + 1) -> Seq(Symbols)]
        BY <3>1, <3>2
      <3>4. n + 1 \in Nat
        BY <1>1
      <3> QED BY <3>3, <3>4, SeqOfFunction
    <2>7. d = g
      <3> HIDE DEF Ps
      <3>1. Len(d) = Len(g) /\ \A i \in 1..Len(d) : d[i] = g[i]
        BY <2>3, <2>5, <2>6
      <3> QED BY <3>1, SeqEqual
    <2> QED BY <2>1, <2>2, <2>6, <2>7
  <1>10. Join(z) = FlattenSeq(Ps(z)) /\ Join(ls) = FlattenSeq(Ps(ls))
    BY DEF Join
  <1> HIDE DEF Ps
  <1>11. FlattenSeq(Append(Ps(ls), k)) = FlattenSeq(Ps(ls)) \o k
    BY <1>6, <1>7, FlattenAppend
  <1>12. PICK j \in Seq(Symbols) : j = Join(ls)
    BY JoinTyped
  <1>13. Join(z) = j \o k
    BY <1>9, <1>10, <1>11, <1>12
  <1>14. j \o k \in Seq(Symbols)
    BY <1>6, <1>12, ConcatProperties
  <1>15. CASE ls = << >>
    <2>1. n = 0 /\ j = << >>
      BY <1>12, <1>15, JoinOfNone, EmptySeq
    <2>2. k = line
      BY <1>6, <2>1
    <2>3. << >> \o line = line
      BY ConcatEmptySeq
    <2> QED BY <1>2, <1>13, <1>14, <1>15, <2>1, <2>2, <2>3
  <1>16. CASE ls # << >>
    <2>1. n # 0
      BY <1>16, EmptySeq
    <2>2. n + 1 # 1
      BY <1>1, <2>1
    <2>3. k = e \o line
      BY <1>5, <1>6, <2>2
    <2>4. Associates(j, e, line)
      BY <1>5, <1>12, AllAssociate
    <2>5. j \o e = Append(j, NL)
      BY <1>4, <1>5, <1>12, AppendIsConcat
    <2> QED BY <1>2, <1>12, <1>13, <1>14, <1>16, <2>3, <2>4, <2>5 DEF Associates
  <1> QED BY <1>15, <1>16

\* A line more is a text more, and the first one stays the first.
LEMMA NormalOfJoin ==
  ASSUME NEW ls \in Seq(Seq(Symbols)), NEW line \in Seq(Symbols)
  PROVE  Normal(Join(Append(ls, line))) = Spaced(Normal(Join(ls)), Normal(line))
PROOF
  <1>1. CASE ls = << >>
    BY <1>1, JoinAppend, JoinOfNone, NormalOfNone DEF Spaced
  <1>2. CASE ls # << >>
    <2>1. PICK j \in Seq(Symbols) : j = Join(ls)
      BY JoinTyped
    <2>2. NL \in Space
      BY DEF Space
    <2>3. Normal(Append(j, NL) \o line) = Spaced(Normal(j), Normal(line))
      BY <2>1, <2>2, NormalSpaced
    <2> QED BY <1>2, <2>1, <2>3, JoinAppend
  <1> QED BY <1>1, <1>2

LEMMA SpacedLeads ==
  ASSUME NEW p \in Seq(Symbols), p # << >>, NEW q \in Seq(Symbols)
  PROVE  Spaced(p, q) # << >> /\ Spaced(p, q)[1] = p[1]
PROOF
  <1>1. PICK u \in Seq(Symbols) : u = p \o Gap
    BY GapTyped, ConcatProperties
  <1>2. Leads(p, Gap)
    BY GapTyped, FirstLeads
  <1>3. u # << >> /\ u[1] = p[1]
    BY <1>1, <1>2 DEF Leads
  <1>4. Leads(u, q)
    BY <1>1, <1>3, FirstLeads
  <1> QED BY <1>1, <1>3, <1>4 DEF Leads, Spaced

\* What one line does to what is left to read.
LEMMA ReadingALine ==
  ASSUME NEW ls \in Seq(Seq(Symbols)), ls # << >>, \A i \in 1..Len(ls) : Slashed(ls[i])
  PROVE  LET x == Text(Head(ls))
             y == Bare(Tail(ls))
         IN  /\ x \in Seq(Symbols) /\ y \in Seq(Symbols)
             /\ Normal(Bare(ls)) = Spaced(Normal(x), Normal(y))
             /\ Tagless(x) => RestOf(Bare(ls)) = RestOf(y)
             /\ Contains(x, Tag) =>
                  /\ AfterTag(x) \in Seq(Symbols)
                  /\ Normal(RestOf(Bare(ls))) = Spaced(Normal(AfterTag(x)), Normal(y))
PROOF
  <1>1. PICK line \in Seq(Symbols) : line = Head(ls) /\ Slashed(line)
    BY BareBegins
  <1>2. PICK rs \in Seq(Seq(Symbols)) : rs = Tail(ls) /\ \A i \in 1..Len(rs) : Slashed(rs[i])
    BY BareBegins
  <1>3. PICK y \in Seq(Symbols) : y = Bare(Tail(ls))
    BY <1>2, BareTyped
  <1>4. PICK u \in Seq(Symbols) : u = Tail(line)
    BY <1>1, LineIsRead
  <1>5. PICK x \in Seq(Symbols) : x = Text(line)
    BY <1>1, LineIsRead
  <1>6. Normal(x) = Normal(u) /\ (Contains(x, Tag) <=> Contains(u, Tag)) /\ RestOf(x) = RestOf(u)
    BY <1>1, <1>4, <1>5, LineIsRead
  <1>7. Bare(ls) = Append(u, NL) \o y
    BY <1>1, <1>3, <1>4, BareBegins
  <1>8. Normal(Append(u, NL) \o y) = Spaced(Normal(u), Normal(y))
    <2>1. NL \in Space
      BY DEF Space
    <2> QED BY <2>1, NormalSpaced
  <1>9. /\ Tagless(u) => RestOf(Append(u, NL) \o y) = RestOf(y)
        /\ Contains(u, Tag) =>
             /\ RestOf(u) \in Seq(Symbols)
             /\ Normal(RestOf(Append(u, NL) \o y)) = Spaced(Normal(RestOf(u)), Normal(y))
    BY TagOfLine
  <1>10. Contains(x, Tag) => RestOf(x) = AfterTag(x)
    BY DEF RestOf, Tag
  <1>11. Tagless(x) => Tagless(u)
    BY <1>6 DEF Tagless
  <1> QED BY <1>1, <1>3, <1>5, <1>6, <1>7, <1>8, <1>9, <1>10, <1>11

-----------------------------------------------------------------------------
(* The invariant. *)

\* The invariant: tokenize is not called before the comment was read.
Inv ==
  /\ DocTyped
  /\ Cut
  /\ kind = "unread" => state = "idle"

LEMMA InvIsWhatIsChecked ==
  ASSUME Inv
  PROVE  TypeOK /\ NothingLost /\ TextsAreMaximal
PROOF
  <1>1. Fine(tokens)
    BY DEF Inv, Cut
  <1> QED BY <1>1, FineIsWhatIsChecked, PiecewiseIsWhatIsChecked DEF Inv, DocTyped, Cut, TypeOK, TokensTypeOK

LEMMA InvBegins ==
  ASSUME Init
  PROVE  Inv
PROOF
  <1>1. Cut /\ state = "idle"
    BY CutBegins DEF Init, TokenizerInit
  <1>2. << >> \in Seq(Seq(Symbols))
    BY EmptySeq
  <1>3. DocTyped
    BY <1>2, DocsAssumption DEF Init, DocTyped
  <1> QED BY <1>1, <1>3 DEF Inv

LEMMA InvIsKept ==
  ASSUME Inv, [Next]_vars
  PROVE  Inv'
PROOF
  <1>1. /\ doc \in Seq(Seq(Symbols)) /\ left \in Seq(Seq(Symbols)) /\ lines \in Seq(Seq(Symbols))
        /\ inSQL \in BOOLEAN /\ kind \in QueryKinds \cup {"unread", "skipped", ""}
        /\ Cut /\ (kind = "unread" => state = "idle")
    BY DEF Inv, DocTyped
  <1>2. ASSUME UNCHANGED tokenizerVars
        PROVE  Cut'
    BY <1>1, <1>2 DEF tokenizerVars, Cut, Piecewise
  <1>3. ASSUME ReadsLine
        PROVE  /\ left' \in Seq(Seq(Symbols)) /\ kind = "unread"
               /\ Head(left) \in Seq(Symbols) /\ Text(Head(left)) \in Seq(Symbols)
    BY <1>1, <1>3, HeadTailProperties, TextTyped DEF ReadsLine
  <1>4. CASE Prose
    BY <1>1, <1>2, <1>3, <1>4 DEF Prose, Inv, DocTyped, tokenizerVars
  <1>5. CASE TagLine
    <2> DEFINE rest == TrimSpace(AfterTag(Text(Head(left))))
    <2>1. rest \in Seq(Symbols)
      BY <1>3, <1>5, AfterTagTyped, TrimParts DEF TagLine
    <2>2. lines' = lines \/ lines' = Append(lines, rest)
      BY <1>5 DEF TagLine
    <2> HIDE DEF rest
    <2>3. lines' \in Seq(Seq(Symbols))
      <3>1. lines \in Seq(Seq(Symbols)) /\ Append(lines, rest) \in Seq(Seq(Symbols))
        BY <1>1, <2>1, AppendProperties
      <3> QED BY <2>2, <3>1, Zenon
    <2> QED BY <1>1, <1>2, <1>3, <1>5, <2>3 DEF TagLine, Inv, DocTyped, tokenizerVars
  <1>6. CASE SQLLine
    <2>1. lines' \in Seq(Seq(Symbols))
      BY <1>1, <1>3, <1>6, AppendProperties DEF SQLLine
    <2> QED BY <1>1, <1>2, <1>3, <1>6, <2>1 DEF SQLLine, Inv, DocTyped, tokenizerVars
  <1>7. CASE SkipMethod
    BY <1>1, <1>2, <1>7 DEF SkipMethod, Inv, DocTyped, tokenizerVars
  <1>8. CASE TakeMethod
    <2>1. Cut'
      BY <1>1, <1>8, TokenizeIsCut, JoinTyped DEF TakeMethod
    <2>2. kind' \in QueryKinds \cup {""} /\ kind' # "unread"
      BY <1>8, KindTyped DEF TakeMethod, QueryKinds
    <2> QED BY <1>1, <1>8, <2>1, <2>2 DEF TakeMethod, Inv, DocTyped
  <1>9. CASE TokenizerNext /\ UNCHANGED docVars
    <2>1. Cut'
      BY <1>1, <1>9, TokenizerIsCut
    <2>2. state # "idle"
      BY <1>9 DEF TokenizerNext, TailText, Action, Reject, Finish, Reading
    <2> QED BY <1>1, <1>9, <2>1, <2>2 DEF docVars, Inv, DocTyped
  <1>10. CASE UNCHANGED vars
    BY <1>1, <1>2, <1>10 DEF vars, docVars, tokenizerVars, Inv, DocTyped
  <1> QED BY <1>4, <1>5, <1>6, <1>7, <1>8, <1>9, <1>10 DEF Next

\* The invariant holds of every comment: what the comment leaves is a template
\* of symbols, and however it is cut up the tokens and the rest make it up.
THEOREM Invariance == Spec => []Inv
PROOF
  <1>1. Init => Inv
    BY InvBegins
  <1>2. Inv /\ [Next]_vars => Inv'
    BY InvIsKept
  <1> QED BY <1>1, <1>2, PTL DEF Spec

\* Comments, templates and tokens are what their types say, and no condition
\* is empty or has spaces around it (tokenizer.go:58-92).
THEOREM Typing == Spec => []TypeOK
PROOF
  <1>1. Inv => TypeOK
    BY InvIsWhatIsChecked
  <1> QED BY <1>1, Invariance, PTL

\* The tokens of any template stand for what was read of it, piece by piece: texts
\* to the letter, actions but for the spaces around their words (tokenizer.go:35-92).
THEOREM Lossless == Spec => []NothingLost
PROOF
  <1>1. Inv => NothingLost
    BY InvIsWhatIsChecked
  <1> QED BY <1>1, Invariance, PTL

\* No text of any template is empty, holds an action or follows another text
\* (tokenizer.go:35-56).
THEOREM WholeTexts == Spec => []TextsAreMaximal
PROOF
  <1>1. Inv => TextsAreMaximal
    BY InvIsWhatIsChecked
  <1> QED BY <1>1, Invariance, PTL

-----------------------------------------------------------------------------
(* What is told of the template. *)

AllSlashed(ls) == \A i \in 1..Len(ls) : Slashed(ls[i])

\* What was read and what is left make up the template; before the tag nothing
\* was read of it.
Ahead ==
  IF inSQL THEN Spaced(Normal(Join(lines)), Normal(Bare(left))) = Normal(Rest)
  ELSE lines = << >> /\ RestOf(Bare(left)) = Rest

\* The word a query begins with, unless its first line is blank.
Opening(ls) ==
  ls # << >> /\ Normal(ls[1]) # << >> =>
    Normal(Join(ls)) # << >> /\ Normal(Join(ls))[1] = Normal(ls[1])[1]

\* The template as it was read, and its kind.
Read ==
  /\ input = Join(lines) /\ lines # << >> /\ kind = Kind(lines)
  /\ Normal(input) = Normal(Rest)

Told ==
  /\ AllSlashed(left)
  /\ Opening(lines)
  /\ kind = "unread" => Ahead
  /\ kind = "skipped" => Normal(Rest) = << >> /\ state = "idle"
  /\ state # "idle" => Read

LEMMA ToldBegins ==
  ASSUME Init
  PROVE  Told
PROOF
  <1>1. /\ doc \in Docs /\ left = doc /\ lines = << >> /\ inSQL = FALSE /\ kind = "unread"
        /\ state = "idle"
    BY DEF Init, TokenizerInit
  <1>2. doc \in Seq(Seq(Symbols)) /\ DOMAIN doc = 1..Len(doc)
    BY <1>1, DocsAssumption, LenProperties
  <1>3. AllSlashed(doc)
    BY <1>1, <1>2, DocsAssumption DEF AllSlashed, Slashed
  <1> QED BY <1>1, <1>3 DEF Told, Opening, Ahead, Rest

\* A line more to the query: it is what was ahead.
LEMMA OneLineMore ==
  ASSUME NEW ls \in Seq(Seq(Symbols)), NEW line \in Seq(Symbols), Opening(ls)
  PROVE  Opening(Append(ls, line))
PROOF
  <1>1. PICK more \in Seq(Seq(Symbols)) : more = Append(ls, line)
    BY AppendProperties
  <1>2. PICK j \in Seq(Symbols) : j = Normal(Join(ls))
    BY JoinTyped, NormalTyped
  <1>3. PICK k \in Seq(Symbols) : k = Normal(line)
    BY NormalTyped
  <1>4. Normal(Join(more)) = Spaced(j, k)
    BY <1>1, <1>2, <1>3, NormalOfJoin
  <1>5. /\ Len(ls) \in Nat /\ more[Len(ls) + 1] = line
        /\ \A i \in 1..Len(ls) : more[i] = ls[i]
    BY <1>1, AppendProperties, LenProperties
  <1>6. CASE ls = << >>
    <2>1. more[1] = line
      BY <1>5, <1>6, EmptySeq
    <2>2. j = << >>
      BY <1>2, <1>6, JoinOfNone, NormalOfNone
    <2> QED BY <1>1, <1>3, <1>4, <2>1, <2>2 DEF Opening, Spaced
  <1>7. CASE ls # << >>
    <2>1. Len(ls) # 0
      BY <1>7, EmptySeq
    <2>2. more[1] = ls[1]
      BY <1>5, <2>1
    <2>3. ASSUME Normal(ls[1]) # << >>
          PROVE  Spaced(j, k) # << >> /\ Spaced(j, k)[1] = Normal(ls[1])[1]
      <3>1. j # << >> /\ j[1] = Normal(ls[1])[1]
        BY <1>2, <1>7, <2>3 DEF Opening
      <3> QED BY <3>1, SpacedLeads
    <2> QED BY <1>1, <1>4, <2>2, <2>3 DEF Opening
  <1> QED BY <1>6, <1>7

LEMMA ToldIsKept ==
  ASSUME Inv, Told, [Next]_vars
  PROVE  Told'
PROOF
  <1>1. /\ doc \in Seq(Seq(Symbols)) /\ left \in Seq(Seq(Symbols)) /\ lines \in Seq(Seq(Symbols))
        /\ inSQL \in BOOLEAN /\ (kind = "unread" => state = "idle")
    BY DEF Inv, DocTyped
  <1>2. /\ AllSlashed(left) /\ Opening(lines) /\ (kind = "unread" => Ahead)
        /\ (kind = "skipped" => Normal(Rest) = << >> /\ state = "idle")
        /\ (state # "idle" => Read)
    BY DEF Told
  <1>3. ASSUME ReadsLine
        PROVE  /\ kind = "unread" /\ state = "idle" /\ left' = Tail(left)
               /\ left # << >> /\ AllSlashed(Tail(left)) /\ Ahead
    <2>1. kind = "unread" /\ left # << >> /\ left' = Tail(left)
      BY <1>3 DEF ReadsLine
    <2>2. \A i \in 1..Len(Tail(left)) : Slashed(Tail(left)[i])
      BY <1>1, <1>2, <2>1, BareBegins DEF AllSlashed
    <2> QED BY <1>1, <1>2, <2>1, <2>2 DEF AllSlashed
  <1>4. ASSUME ReadsLine
        PROVE  \E x \in Seq(Symbols), y \in Seq(Symbols) :
                 /\ x = Text(Head(left)) /\ y = Bare(Tail(left))
                 /\ Normal(Bare(left)) = Spaced(Normal(x), Normal(y))
                 /\ Tagless(x) => RestOf(Bare(left)) = RestOf(y)
                 /\ Contains(x, Tag) =>
                      /\ AfterTag(x) \in Seq(Symbols)
                      /\ Normal(RestOf(Bare(left))) = Spaced(Normal(AfterTag(x)), Normal(y))
    <2>1. left # << >> /\ \A i \in 1..Len(left) : Slashed(left[i])
      BY <1>2, <1>3, <1>4 DEF AllSlashed
    <2> QED BY <1>1, <2>1, ReadingALine
  <1>5. CASE Prose
    <2>1. /\ ReadsLine /\ ~inSQL /\ Tagless(Text(Head(left)))
          /\ UNCHANGED <<doc, lines, inSQL, kind, tokenizerVars>>
      BY <1>5 DEF Prose, Tagless, Tag
    <2>2. RestOf(Bare(left)) = RestOf(Bare(Tail(left)))
      BY <1>4, <2>1
    <2>3. lines = << >> /\ RestOf(Bare(left)) = Rest
      BY <1>3, <2>1 DEF Ahead
    <2>4. Ahead'
      BY <1>3, <2>1, <2>2, <2>3 DEF Ahead, Rest
    <2>5. AllSlashed(left')
      BY <1>3, <2>1
    <2> QED BY <1>2, <1>3, <2>1, <2>4, <2>5 DEF Told, tokenizerVars
  <1>6. CASE TagLine
    <2> DEFINE rest == TrimSpace(AfterTag(Text(Head(left))))
    <2>1. /\ ReadsLine /\ ~inSQL /\ Contains(Text(Head(left)), Tag) /\ inSQL'
          /\ lines' = IF rest = << >> THEN lines ELSE Append(lines, rest)
          /\ UNCHANGED <<doc, kind, tokenizerVars>>
      BY <1>6 DEF TagLine, Tag
    <2>2. PICK x \in Seq(Symbols), y \in Seq(Symbols) :
            /\ x = Text(Head(left)) /\ y = Bare(Tail(left)) /\ AfterTag(x) \in Seq(Symbols)
            /\ Normal(RestOf(Bare(left))) = Spaced(Normal(AfterTag(x)), Normal(y))
      BY <1>4, <2>1
    <2>3. lines = << >> /\ RestOf(Bare(left)) = Rest
      BY <1>3, <2>1 DEF Ahead
    <2>4. PICK r \in Seq(Symbols) : r = rest /\ Normal(r) = Normal(AfterTag(x))
      BY <2>2, NormalOfTrim
    <2> HIDE DEF rest
    <2>5. lines' \in Seq(Seq(Symbols)) /\ Opening(lines') /\ Join(lines') = r
      <3>1. CASE r = << >>
        BY <1>1, <1>2, <2>1, <2>3, <2>4, <3>1, JoinOfNone
      <3>2. CASE r # << >>
        <4>1. lines' = Append(lines, r)
          BY <2>1, <2>4, <3>2
        <4> QED BY <1>1, <1>2, <2>3, <4>1, OneLineMore, JoinAppend
      <3> QED BY <3>1, <3>2
    <2>6. Spaced(Normal(Join(lines')), Normal(Bare(left'))) = Normal(Rest)
      BY <1>3, <2>1, <2>2, <2>3, <2>4, <2>5
    <2>7. Rest' = Rest
      BY <2>1 DEF Rest
    <2>8. Ahead'
      BY <2>1, <2>6, <2>7 DEF Ahead
    <2>9. kind' = "unread" /\ state' = "idle" /\ AllSlashed(left')
      BY <1>3, <2>1 DEF tokenizerVars
    <2> QED BY <2>5, <2>8, <2>9 DEF Told
  <1>7. CASE SQLLine
    <2>1. /\ ReadsLine /\ inSQL /\ lines' = Append(lines, Text(Head(left)))
          /\ UNCHANGED <<doc, inSQL, kind, tokenizerVars>>
      BY <1>7 DEF SQLLine
    <2>2. PICK x \in Seq(Symbols), y \in Seq(Symbols) :
            /\ x = Text(Head(left)) /\ y = Bare(Tail(left))
            /\ Normal(Bare(left)) = Spaced(Normal(x), Normal(y))
      BY <1>4, <2>1
    <2>3. PICK j \in Seq(Symbols) : j = Normal(Join(lines))
      BY <1>1, JoinTyped, NormalTyped
    <2>4. Spaced(j, Spaced(Normal(x), Normal(y))) = Normal(Rest)
      BY <1>3, <2>1, <2>2, <2>3 DEF Ahead
    <2>5. Normal(x) \in Seq(Symbols) /\ Normal(y) \in Seq(Symbols)
      BY <2>2, NormalTyped
    <2>6. Spaced(Spaced(j, Normal(x)), Normal(y)) = Normal(Rest)
      BY <2>3, <2>4, <2>5, SpacedAssociative
    <2>7. Normal(Join(lines')) = Spaced(j, Normal(x)) /\ Opening(lines')
      BY <1>1, <1>2, <2>1, <2>2, <2>3, NormalOfJoin, OneLineMore
    <2>8. Rest' = Rest /\ Bare(left') = y
      BY <1>3, <2>1, <2>2 DEF Rest
    <2>9. Ahead'
      BY <2>1, <2>6, <2>7, <2>8 DEF Ahead
    <2>10. kind' = "unread" /\ state' = "idle" /\ AllSlashed(left')
      BY <1>3, <2>1 DEF tokenizerVars
    <2> QED BY <2>7, <2>9, <2>10 DEF Told
  <1>8. ASSUME ReadAll
        PROVE  /\ kind = "unread" /\ state = "idle" /\ left = << >>
               /\ Normal(Rest) = Normal(Join(lines))
    <2>1. kind = "unread" /\ left = << >> /\ state = "idle" /\ Ahead
      BY <1>1, <1>2, <1>8 DEF ReadAll
    <2>2. Bare(left) = << >> /\ Normal(Bare(left)) = << >>
      BY <2>1, BareOfNone, NormalOfNone
    <2>3. CASE inSQL
      BY <2>1, <2>2, <2>3 DEF Ahead, Spaced
    <2>4. CASE ~inSQL
      <3>1. RestOf(<< >>) = << >>
        <4>1. ~Contains(<< >>, Tag)
          BY DEF Contains
        <4> QED BY <4>1 DEF RestOf, Tag
      <3> QED BY <2>1, <2>2, <2>4, <3>1, JoinOfNone DEF Ahead
    <2> QED BY <2>1, <2>3, <2>4
  <1>9. CASE SkipMethod
    <2>1. /\ ReadAll /\ Join(lines) = << >> /\ kind' = "skipped"
          /\ UNCHANGED <<doc, left, lines, inSQL, tokenizerVars>>
      BY <1>9 DEF SkipMethod
    <2>2. Normal(Rest) = << >> /\ state = "idle"
      BY <1>8, <2>1, NormalOfNone
    <2>3. Rest' = Rest /\ state' = state /\ left' = left /\ lines' = lines
      BY <2>1 DEF Rest, tokenizerVars
    <2> QED BY <1>2, <2>1, <2>2, <2>3 DEF Told
  <1>10. CASE TakeMethod
    <2>1. /\ ReadAll /\ Join(lines) # << >> /\ kind' = Kind(lines) /\ input' = Join(lines)
          /\ UNCHANGED <<doc, left, lines, inSQL>>
      BY <1>10 DEF TakeMethod, Tokenize
    <2>2. lines # << >>
      BY <2>1, JoinOfNone
    <2>3. Rest' = Rest /\ left' = left /\ lines' = lines
      BY <2>1 DEF Rest
    <2>4. Read'
      BY <1>8, <2>1, <2>2, <2>3 DEF Read
    <2>5. kind' # "unread" /\ kind' # "skipped"
      BY <2>1, KindTyped DEF QueryKinds
    <2> QED BY <1>2, <2>3, <2>4, <2>5 DEF Told
  <1>11. CASE TokenizerNext /\ UNCHANGED docVars
    <2>1. state # "idle" /\ input' = input
      BY <1>11 DEF TokenizerNext, TailText, Action, Reject, Finish, Reading
    <2>2. Rest' = Rest /\ left' = left /\ lines' = lines /\ kind' = kind
      BY <1>11 DEF Rest, docVars
    <2>3. kind # "unread" /\ kind # "skipped"
      BY <1>1, <1>2, <2>1
    <2>4. Read'
      BY <1>2, <2>1, <2>2 DEF Read
    <2> QED BY <1>2, <2>2, <2>3, <2>4 DEF Told
  <1>12. CASE UNCHANGED vars
    <2>1. /\ Rest' = Rest /\ left' = left /\ lines' = lines /\ inSQL' = inSQL /\ kind' = kind
          /\ state' = state /\ input' = input
      BY <1>12 DEF vars, docVars, tokenizerVars, Rest
    <2> QED BY <1>2, <2>1 DEF Told, Ahead, Read
  <1> QED BY <1>5, <1>6, <1>7, <1>9, <1>10, <1>11, <1>12 DEF Next

LEMMA ToldIsWhatIsChecked ==
  ASSUME Inv, Told
  PROVE  TemplateIsTheRest /\ KindIsLeadingKeyword
PROOF
  <1>1. TemplateIsTheRest
    BY DEF Told, Read, TemplateIsTheRest
  <1>2. ASSUME state # "idle", Normal(lines[1]) # << >>
        PROVE  kind = IF Normal(Rest)[1] \in DOMAIN KindOf THEN KindOf[Normal(Rest)[1]] ELSE ""
    <2>1. lines # << >> /\ kind = Kind(lines) /\ Normal(Join(lines)) = Normal(Rest)
      BY <1>2 DEF Told, Read
    <2>2. Normal(Rest)[1] = Normal(lines[1])[1]
      BY <1>2, <2>1 DEF Told, Opening
    <2>3. PICK line \in Seq(Symbols) : line = lines[1]
      <3>1. lines \in Seq(Seq(Symbols))
        BY DEF Inv, DocTyped
      <3>2. Len(lines) \in Nat /\ Len(lines) # 0
        BY <2>1, <3>1, LenProperties, EmptySeq
      <3>3. 1 \in 1..Len(lines)
        BY <3>2
      <3> QED BY <3>1, <3>3, ElementOfSeq
    <2>4. TrimSpace(line) # << >> /\ TrimSpace(line)[1] = Normal(line)[1]
      BY <1>2, <2>3, NormalOfTrim
    <2> QED BY <2>1, <2>2, <2>3, <2>4 DEF Kind
  <1> QED BY <1>1, <1>2 DEF KindIsLeadingKeyword

\* Both invariants hold of every comment: no line is lost on the way to the template.
THEOREM Telling == Spec => [](Inv /\ Told)
PROOF
  <1>1. Init => Told
    BY ToldBegins
  <1>2. Inv /\ Told /\ [Next]_vars => Told'
    BY ToldIsKept
  <1> QED BY <1>1, <1>2, Invariance, PTL DEF Spec

\* Whatever the comment, the template is what stands after the first @sql, line
\* for line, and only a comment with nothing there is skipped (parser.go:189-217).
THEOREM RestIsTemplate == Spec => []TemplateIsTheRest
PROOF
  <1>1. Inv /\ Told => TemplateIsTheRest
    BY ToldIsWhatIsChecked
  <1> QED BY <1>1, Telling, PTL

\* Whatever the comment, the kind of the query is told by its first word, as
\* long as its first line has one (parser.go:217-228).
THEOREM LeadingKeyword == Spec => []KindIsLeadingKeyword
PROOF
  <1>1. Inv /\ Told => KindIsLeadingKeyword
    BY ToldIsWhatIsChecked
  <1> QED BY <1>1, Telling, PTL
=============================================================================
