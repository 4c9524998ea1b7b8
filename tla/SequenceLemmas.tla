---------------------------- MODULE SequenceLemmas ----------------------------
(***************************************************************************)
(* What the proofs need to know of sequences: induction over them, and     *)
(* what FlattenSeq and Keep compute.                                       *)
(*                                                                         *)
(* From the library's well-founded relation on numbers every set of        *)
(* numbers has a least element, which gives induction for a set of         *)
(* numbers, and for a set of sequences.                                    *)
(***************************************************************************)
EXTENDS Integers, Filter, TLAPS, SequenceTheorems, WellFoundedInduction

-----------------------------------------------------------------------------
(* Numbers. *)

\* A set of numbers that is not empty has a least element.
LEMMA LeastElement ==
  ASSUME NEW S \in SUBSET Nat, S # {}
  PROVE  \E i \in S : \A j \in S : i <= j
PROOF
  <1> DEFINE Less == {ss \in Nat \X Nat : ss[1] < ss[2]}
  <1>1. PICK i \in S : \A j \in S : <<j, i>> \notin Less
    <2>1. IsWellFoundedOn(Less, Nat)
      BY NatLessThanWellFounded DEF OpToRel
    <2> HIDE DEF Less
    <2> QED BY <2>1, WFMin
  <1>2. \A j \in S : ~(j < i)
    BY <1>1
  <1> QED BY <1>2

\* Bounded ones have a greatest.
LEMMA GreatestElement ==
  ASSUME NEW n \in Nat, NEW S, S \subseteq 0..n, S # {}
  PROVE  \E i \in S : \A j \in S : j <= i
PROOF
  <1> DEFINE T == {k \in Nat : n - k \in S}
  <1>1. \A j \in S : n - j \in Nat /\ n - (n - j) = j
    OBVIOUS
  <1>2. T \in SUBSET Nat /\ T # {} /\ \A j \in S : n - j \in T
    BY <1>1
  <1>3. PICK k \in T : \A j \in T : k <= j
    <2> HIDE DEF T
    <2> QED BY <1>2, LeastElement
  <1>4. k \in Nat /\ n - k \in S
    BY <1>3
  <1>5. \A j \in S : k <= n - j
    BY <1>2, <1>3
  <1>6. \A j \in S : j <= n - k
    BY <1>4, <1>5
  <1> QED BY <1>4, <1>6

\* Induction, for a set of numbers.
LEMMA Induction ==
  ASSUME NEW S, 0 \in S, \A n \in Nat : n \in S => n + 1 \in S
  PROVE  Nat \subseteq S
PROOF
  <1> SUFFICES ASSUME Nat \ S # {} PROVE FALSE
    OBVIOUS
  <1>1. PICK n \in Nat \ S : \A j \in Nat \ S : n <= j
    BY LeastElement
  <1>2. n - 1 \in Nat /\ n - 1 \notin Nat \ S
    BY <1>1
  <1> QED BY <1>1, <1>2

-----------------------------------------------------------------------------
(* Sequences. *)

\* Induction over sequences, for a set of them.
LEMMA SeqInduction ==
  ASSUME NEW T, NEW P, << >> \in P,
         \A s \in Seq(T), x \in T : s \in P => Append(s, x) \in P
  PROVE  Seq(T) \subseteq P
PROOF
  <1> DEFINE S == {n \in Nat : \A s \in Seq(T) : Len(s) = n => s \in P}
  <1>1. 0 \in S
    <2>1. \A s \in Seq(T) : Len(s) = 0 => s = << >>
      OBVIOUS
    <2> QED BY <2>1
  <1>2. ASSUME NEW n \in Nat, n \in S PROVE n + 1 \in S
    <2> SUFFICES ASSUME NEW s \in Seq(T), Len(s) = n + 1 PROVE s \in P
      OBVIOUS
    <2>1. PICK u \in Seq(T), x \in T : s = Append(u, x)
      BY SequenceEmptyOrAppend
    <2>2. Len(s) = Len(u) + 1 /\ Len(u) \in Nat
      BY <2>1, AppendProperties
    <2> QED BY <1>2, <2>1, <2>2
  <1>3. \A s \in Seq(T) : Len(s) \in S
    <2> HIDE DEF S
    <2>1. Nat \subseteq S
      BY <1>1, <1>2, Induction
    <2> QED BY <2>1
  <1> QED BY <1>3

\* A function on the first n numbers.
LEMMA SeqOfFunction ==
  ASSUME NEW T, NEW n \in Nat, NEW m \in [1..n -> T]
  PROVE  m \in Seq(T) /\ Len(m) = n /\ DOMAIN m = 1..n
PROOF
  <1>1. m \in Seq(T)
    BY SeqDef
  <1>2. DOMAIN m = 1..n /\ DOMAIN m = 1..Len(m) /\ Len(m) \in Nat
    BY <1>1, LenProperties
  <1> QED BY <1>1, <1>2

\* Appending to the second of two sequences.
LEMMA AppendConcat ==
  ASSUME NEW T, NEW s \in Seq(T), NEW t \in Seq(T), NEW x \in T
  PROVE  s \o Append(t, x) = Append(s \o t, x)
PROOF
  <1>1. Append(t, x) = t \o <<x>> /\ Append(s \o t, x) = (s \o t) \o <<x>>
    BY AppendIsConcat, ConcatProperties
  <1> QED BY <1>1, ConcatAssociative, SMTT(60)

\* The same whole, whichever two of three parts are joined first.
Associates(u, v, w) == (u \o v) \o w = u \o (v \o w)

\* It is so for all sequences.
LEMMA AllAssociate ==
  ASSUME NEW T, NEW u \in Seq(T), NEW v \in Seq(T), NEW w \in Seq(T)
  PROVE  Associates(u, v, w)
PROOF
  BY ConcatAssociative, SMTT(30) DEF Associates

\* All but the last element.
LEMMA FrontIsShorter ==
  ASSUME NEW T, NEW s \in Seq(T), s # << >>
  PROVE  /\ Front(s) \in Seq(T) /\ Len(Front(s)) = Len(s) - 1
         /\ \A i \in 1..(Len(s) - 1) : Front(s)[i] = s[i]
PROOF
  <1>1. Len(s) \in Nat /\ Len(s) >= 1 /\ \A i \in 1..Len(s) : s[i] \in T
    BY EmptySeq, LenProperties, ElementOfSeq
  <1>2. PICK n \in Nat : n = Len(s) - 1 /\ \A i \in 1..n : s[i] \in T
    BY <1>1
  <1>3. /\ SubSeq(s, 1, n) \in Seq(T)
        /\ Len(SubSeq(s, 1, n)) = IF 1 <= n THEN n - 1 + 1 ELSE 0
        /\ \A i \in 1..(n - 1 + 1) : SubSeq(s, 1, n)[i] = s[1 + i - 1]
    BY <1>2, SubSeqProperties
  <1> DEFINE f == SubSeq(s, 1, n)
  <1> HIDE DEF f
  <1>4. f \in Seq(T) /\ (\A i \in 1..n : f[i] = s[i])
    BY <1>2, <1>3 DEF f
  <1>5. Len(f) = n
    BY <1>2, <1>3 DEF f
  <1>6. Front(s) = f
    BY <1>2 DEF Front, f
  <1> QED BY <1>2, <1>4, <1>5, <1>6

\* A part of a sequence.
LEMMA PartOf ==
  ASSUME NEW T, NEW s \in Seq(T), NEW m \in 1..Len(s) + 1, NEW n \in 0..Len(s)
  PROVE  /\ SubSeq(s, m, n) \in Seq(T)
         /\ Len(SubSeq(s, m, n)) = IF m <= n THEN n - m + 1 ELSE 0
         /\ \A i \in 1..n - m + 1 : SubSeq(s, m, n)[i] = s[m + i - 1]
PROOF
  <1>1. m \in Int /\ n \in Int /\ \A i \in m..n : s[i] \in T
    BY ElementOfSeq
  <1> QED BY <1>1, SubSeqProperties

\* Cutting a sequence in two.
LEMMA CutInTwo ==
  ASSUME NEW T, NEW s \in Seq(T), NEW m \in 0..Len(s)
  PROVE  s = SubSeq(s, 1, m) \o SubSeq(s, m + 1, Len(s))
PROOF
  <1>1. SubSeq(s, 1, Len(s)) = s
    BY SubSeqFull
  <1>2. SubSeq(s, 1, Len(s)) = SubSeq(s, 1, m) \o SubSeq(s, m + 1, Len(s))
    <2>1. 1 \in 1..Len(s) + 1 /\ m \in 1 - 1..Len(s) /\ Len(s) \in m..Len(s)
      OBVIOUS
    <2> QED BY <2>1, ConcatAdjacentSubSeq
  <1> QED BY <1>1, <1>2

-----------------------------------------------------------------------------
(* FlattenSeq. *)

\* The function in the definition of FlattenSeq, for the first n parts.
Flattens(f, s, n) ==
  f = [i \in 1..n |-> IF i = 1 THEN s[i] ELSE f[i - 1] \o s[i]]

\* There is such a function.
LEMMA FlattensExists ==
  ASSUME NEW s, NEW n \in Nat
  PROVE  \E f : Flattens(f, s, n)
PROOF
  <1> DEFINE S == {m \in Nat : \E f : Flattens(f, s, m)}
  <1>1. 0 \in S
    <2>1. Flattens([i \in 1..0 |-> 0], s, 0)
      BY DEF Flattens
    <2> QED BY <2>1
  <1>2. ASSUME NEW m \in Nat, m \in S PROVE m + 1 \in S
    <2>1. PICK f : Flattens(f, s, m)
      BY <1>2
    <2> DEFINE g == [i \in 1..m + 1 |-> IF i <= m THEN f[i] ELSE IF i = 1 THEN s[i] ELSE f[i - 1] \o s[i]]
    <2>2. \A i \in 1..m + 1 : g[i] = IF i = 1 THEN s[i] ELSE g[i - 1] \o s[i]
      <3>1. \A i \in 1..m : f[i] = IF i = 1 THEN s[i] ELSE f[i - 1] \o s[i]
        BY <2>1 DEF Flattens
      <3>2. \A i \in 1..m : g[i] = f[i]
        OBVIOUS
      <3> TAKE i \in 1..m + 1
      <3>3. CASE i <= m
        <4>1. i \in 1..m /\ (i # 1 => i - 1 \in 1..m)
          BY <3>3
        <4> QED BY <3>1, <3>2, <4>1
      <3>4. CASE i = m + 1
        <4>1. ~(i <= m) /\ (i # 1 => i - 1 \in 1..m)
          BY <3>4
        <4>2. i # 1 => g[i - 1] = f[i - 1]
          BY <3>2, <4>1
        <4> QED BY <4>1, <4>2
      <3> QED BY <3>3, <3>4
    <2>3. Flattens(g, s, m + 1)
      BY <2>2 DEF Flattens
    <2> QED BY <2>3
  <1> HIDE DEF S
  <1>3. n \in S
    BY <1>1, <1>2, Induction
  <1> QED BY <1>3 DEF S

\* It is the one FlattenSeq uses.
LEMMA FlattensIsFlattenSeq ==
  ASSUME NEW T, NEW s \in Seq(T), s # << >>
  PROVE  \E f : Flattens(f, s, Len(s)) /\ FlattenSeq(s) = f[Len(s)]
PROOF
  <1>1. Len(s) \in Nat /\ Len(s) # 0
    OBVIOUS
  <1>2. \E f : f = [i \in 1..Len(s) |-> IF i = 1 THEN s[i] ELSE f[i - 1] \o s[i]]
    BY <1>1, FlattensExists DEF Flattens
  <1>3. FlattenSeq(s) =
          (CHOOSE f : f = [i \in 1..Len(s) |-> IF i = 1 THEN s[i] ELSE f[i - 1] \o s[i]])[Len(s)]
    BY <1>1 DEF FlattenSeq
  <1> QED BY <1>2, <1>3 DEF Flattens

\* Its values.
LEMMA FlattensAt ==
  ASSUME NEW f, NEW s, NEW n \in Nat, Flattens(f, s, n), NEW i \in 1..n
  PROVE  f[i] = IF i = 1 THEN s[i] ELSE f[i - 1] \o s[i]
PROOF
  BY DEF Flattens

\* FlattenSeq of sequences over T is one.
LEMMA FlattenTyped ==
  ASSUME NEW T, NEW s \in Seq(Seq(T))
  PROVE  FlattenSeq(s) \in Seq(T)
PROOF
  <1>1. CASE s = << >>
    BY <1>1 DEF FlattenSeq
  <1>2. CASE s # << >>
    <2>1. PICK f : Flattens(f, s, Len(s)) /\ FlattenSeq(s) = f[Len(s)]
      BY <1>2, FlattensIsFlattenSeq
    <2> DEFINE P == {k \in Nat : k \in 1..Len(s) => f[k] \in Seq(T)}
    <2>2. ASSUME NEW k \in Nat, k \in P PROVE k + 1 \in P
      <3> SUFFICES ASSUME k + 1 \in 1..Len(s) PROVE f[k + 1] \in Seq(T)
        OBVIOUS
      <3>1. s[k + 1] \in Seq(T)
        OBVIOUS
      <3>2. f[k + 1] = IF k + 1 = 1 THEN s[k + 1] ELSE f[k + 1 - 1] \o s[k + 1]
        BY <2>1, FlattensAt
      <3>3. k # 0 => f[k] \in Seq(T)
        BY <2>2
      <3>4. CASE k = 0
        BY <3>1, <3>2, <3>4
      <3>5. CASE k # 0
        BY <3>1, <3>2, <3>3, <3>5
      <3> QED BY <3>4, <3>5
    <2>3. 0 \in P
      OBVIOUS
    <2>4. Len(s) \in Nat /\ Len(s) # 0
      BY <1>2
    <2>5. Len(s) \in P
      <3> HIDE DEF P
      <3> QED BY <2>2, <2>3, <2>4, Induction
    <2> QED BY <2>1, <2>4, <2>5
  <1> QED BY <1>1, <1>2

\* One part more.
LEMMA FlattenAppend ==
  ASSUME NEW T, NEW s \in Seq(Seq(T)), NEW x \in Seq(T)
  PROVE  FlattenSeq(Append(s, x)) = FlattenSeq(s) \o x
PROOF
  <1> DEFINE t == Append(s, x)
             n == Len(s)
  <1>1. /\ t \in Seq(Seq(T)) /\ t # << >> /\ Len(t) = n + 1 /\ n \in Nat
        /\ t[n + 1] = x /\ \A i \in 1..n : t[i] = s[i]
    BY AppendProperties
  <1>2. PICK g : Flattens(g, t, n + 1) /\ FlattenSeq(t) = g[n + 1]
    BY <1>1, FlattensIsFlattenSeq
  <1> HIDE DEF t
  <1>3. g[n + 1] = IF n + 1 = 1 THEN t[n + 1] ELSE g[n + 1 - 1] \o t[n + 1]
    BY <1>1, <1>2, FlattensAt, SMTT(30)
  <1>4. CASE s = << >>
    <2>1. FlattenSeq(s) = << >> /\ n = 0
      BY <1>4 DEF FlattenSeq
    <2>2. << >> \o x = x
      OBVIOUS
    <2> QED BY <1>1, <1>2, <1>3, <2>1, <2>2 DEF t
  <1>5. CASE s # << >>
    <2>1. PICK f : Flattens(f, s, n) /\ FlattenSeq(s) = f[n]
      BY <1>5, FlattensIsFlattenSeq
    <2> DEFINE P == {k \in Nat : k \in 1..n => f[k] = g[k]}
    <2>2. ASSUME NEW k \in Nat, k \in P PROVE k + 1 \in P
      <3> SUFFICES ASSUME k + 1 \in 1..n PROVE f[k + 1] = g[k + 1]
        OBVIOUS
      <3>1. f[k + 1] = IF k + 1 = 1 THEN s[k + 1] ELSE f[k + 1 - 1] \o s[k + 1]
        BY <1>1, <2>1, FlattensAt
      <3>2. g[k + 1] = IF k + 1 = 1 THEN t[k + 1] ELSE g[k + 1 - 1] \o t[k + 1]
        <4>1. n + 1 \in Nat /\ k + 1 \in 1..n + 1
          BY <1>1
        <4> QED BY <1>2, <4>1, FlattensAt
      <3>3. t[k + 1] = s[k + 1] /\ (k + 1 # 1 => f[k + 1 - 1] = g[k + 1 - 1])
        BY <1>1, <2>2, SMTT(30)
      <3> QED BY <3>1, <3>2, <3>3
    <2>3. 0 \in P
      OBVIOUS
    <2>4. n # 0
      BY <1>5
    <2>5. n \in P
      <3> HIDE DEF P
      <3> QED BY <1>1, <2>2, <2>3, Induction
    <2>6. f[n] = g[n]
      BY <1>1, <2>4, <2>5
    <2>7. n + 1 # 1 /\ n + 1 - 1 = n
      BY <1>1, <2>4
    <2>8. g[n + 1] = g[n] \o x
      BY <1>1, <1>3, <2>7
    <2> QED BY <1>2, <2>1, <2>6, <2>8 DEF t
  <1> QED BY <1>4, <1>5

\* One part is itself.
LEMMA FlattenOne ==
  ASSUME NEW T, NEW x \in Seq(T)
  PROVE  FlattenSeq(<<x>>) = x
PROOF
  <1>1. << >> \in Seq(Seq(T)) /\ Append(<< >>, x) = <<x>> /\ FlattenSeq(<< >>) = << >>
    BY EmptySeq DEF FlattenSeq
  <1>2. FlattenSeq(Append(<< >>, x)) = FlattenSeq(<< >>) \o x
    BY <1>1, FlattenAppend
  <1> QED BY <1>1, <1>2, ConcatEmptySeq

\* The first part comes first.
LEMMA FlattenCons ==
  ASSUME NEW T, NEW s \in Seq(Seq(T)), NEW x \in Seq(T)
  PROVE  FlattenSeq(<<x>> \o s) = x \o FlattenSeq(s)
PROOF
  <1> DEFINE P == {u \in Seq(Seq(T)) : FlattenSeq(<<x>> \o u) = x \o FlattenSeq(u)}
  <1>0. <<x>> \in Seq(Seq(T))
    OBVIOUS
  <1>1. << >> \in P
    <2>1. FlattenSeq(<< >>) = << >> /\ << >> \in Seq(Seq(T))
      BY EmptySeq DEF FlattenSeq
    <2>2. <<x>> \o << >> = <<x>> /\ x \o << >> = x
      BY <1>0, ConcatEmptySeq
    <2> QED BY <2>1, <2>2, FlattenOne
  <1>2. ASSUME NEW u \in Seq(Seq(T)), NEW y \in Seq(T), u \in P
        PROVE  Append(u, y) \in P
    <2>1. <<x>> \o Append(u, y) = Append(<<x>> \o u, y)
      BY <1>0, AppendConcat
    <2>2. <<x>> \o u \in Seq(Seq(T)) /\ Append(u, y) \in Seq(Seq(T))
      BY <1>0, ConcatProperties, AppendProperties
    <2>3. FlattenSeq(Append(<<x>> \o u, y)) = FlattenSeq(<<x>> \o u) \o y
      BY <2>2, FlattenAppend
    <2>4. FlattenSeq(<<x>> \o u) = x \o FlattenSeq(u)
      BY <1>2
    <2>5. FlattenSeq(Append(u, y)) = FlattenSeq(u) \o y /\ FlattenSeq(u) \in Seq(T)
      BY FlattenAppend, FlattenTyped
    <2> DEFINE f == FlattenSeq(u)
    <2> HIDE DEF f
    <2>6. (x \o f) \o y = x \o (f \o y)
      BY <2>5, ConcatAssociative, SMTT(30) DEF f
    <2>7. FlattenSeq(<<x>> \o Append(u, y)) = x \o FlattenSeq(Append(u, y))
      BY <2>1, <2>3, <2>4, <2>5, <2>6 DEF f
    <2> QED BY <2>2, <2>7
  <1> HIDE DEF P
  <1>3. Seq(Seq(T)) \subseteq P
    BY <1>1, <1>2, SeqInduction
  <1> QED BY <1>3 DEF P

\* Parts that are not empty add up to at least their number.
LEMMA FlattenLonger ==
  ASSUME NEW T, NEW s \in Seq(Seq(T)), \A i \in 1..Len(s) : s[i] # << >>
  PROVE  Len(FlattenSeq(s)) >= Len(s)
PROOF
  <1> DEFINE P == {u \in Seq(Seq(T)) :
                     (\A i \in 1..Len(u) : u[i] # << >>) => Len(FlattenSeq(u)) >= Len(u)}
  <1>1. << >> \in P
    BY EmptySeq DEF FlattenSeq
  <1>2. ASSUME NEW u \in Seq(Seq(T)), NEW y \in Seq(T), u \in P
        PROVE  Append(u, y) \in P
    <2>1. /\ Append(u, y) \in Seq(Seq(T)) /\ Len(Append(u, y)) = Len(u) + 1 /\ Len(u) \in Nat
          /\ Append(u, y)[Len(u) + 1] = y /\ \A i \in 1..Len(u) : Append(u, y)[i] = u[i]
      BY AppendProperties, LenProperties
    <2> SUFFICES ASSUME \A i \in 1..Len(Append(u, y)) : Append(u, y)[i] # << >>
                 PROVE  Len(FlattenSeq(Append(u, y))) >= Len(Append(u, y))
      BY <2>1
    <2>2. y # << >> /\ \A i \in 1..Len(u) : u[i] # << >>
      BY <2>1
    <2>3. Len(FlattenSeq(u)) >= Len(u)
      BY <1>2, <2>2
    <2>4. FlattenSeq(Append(u, y)) = FlattenSeq(u) \o y /\ FlattenSeq(u) \in Seq(T)
      BY FlattenAppend, FlattenTyped
    <2>5. Len(FlattenSeq(u) \o y) = Len(FlattenSeq(u)) + Len(y)
      BY <2>4, ConcatProperties
    <2>6. Len(y) \in Nat \ {0} /\ Len(FlattenSeq(u)) \in Nat
      BY <2>2, <2>4, EmptySeq, LenProperties
    <2> QED BY <2>1, <2>3, <2>4, <2>5, <2>6
  <1> HIDE DEF P
  <1>3. Seq(Seq(T)) \subseteq P
    BY <1>1, <1>2, SeqInduction
  <1> QED BY <1>3 DEF P

\* e is an element of s.
In(e, s) == \E k \in 1..Len(s) : s[k] = e

\* The elements of the parts are those of the whole.
LEMMA FlattenElements ==
  ASSUME NEW T, NEW s \in Seq(Seq(T)), NEW e
  PROVE  In(e, FlattenSeq(s)) <=> \E i \in 1..Len(s) : In(e, s[i])
PROOF
  <1> DEFINE P == {u \in Seq(Seq(T)) : In(e, FlattenSeq(u)) <=> \E i \in 1..Len(u) : In(e, u[i])}
  <1>0. ASSUME NEW u \in Seq(T), NEW v \in Seq(T)
        PROVE  In(e, u \o v) <=> In(e, u) \/ In(e, v)
    <2>0. PICK c \in Seq(T) : c = u \o v
      BY ConcatProperties
    <2>1. /\ c = u \o v /\ Len(c) = Len(u) + Len(v)
          /\ \A i \in 1..(Len(u) + Len(v)) : c[i] = IF i <= Len(u) THEN u[i] ELSE v[i - Len(u)]
      BY <2>0, ConcatProperties
    <2>2. Len(u) \in Nat /\ Len(v) \in Nat
      BY LenProperties
    <2>3. \A i \in 1..Len(u) : i \in 1..Len(c) /\ c[i] = u[i]
      BY <2>1, <2>2
    <2>4. \A i \in 1..Len(v) : Len(u) + i \in 1..Len(c) /\ c[Len(u) + i] = v[i]
      BY <2>1, <2>2
    <2>5. ASSUME NEW i \in 1..Len(c), c[i] = e PROVE In(e, u) \/ In(e, v)
      <3>1. i <= Len(u) => i \in 1..Len(u) /\ c[i] = u[i]
        BY <2>1, <2>2
      <3>2. ~(i <= Len(u)) => i - Len(u) \in 1..Len(v) /\ c[i] = v[i - Len(u)]
        BY <2>1, <2>2
      <3> QED BY <2>5, <3>1, <3>2 DEF In
    <2>6. In(e, u) \/ In(e, v) => In(e, c)
      BY <2>3, <2>4 DEF In
    <2>7. In(e, c) => In(e, u) \/ In(e, v)
      BY <2>5 DEF In
    <2> QED BY <2>1, <2>6, <2>7
  <1>1. << >> \in P
    BY EmptySeq DEF FlattenSeq, In
  <1>2. ASSUME NEW u \in Seq(Seq(T)), NEW y \in Seq(T), u \in P
        PROVE  Append(u, y) \in P
    <2>1. /\ Append(u, y) \in Seq(Seq(T)) /\ Len(Append(u, y)) = Len(u) + 1 /\ Len(u) \in Nat
          /\ Append(u, y)[Len(u) + 1] = y /\ \A i \in 1..Len(u) : Append(u, y)[i] = u[i]
      BY AppendProperties, LenProperties
    <2>2. FlattenSeq(Append(u, y)) = FlattenSeq(u) \o y /\ FlattenSeq(u) \in Seq(T)
      BY FlattenAppend, FlattenTyped
    <2>3. In(e, FlattenSeq(u)) <=> \E i \in 1..Len(u) : In(e, u[i])
      BY <1>2
    <2>4. In(e, FlattenSeq(u) \o y) <=> In(e, FlattenSeq(u)) \/ In(e, y)
      BY <1>0, <2>2
    <2>5. 1..(Len(u) + 1) = 1..Len(u) \cup {Len(u) + 1}
      BY <2>1
    <2>6. (\E i \in 1..Len(Append(u, y)) : In(e, Append(u, y)[i]))
            <=> (\E i \in 1..Len(u) : In(e, u[i])) \/ In(e, y)
      BY <2>1, <2>5
    <2> QED BY <2>1, <2>2, <2>3, <2>4, <2>6
  <1>3. Seq(Seq(T)) \subseteq P
    <2> HIDE DEF P
    <2> QED BY <1>1, <1>2, SeqInduction
  <1> QED BY <1>3

\* Two sequences of parts of the same lengths, whose elements are related, give
\* wholes of the same length, whose elements are related.
LEMMA FlattenRelated ==
  ASSUME NEW T, NEW U, NEW s \in Seq(Seq(T)), NEW w \in Seq(Seq(U)), NEW R, Len(s) = Len(w),
         \A i \in 1..Len(s) : Len(s[i]) = Len(w[i]) /\ \A j \in 1..Len(s[i]) : <<s[i][j], w[i][j]>> \in R
  PROVE  /\ Len(FlattenSeq(s)) = Len(FlattenSeq(w))
         /\ \A k \in 1..Len(FlattenSeq(s)) : <<FlattenSeq(s)[k], FlattenSeq(w)[k]>> \in R
PROOF
  <1> DEFINE Rel(u, v) == Len(u) = Len(v) /\ \A k \in 1..Len(u) : <<u[k], v[k]>> \in R
             Like(u, v) == Len(u) = Len(v) /\ \A i \in 1..Len(u) : Rel(u[i], v[i])
             P == {u \in Seq(Seq(T)) :
                     \A v \in Seq(Seq(U)) : Like(u, v) => Rel(FlattenSeq(u), FlattenSeq(v))}
  <1>0. ASSUME NEW u \in Seq(T), NEW x \in Seq(T), NEW v \in Seq(U), NEW y \in Seq(U),
               Rel(u, v), Rel(x, y)
        PROVE  Rel(u \o x, v \o y)
    <2>1. /\ Len(u \o x) = Len(u) + Len(x) /\ Len(u) \in Nat /\ Len(x) \in Nat
          /\ \A i \in 1..(Len(u) + Len(x)) :
               (u \o x)[i] = IF i <= Len(u) THEN u[i] ELSE x[i - Len(u)]
      BY ConcatProperties, LenProperties
    <2>2. /\ Len(v \o y) = Len(v) + Len(y)
          /\ \A i \in 1..(Len(v) + Len(y)) :
               (v \o y)[i] = IF i <= Len(v) THEN v[i] ELSE y[i - Len(v)]
      BY ConcatProperties
    <2>3. Len(u \o x) = Len(v \o y)
      BY <1>0, <2>1, <2>2
    <2>4. ASSUME NEW i \in 1..(Len(u) + Len(x))
          PROVE  <<(u \o x)[i], (v \o y)[i]>> \in R
      <3>1. CASE i <= Len(u)
        <4>1. i \in 1..Len(u) /\ (u \o x)[i] = u[i] /\ (v \o y)[i] = v[i]
          BY <1>0, <2>1, <2>2, <3>1
        <4> QED BY <1>0, <4>1
      <3>2. CASE ~(i <= Len(u))
        <4>1. i - Len(u) \in 1..Len(x) /\ (u \o x)[i] = x[i - Len(u)] /\ (v \o y)[i] = y[i - Len(u)]
          BY <1>0, <2>1, <2>2, <3>2
        <4> QED BY <1>0, <4>1
      <3> QED BY <3>1, <3>2
    <2> QED BY <2>1, <2>3, <2>4
  <1>1. << >> \in P
    <2> SUFFICES ASSUME NEW v \in Seq(Seq(U)), Like(<< >>, v)
                 PROVE  Rel(FlattenSeq(<< >>), FlattenSeq(v))
      BY EmptySeq
    <2>1. v = << >>
      BY EmptySeq
    <2> QED BY <2>1 DEF FlattenSeq
  <1>2. ASSUME NEW u \in Seq(Seq(T)), NEW x \in Seq(T), u \in P
        PROVE  Append(u, x) \in P
    <2>0. PICK a \in Seq(Seq(T)) : a = Append(u, x)
      BY AppendProperties
    <2>1. /\ a = Append(u, x) /\ Len(a) = Len(u) + 1
          /\ a[Len(u) + 1] = x /\ \A i \in 1..Len(u) : a[i] = u[i]
      BY <2>0, AppendProperties
    <2>11. Len(u) \in Nat
      BY LenProperties
    <2> SUFFICES ASSUME NEW v \in Seq(Seq(U)), Like(a, v)
                 PROVE  Rel(FlattenSeq(a), FlattenSeq(v))
      BY <2>1
    <2>2. v # << >>
      BY <2>1, <2>11, EmptySeq
    <2>3. PICK z \in Seq(Seq(U)), y \in Seq(U) : v = Append(z, y)
      BY <2>2, SequenceEmptyOrAppend
    <2>4. /\ Len(v) = Len(z) + 1 /\ Len(z) \in Nat
          /\ v[Len(z) + 1] = y /\ \A i \in 1..Len(z) : v[i] = z[i]
      BY <2>3, AppendProperties, LenProperties
    <2>5. Len(u) = Len(z)
      BY <2>1, <2>11, <2>4
    <2> HIDE DEF Rel
    <2>6. Like(u, z) /\ Rel(x, y)
      <3>1. \A i \in 1..Len(u) : i \in 1..Len(a) /\ a[i] = u[i] /\ v[i] = z[i]
        BY <2>1, <2>11, <2>4, <2>5
      <3>2. Len(u) + 1 \in 1..Len(a) /\ a[Len(u) + 1] = x /\ v[Len(u) + 1] = y
        BY <2>1, <2>11, <2>4, <2>5
      <3> QED BY <2>5, <3>1, <3>2
    <2>7. Rel(FlattenSeq(u), FlattenSeq(z))
      BY <1>2, <2>6
    <2>8. /\ FlattenSeq(u) \in Seq(T) /\ FlattenSeq(z) \in Seq(U)
          /\ FlattenSeq(a) = FlattenSeq(u) \o x
          /\ FlattenSeq(v) = FlattenSeq(z) \o y
      BY <2>1, <2>3, FlattenAppend, FlattenTyped
    <2> QED BY <1>0, <2>6, <2>7, <2>8
  <1>3. Seq(Seq(T)) \subseteq P
    <2> HIDE DEF P
    <2> QED BY <1>1, <1>2, SeqInduction
  <1>4. Like(s, w)
    OBVIOUS
  <1> QED BY <1>3, <1>4

\* The sequences have the same length, and h takes one to the other.
Maps(h, s, w) == Len(s) = Len(w) /\ \A k \in 1..Len(s) : h[s[k]] = w[k]

\* If h takes the parts to the parts, it takes the whole to the whole.
LEMMA FlattenMapped ==
  ASSUME NEW T, NEW U, NEW s \in Seq(Seq(T)), NEW w \in Seq(Seq(U)), NEW h, Len(s) = Len(w),
         \A i \in 1..Len(s) : Maps(h, s[i], w[i])
  PROVE  Maps(h, FlattenSeq(s), FlattenSeq(w))
PROOF
  <1> DEFINE R == {r \in T \X U : h[r[1]] = r[2]}
             a == FlattenSeq(s)
             b == FlattenSeq(w)
  <1>1. ASSUME NEW i \in 1..Len(s)
        PROVE  Len(s[i]) = Len(w[i]) /\ \A j \in 1..Len(s[i]) : <<s[i][j], w[i][j]>> \in R
    <2>1. s[i] \in Seq(T) /\ w[i] \in Seq(U) /\ Len(s[i]) = Len(w[i])
      BY ElementOfSeq DEF Maps
    <2>2. \A j \in 1..Len(s[i]) : s[i][j] \in T /\ w[i][j] \in U /\ h[s[i][j]] = w[i][j]
      BY <2>1, ElementOfSeq DEF Maps
    <2> QED BY <2>1, <2>2
  <1> HIDE DEF R
  <1>2. Len(a) = Len(b) /\ \A k \in 1..Len(a) : <<a[k], b[k]>> \in R
    BY <1>1, FlattenRelated
  <1> HIDE DEF a, b
  <1>3. \A k \in 1..Len(a) : h[a[k]] = b[k]
    BY <1>2 DEF R
  <1> QED BY <1>2, <1>3 DEF a, b, Maps

-----------------------------------------------------------------------------
(* Keep. *)

\* One element, if it is kept.
Kept(x, S) == IF x \in S THEN <<x>> ELSE << >>

\* Of nothing nothing is kept.
LEMMA KeepEmpty ==
  ASSUME NEW S
  PROVE  Keep(<< >>, S) = << >>
PROOF
  BY DEF Keep, FlattenSeq

\* Keep flattens a sequence of sequences of at most one element.
LEMMA KeepMaps ==
  ASSUME NEW T, NEW s \in Seq(T), NEW S
  PROVE  [i \in DOMAIN s |-> Kept(s[i], S)] \in Seq(Seq(T \cap S))
PROOF
  <1>1. ASSUME NEW x \in T PROVE Kept(x, S) \in Seq(T \cap S)
    <2>1. CASE x \in S
      <3>1. x \in T \cap S
        BY <2>1
      <3>2. <<x>> \in Seq(T \cap S)
        BY <3>1
      <3> QED BY <2>1, <3>2 DEF Kept
    <2>2. CASE x \notin S
      BY <2>2, EmptySeq DEF Kept
    <2> QED BY <2>1, <2>2
  <1>2. Len(s) \in Nat /\ DOMAIN s = 1..Len(s) /\ \A i \in 1..Len(s) : s[i] \in T
    OBVIOUS
  <1> DEFINE m == [i \in 1..Len(s) |-> Kept(s[i], S)]
  <1>3. m \in [1..Len(s) -> Seq(T \cap S)]
    BY <1>1, <1>2
  <1>4. m \in Seq(Seq(T \cap S))
    BY <1>2, <1>3, SeqDef
  <1> QED BY <1>2, <1>4

\* Only elements of S are kept.
LEMMA KeepTyped ==
  ASSUME NEW T, NEW s \in Seq(T), NEW S
  PROVE  Keep(s, S) \in Seq(T \cap S)
PROOF
  <1>1. Keep(s, S) = FlattenSeq([i \in DOMAIN s |-> Kept(s[i], S)])
    BY DEF Keep, Kept
  <1> QED BY <1>1, KeepMaps, FlattenTyped

\* What is kept is of the same type.
LEMMA KeepSeq ==
  ASSUME NEW T, NEW s \in Seq(T), NEW S
  PROVE  Keep(s, S) \in Seq(T)
PROOF
  <1>1. Keep(s, S) \in Seq(T \cap S) /\ T \cap S \subseteq T
    BY KeepTyped
  <1> QED BY <1>1, SeqMonotonic

\* One element more.
LEMMA KeepAppend ==
  ASSUME NEW T, NEW s \in Seq(T), NEW x \in T, NEW S
  PROVE  Keep(Append(s, x), S) = IF x \in S THEN Append(Keep(s, S), x) ELSE Keep(s, S)
PROOF
  <1> DEFINE m(u) == [i \in DOMAIN u |-> Kept(u[i], S)]
  <1>1. \A u : Keep(u, S) = FlattenSeq(m(u))
    BY DEF Keep, Kept
  <1>2. Append(s, x) \in Seq(T) /\ m(s) \in Seq(Seq(T)) /\ Kept(x, S) \in Seq(T)
    <2>1. Seq(Seq(T \cap S)) \subseteq Seq(Seq(T))
      <3>1. Seq(T \cap S) \subseteq Seq(T)
        BY SeqMonotonic
      <3> QED BY <3>1, SeqMonotonic
    <2>2. m(s) \in Seq(Seq(T))
      BY <2>1, KeepMaps
    <2>3. Kept(x, S) \in Seq(T)
      <3>1. <<x>> \in Seq(T) /\ << >> \in Seq(T)
        OBVIOUS
      <3> QED BY <3>1 DEF Kept
    <2> QED BY <2>2, <2>3, AppendProperties
  <1>3. m(Append(s, x)) = Append(m(s), Kept(x, S))
    <2>1. /\ Len(Append(s, x)) = Len(s) + 1 /\ Len(m(s)) = Len(s) /\ Len(s) \in Nat
          /\ \A i \in 1..Len(s) : Append(s, x)[i] = s[i]
          /\ Append(s, x)[Len(s) + 1] = x
      BY <1>2
    <2>2. DOMAIN Append(s, x) = 1..(Len(s) + 1)
      BY <1>2, <2>1
    <2>3. Append(m(s), Kept(x, S)) = [i \in 1..(Len(s) + 1) |-> IF i = Len(s) + 1 THEN Kept(x, S) ELSE Kept(s[i], S)]
      BY <1>2, <2>1
    <2> QED BY <2>1, <2>2, <2>3
  <1> HIDE DEF m
  <1>4. FlattenSeq(Append(m(s), Kept(x, S))) = FlattenSeq(m(s)) \o Kept(x, S)
    BY <1>2, FlattenAppend
  <1>5. Keep(Append(s, x), S) = Keep(s, S) \o Kept(x, S) /\ Keep(s, S) \in Seq(T)
    <2>1. FlattenSeq(m(s)) \in Seq(T)
      BY <1>2, FlattenTyped
    <2> QED BY <1>1, <1>3, <1>4, <2>1
  <1>6. CASE x \in S
    BY <1>5, <1>6, AppendIsConcat DEF Kept
  <1>7. CASE x \notin S
    BY <1>5, <1>7, ConcatEmptySeq DEF Kept
  <1> QED BY <1>6, <1>7

\* What is kept of two sequences.
LEMMA KeepConcat ==
  ASSUME NEW T, NEW s \in Seq(T), NEW u \in Seq(T), NEW S
  PROVE  Keep(s \o u, S) = Keep(s, S) \o Keep(u, S)
PROOF
  <1> DEFINE P == {v \in Seq(T) : Keep(s \o v, S) = Keep(s, S) \o Keep(v, S)}
  <1>0. Keep(s, S) \in Seq(T)
    BY KeepSeq
  <1>1. << >> \in P
    BY <1>0, KeepEmpty, EmptySeq, ConcatEmptySeq
  <1>2. ASSUME NEW v \in Seq(T), NEW x \in T, v \in P
        PROVE  Append(v, x) \in P
    <2>1. s \o Append(v, x) = Append(s \o v, x) /\ s \o v \in Seq(T) /\ Append(v, x) \in Seq(T)
      BY AppendConcat, ConcatProperties, AppendProperties
    <2>2. Keep(Append(s \o v, x), S) = IF x \in S THEN Append(Keep(s \o v, S), x) ELSE Keep(s \o v, S)
      BY <2>1, KeepAppend
    <2>3. Keep(Append(v, x), S) = IF x \in S THEN Append(Keep(v, S), x) ELSE Keep(v, S)
      BY KeepAppend
    <2>4. Keep(s \o v, S) = Keep(s, S) \o Keep(v, S)
      BY <1>2
    <2>5. Keep(s, S) \o Append(Keep(v, S), x) = Append(Keep(s, S) \o Keep(v, S), x)
      BY <1>0, KeepSeq, AppendConcat
    <2>6. Keep(s \o Append(v, x), S) = Keep(s, S) \o Keep(Append(v, x), S)
      BY <2>1, <2>2, <2>3, <2>4, <2>5
    <2> QED BY <2>1, <2>6
  <1> HIDE DEF P
  <1>3. Seq(T) \subseteq P
    BY <1>1, <1>2, SeqInduction
  <1> QED BY <1>3 DEF P

\* What is kept depends on the elements of s alone.
LEMMA KeepSame ==
  ASSUME NEW s, NEW S, NEW R, \A i \in DOMAIN s : s[i] \in S <=> s[i] \in R
  PROVE  Keep(s, S) = Keep(s, R)
PROOF
  <1>1. [i \in DOMAIN s |-> IF s[i] \in S THEN <<s[i]>> ELSE << >>]
          = [i \in DOMAIN s |-> IF s[i] \in R THEN <<s[i]>> ELSE << >>]
    OBVIOUS
  <1> QED BY <1>1 DEF Keep

\* Where all are kept nothing is lost.
LEMMA KeepAll ==
  ASSUME NEW T, NEW s \in Seq(T), NEW S, \A i \in DOMAIN s : s[i] \in S
  PROVE  Keep(s, S) = s
PROOF
  <1> DEFINE P == {u \in Seq(T) : Keep(u, T) = u}
  <1>1. << >> \in P
    BY KeepEmpty
  <1>2. ASSUME NEW u \in Seq(T), NEW x \in T, u \in P PROVE Append(u, x) \in P
    BY <1>2, KeepAppend, AppendProperties
  <1>3. s \in P
    <2> HIDE DEF P
    <2> QED BY <1>1, <1>2, SeqInduction
  <1>4. \A i \in DOMAIN s : s[i] \in S <=> s[i] \in T
    OBVIOUS
  <1>5. Keep(s, S) = Keep(s, T)
    BY <1>4, KeepSame
  <1> QED BY <1>3, <1>5

\* What is kept.
LEMMA KeepElements ==
  ASSUME NEW T, NEW s \in Seq(T), NEW S
  PROVE  ToSet(Keep(s, S)) = ToSet(s) \cap S
PROOF
  <1> DEFINE P == {u \in Seq(T) : ToSet(Keep(u, S)) = ToSet(u) \cap S}
  <1>0. \A u \in Seq(T), x \in T : ToSet(Append(u, x)) = ToSet(u) \cup {x}
    <2> TAKE u \in Seq(T), x \in T
    <2>1. DOMAIN Append(u, x) = 1..(Len(u) + 1) /\ DOMAIN u = 1..Len(u) /\ Len(u) \in Nat
          /\ Append(u, x)[Len(u) + 1] = x /\ \A i \in 1..Len(u) : Append(u, x)[i] = u[i]
      BY AppendProperties
    <2> QED BY <2>1 DEF ToSet
  <1>1. << >> \in P
    BY KeepEmpty DEF ToSet
  <1>2. ASSUME NEW u \in Seq(T), NEW x \in T, u \in P PROVE Append(u, x) \in P
    <2>1. Keep(u, S) \in Seq(T)
      BY KeepSeq
    <2>2. Append(u, x) \in Seq(T) /\ ToSet(Append(u, x)) = ToSet(u) \cup {x}
      BY <1>0
    <2>3. CASE x \in S
      <3>1. Keep(Append(u, x), S) = Append(Keep(u, S), x)
        BY <2>3, KeepAppend
      <3>2. ToSet(Keep(Append(u, x), S)) = ToSet(Keep(u, S)) \cup {x}
        BY <1>0, <2>1, <3>1
      <3> QED BY <1>2, <2>2, <2>3, <3>2
    <2>4. CASE x \notin S
      <3>1. Keep(Append(u, x), S) = Keep(u, S)
        BY <2>4, KeepAppend
      <3> QED BY <1>2, <2>2, <2>4, <3>1
    <2> QED BY <2>3, <2>4
  <1>3. s \in P
    <2> HIDE DEF P
    <2> QED BY <1>1, <1>2, SeqInduction
  <1> QED BY <1>3

\* Nothing is kept twice.
LEMMA KeepInjective ==
  ASSUME NEW T, NEW s \in Seq(T), NEW S, IsInjective(s)
  PROVE  IsInjective(Keep(s, S)) /\ Len(Keep(s, S)) <= Len(s)
PROOF
  <1> DEFINE P == {z \in Seq(T) : /\ Len(Keep(z, S)) <= Len(z)
                                  /\ IsInjective(z) => IsInjective(Keep(z, S))}
  <1>1. << >> \in P
    BY KeepEmpty DEF IsInjective
  <1>2. ASSUME NEW u \in Seq(T), NEW x \in T, u \in P
        PROVE  Append(u, x) \in P
    <2>1. /\ Append(u, x) \in Seq(T) /\ Len(Append(u, x)) = Len(u) + 1
          /\ Append(u, x)[Len(u) + 1] = x /\ \A i \in 1..Len(u) : Append(u, x)[i] = u[i]
      BY AppendProperties
    <2> DEFINE k == Keep(u, S)
    <2>2. k \in Seq(T) /\ Len(k) <= Len(u)
      BY <1>2, KeepSeq
    <2>3. Keep(Append(u, x), S) = IF x \in S THEN Append(k, x) ELSE k
      BY KeepAppend
    <2>4. ToSet(k) = ToSet(u) \cap S
      BY KeepElements
    <2> HIDE DEF k
    <2>5. /\ Append(k, x) \in Seq(T) /\ Len(Append(k, x)) = Len(k) + 1
          /\ Append(k, x)[Len(k) + 1] = x /\ \A i \in 1..Len(k) : Append(k, x)[i] = k[i]
      BY <2>2, AppendProperties
    <2>6. Len(Keep(Append(u, x), S)) <= Len(Append(u, x))
      BY <2>1, <2>2, <2>3, <2>5
    <2>7. ASSUME IsInjective(Append(u, x)) PROVE IsInjective(Keep(Append(u, x), S))
      <3>1. IsInjective(u)
        BY <2>1, <2>7 DEF IsInjective
      <3>2. IsInjective(k)
        BY <1>2, <3>1 DEF k
      <3>3. \A i \in 1..Len(k) : k[i] # x
        <4>1. \A i \in 1..Len(u) : u[i] # x
          BY <2>1, <2>7 DEF IsInjective
        <4>2. x \notin ToSet(u)
          BY <4>1 DEF ToSet
        <4>3. \A i \in 1..Len(k) : k[i] \in ToSet(k)
          BY <2>2 DEF ToSet
        <4> QED BY <2>4, <4>2, <4>3
      <3>4. CASE x \in S
        <4>1. IsInjective(Append(k, x))
          BY <2>2, <2>5, <3>2, <3>3 DEF IsInjective
        <4> QED BY <2>3, <3>4, <4>1
      <3>5. CASE x \notin S
        BY <2>3, <3>2, <3>5
      <3> QED BY <3>4, <3>5
    <2> QED BY <2>1, <2>6, <2>7
  <1> HIDE DEF P
  <1>3. Seq(T) \subseteq P
    BY <1>1, <1>2, SeqInduction
  <1> QED BY <1>3 DEF P

\* The first n values of f, one after the other.
Joined(f, n) == FlattenSeq([i \in 1..n |-> f[i]])

\* Of no values nothing.
LEMMA JoinedNone ==
  ASSUME NEW f
  PROVE  Joined(f, 0) = << >>
PROOF
  <1>1. [i \in 1..0 |-> f[i]] = << >>
    OBVIOUS
  <1> QED BY <1>1 DEF Joined, FlattenSeq

\* The values are joined in a sequence.
LEMMA JoinedTyped ==
  ASSUME NEW T, NEW n \in Nat, NEW f, \A i \in 1..n : f[i] \in Seq(T)
  PROVE  Joined(f, n) \in Seq(T)
PROOF
  <1>1. [i \in 1..n |-> f[i]] \in [1..n -> Seq(T)]
    OBVIOUS
  <1>2. [i \in 1..n |-> f[i]] \in Seq(Seq(T))
    BY <1>1, SeqOfFunction
  <1> QED BY <1>2, FlattenTyped DEF Joined

\* One value more.
LEMMA JoinedNext ==
  ASSUME NEW T, NEW n \in Nat, NEW f, \A i \in 1..n + 1 : f[i] \in Seq(T)
  PROVE  Joined(f, n + 1) = Joined(f, n) \o f[n + 1]
PROOF
  <1> DEFINE a == [i \in 1..n |-> f[i]]
             b == [i \in 1..n + 1 |-> f[i]]
  <1>1. a \in [1..n -> Seq(T)] /\ b \in [1..n + 1 -> Seq(T)] /\ f[n + 1] \in Seq(T)
    OBVIOUS
  <1>2. a \in Seq(Seq(T)) /\ Len(a) = n
    BY <1>1, SeqOfFunction
  <1>3. b \in Seq(Seq(T)) /\ Len(b) = n + 1
    <2>1. n + 1 \in Nat
      OBVIOUS
    <2> HIDE DEF b
    <2> QED BY <1>1, <2>1, SeqOfFunction
  <1>4. \A i \in 1..n : a[i] = f[i]
    OBVIOUS
  <1>5. \A i \in 1..n + 1 : b[i] = f[i]
    OBVIOUS
  <1> HIDE DEF a, b
  <1>6. PICK z \in Seq(Seq(T)) : z = Append(a, f[n + 1])
    BY <1>1, <1>2, AppendProperties
  <1>7. Len(z) = n + 1 /\ z[n + 1] = f[n + 1] /\ \A i \in 1..n : z[i] = f[i]
    BY <1>1, <1>2, <1>4, <1>6, AppendProperties
  <1>8. b = z
    <2>1. \A i \in 1..n + 1 : i \in 1..n \/ i = n + 1
      OBVIOUS
    <2>2. \A i \in 1..n + 1 : b[i] = z[i]
      BY <1>5, <1>7, <2>1
    <2> QED BY <1>3, <1>7, <2>2, SeqEqual
  <1>9. FlattenSeq(Append(a, f[n + 1])) = FlattenSeq(a) \o f[n + 1]
    BY <1>1, <1>2, FlattenAppend
  <1> QED BY <1>6, <1>8, <1>9 DEF Joined, a, b

\* Values that are the same are joined to the same.
LEMMA JoinedSame ==
  ASSUME NEW n, NEW f, NEW g, \A i \in 1..n : f[i] = g[i]
  PROVE  Joined(f, n) = Joined(g, n)
PROOF
  <1>1. [i \in 1..n |-> f[i]] = [i \in 1..n |-> g[i]]
    OBVIOUS
  <1> QED BY <1>1 DEF Joined

-----------------------------------------------------------------------------
\* What h makes of every element of s, one after the other.
Each(s, h) == Joined([i \in 1..Len(s) |-> h[s[i]]], Len(s))

\* Of no elements nothing.
LEMMA EachNone ==
  ASSUME NEW h
  PROVE  Each(<< >>, h) = << >>
PROOF
  <1>1. Len(<< >>) = 0
    OBVIOUS
  <1> QED BY <1>1, JoinedNone DEF Each

\* What the elements stand for makes a sequence.
LEMMA EachTyped ==
  ASSUME NEW S, NEW T, NEW s \in Seq(S), NEW h \in [S -> Seq(T)]
  PROVE  Each(s, h) \in Seq(T)
PROOF
  <1>1. Len(s) \in Nat /\ \A i \in 1..Len(s) : s[i] \in S
    BY LenProperties, ElementOfSeq
  <1>2. \A i \in 1..Len(s) : [j \in 1..Len(s) |-> h[s[j]]][i] \in Seq(T)
    BY <1>1
  <1> QED BY <1>1, <1>2, JoinedTyped DEF Each

\* One element more.
LEMMA EachAppend ==
  ASSUME NEW S, NEW T, NEW s \in Seq(S), NEW x \in S, NEW h \in [S -> Seq(T)]
  PROVE  Each(Append(s, x), h) = Each(s, h) \o h[x]
PROOF
  <1>1. PICK n \in Nat : n = Len(s)
    BY LenProperties
  <1>2. PICK z \in Seq(S) : z = Append(s, x)
    BY AppendProperties
  <1>3. Len(z) = n + 1 /\ z[n + 1] = x /\ \A i \in 1..n : z[i] = s[i] /\ s[i] \in S
    BY <1>1, <1>2, AppendProperties, ElementOfSeq
  <1> DEFINE f == [i \in 1..n + 1 |-> h[z[i]]]
             g == [i \in 1..n |-> h[s[i]]]
  <1>4. \A i \in 1..n + 1 : f[i] \in Seq(T)
    BY <1>3, ElementOfSeq
  <1>5. f[n + 1] = h[x]
    BY <1>3
  <1>6. \A i \in 1..n : f[i] = g[i]
    BY <1>3
  <1>7. Each(z, h) = Joined(f, n + 1) /\ Each(s, h) = Joined(g, n)
    BY <1>1, <1>3 DEF Each
  <1> HIDE DEF f, g
  <1>8. Joined(f, n + 1) = Joined(f, n) \o f[n + 1]
    BY <1>4, JoinedNext
  <1>9. Joined(f, n) = Joined(g, n)
    BY <1>6, JoinedSame
  <1> QED BY <1>2, <1>5, <1>7, <1>8, <1>9

\* The same, with a name.
Splits(s, x, h) == Each(s \o x, h) = Each(s, h) \o Each(x, h)

\* Two sequences stand for what the one and then the other stands for.
LEMMA EachConcat ==
  ASSUME NEW S, NEW T, NEW s \in Seq(S), NEW u \in Seq(S), NEW h \in [S -> Seq(T)]
  PROVE  Splits(s, u, h)
PROOF
  <1> DEFINE P == {v \in Seq(S) : Each(s \o v, h) = Each(s, h) \o Each(v, h)}
  <1>0. PICK e \in Seq(T) : e = Each(s, h)
    BY EachTyped
  <1>1. << >> \in P
    BY <1>0, EachNone, EmptySeq, ConcatEmptySeq
  <1>2. ASSUME NEW v \in Seq(S), NEW x \in S, v \in P
        PROVE  Append(v, x) \in P
    <2>1. PICK sv \in Seq(S) : sv = s \o v
      BY ConcatProperties
    <2>2. s \o Append(v, x) = Append(sv, x) /\ Append(v, x) \in Seq(S)
      <3>1. s \o Append(v, x) = Append(s \o v, x)
        BY AppendConcat
      <3>2. Append(v, x) \in Seq(S)
        BY AppendProperties
      <3> QED BY <2>1, <3>1, <3>2
    <2>3. Each(Append(sv, x), h) = Each(sv, h) \o h[x]
      BY EachAppend
    <2>4. Each(Append(v, x), h) = Each(v, h) \o h[x]
      BY EachAppend
    <2>5. Each(sv, h) = e \o Each(v, h)
      BY <1>0, <1>2, <2>1
    <2>6. PICK ev \in Seq(T) : ev = Each(v, h)
      BY EachTyped
    <2>7. PICK y \in Seq(T) : y = h[x]
      OBVIOUS
    <2>8. Associates(e, ev, y)
      BY AllAssociate
    <2>9. Each(Append(sv, x), h) = (e \o ev) \o y
      BY <2>3, <2>5, <2>6, <2>7
    <2>10. Each(s, h) \o Each(Append(v, x), h) = e \o (ev \o y)
      BY <1>0, <2>4, <2>6, <2>7
    <2> QED BY <2>2, <2>8, <2>9, <2>10 DEF Associates
  <1> HIDE DEF P
  <1>3. Seq(S) \subseteq P
    BY <1>1, <1>2, SeqInduction
  <1> QED BY <1>3 DEF P, Splits

\* Where h makes nothing of any element.
LEMMA EachNothing ==
  ASSUME NEW S, NEW T, NEW s \in Seq(S), NEW h \in [S -> Seq(T)],
         \A i \in 1..Len(s) : h[s[i]] = << >>
  PROVE  Each(s, h) = << >>
PROOF
  <1> DEFINE P == {v \in Seq(S) : (\A i \in 1..Len(v) : h[v[i]] = << >>) => Each(v, h) = << >>}
  <1>1. << >> \in P
    BY EachNone
  <1>2. ASSUME NEW v \in Seq(S), NEW x \in S, v \in P
        PROVE  Append(v, x) \in P
    <2>1. PICK z \in Seq(S) : z = Append(v, x)
      BY AppendProperties
    <2>2. /\ Len(z) = Len(v) + 1 /\ Len(v) \in Nat /\ z[Len(v) + 1] = x
          /\ \A i \in 1..Len(v) : z[i] = v[i]
      BY <2>1, AppendProperties, LenProperties
    <2> SUFFICES ASSUME \A i \in 1..Len(z) : h[z[i]] = << >> PROVE Each(z, h) = << >>
      BY <2>1
    <2>3. h[x] = << >> /\ \A i \in 1..Len(v) : h[v[i]] = << >>
      <3>1. Len(v) + 1 \in 1..Len(z) /\ \A i \in 1..Len(v) : i \in 1..Len(z)
        BY <2>2
      <3> QED BY <2>2, <3>1
    <2>4. Each(v, h) = << >>
      BY <1>2, <2>3
    <2>5. Each(z, h) = Each(v, h) \o h[x]
      BY <2>1, EachAppend
    <2>6. << >> \o << >> = << >>
      OBVIOUS
    <2> QED BY <2>3, <2>4, <2>5, <2>6
  <1> HIDE DEF P
  <1>3. Seq(S) \subseteq P
    BY <1>1, <1>2, SeqInduction
  <1> QED BY <1>3 DEF P

\* Where h makes one element of each.
Singly(s, h, w) == Len(w) = Len(s) /\ \A i \in 1..Len(s) : h[s[i]] = <<w[i]>>

\* Elements that stand for one value each.
LEMMA EachSingle ==
  ASSUME NEW S, NEW T, NEW s \in Seq(S), NEW h \in [S -> Seq(T)], NEW w \in Seq(T), Singly(s, h, w)
  PROVE  Each(s, h) = w
PROOF
  <1> DEFINE P == {v \in Seq(S) : \A u \in Seq(T) :
                     Singly(v, h, u) => Each(v, h) = u}
  <1>1. << >> \in P
    <2> SUFFICES ASSUME NEW u \in Seq(T), Len(u) = Len(<< >>) PROVE Each(<< >>, h) = u
      BY EmptySeq DEF Singly
    <2>1. u = << >>
      BY EmptySeq
    <2> QED BY <2>1, EachNone
  <1>2. ASSUME NEW v \in Seq(S), NEW x \in S, v \in P
        PROVE  Append(v, x) \in P
    <2>1. PICK z \in Seq(S) : z = Append(v, x)
      BY AppendProperties
    <2>2. /\ Len(z) = Len(v) + 1 /\ Len(v) \in Nat /\ z[Len(v) + 1] = x
          /\ \A i \in 1..Len(v) : z[i] = v[i]
      BY <2>1, AppendProperties, LenProperties
    <2> SUFFICES ASSUME NEW u \in Seq(T), Len(u) = Len(z), \A i \in 1..Len(z) : h[z[i]] = <<u[i]>>
                 PROVE  Each(z, h) = u
      BY <2>1 DEF Singly
    <2>3. u # << >>
      BY <2>2, EmptySeq
    <2>4. PICK t \in Seq(T), y \in T : u = Append(t, y)
      BY <2>3, SequenceEmptyOrAppend
    <2>5. /\ Len(u) = Len(t) + 1 /\ Len(t) \in Nat /\ u[Len(t) + 1] = y
          /\ \A i \in 1..Len(t) : u[i] = t[i]
      BY <2>4, AppendProperties, LenProperties
    <2>6. Len(t) = Len(v)
      BY <2>2, <2>5
    <2>7. h[x] = <<y>> /\ \A i \in 1..Len(v) : h[v[i]] = <<t[i]>>
      <3>1. Len(v) + 1 \in 1..Len(z) /\ \A i \in 1..Len(v) : i \in 1..Len(z)
        BY <2>2
      <3> QED BY <2>2, <2>5, <2>6, <3>1
    <2>8. Each(v, h) = t
      BY <1>2, <2>6, <2>7 DEF Singly
    <2>9. Each(z, h) = Each(v, h) \o h[x]
      BY <2>1, EachAppend
    <2>10. t \o <<y>> = Append(t, y)
      BY AppendIsConcat
    <2> QED BY <2>4, <2>7, <2>8, <2>9, <2>10
  <1> HIDE DEF P
  <1>3. Seq(S) \subseteq P
    BY <1>1, <1>2, SeqInduction
  <1> QED BY <1>3 DEF P

-----------------------------------------------------------------------------
\* The elements of s after the first m, up to the n-th.
Slice(s, m, n) == SubSeq(s, m + 1, n)

\* The elements after the m-th, up to the n-th.
LEMMA PartTyped ==
  ASSUME NEW T, NEW s \in Seq(T), NEW m \in 0..Len(s), NEW n \in m..Len(s)
  PROVE  /\ Slice(s, m, n) \in Seq(T) /\ Len(Slice(s, m, n)) = n - m
         /\ \A i \in 1..(n - m) : Slice(s, m, n)[i] = s[m + i]
         /\ Slice(s, m, m) = << >>
PROOF
  <1>0. Len(s) \in Nat
    BY LenProperties
  <1>1. m + 1 \in 1..Len(s) + 1 /\ n \in 0..Len(s) /\ m \in 0..Len(s) /\ n \in Nat /\ m \in Nat /\ m <= n
    BY <1>0
  <1>2. /\ SubSeq(s, m + 1, n) \in Seq(T)
        /\ Len(SubSeq(s, m + 1, n)) = IF m + 1 <= n THEN n - (m + 1) + 1 ELSE 0
        /\ \A i \in 1..n - (m + 1) + 1 : SubSeq(s, m + 1, n)[i] = s[m + 1 + i - 1]
    BY <1>1, PartOf
  <1>3. SubSeq(s, m + 1, m) \in Seq(T) /\ Len(SubSeq(s, m + 1, m)) = IF m + 1 <= m THEN m - (m + 1) + 1 ELSE 0
    BY <1>1, PartOf
  <1>4. SubSeq(s, m + 1, m) = << >>
    BY <1>1, <1>3, EmptySeq
  <1>5. (IF m + 1 <= n THEN n - (m + 1) + 1 ELSE 0) = n - m
    BY <1>1
  <1>6. \A i \in 1..(n - m) : i \in 1..n - (m + 1) + 1 /\ m + 1 + i - 1 = m + i
    BY <1>1
  <1>7. \A i \in 1..(n - m) : SubSeq(s, m + 1, n)[i] = s[m + i]
    BY <1>2, <1>6
  <1> QED BY <1>2, <1>4, <1>5, <1>7 DEF Slice

\* Its elements.
IsPart(a, s, m, n) == Len(a) = n - m /\ \A i \in 1..(n - m) : a[i] = s[m + i]

\* The same, for a sequence that is given a name.
LEMMA PartIs ==
  ASSUME NEW T, NEW s \in Seq(T), NEW m \in 0..Len(s), NEW n \in m..Len(s)
  PROVE  \E a \in Seq(T) : a = Slice(s, m, n) /\ IsPart(a, s, m, n)
PROOF
  <1>1. Slice(s, m, n) \in Seq(T) /\ IsPart(Slice(s, m, n), s, m, n)
    BY PartTyped DEF IsPart
  <1> QED BY <1>1

\* One element more.
LEMMA PartNext ==
  ASSUME NEW T, NEW s \in Seq(T), NEW m \in 0..Len(s), NEW n \in m..Len(s), n < Len(s)
  PROVE  Slice(s, m, n + 1) = Append(Slice(s, m, n), s[n + 1])
PROOF
  <1>0. Len(s) \in Nat /\ m \in Nat /\ n \in Nat /\ n + 1 \in m..Len(s) /\ n + 1 \in 1..Len(s)
    BY LenProperties
  <1>1. PICK a \in Seq(T) : a = Slice(s, m, n) /\ IsPart(a, s, m, n)
    BY PartIs
  <1>2. PICK b \in Seq(T) : b = Slice(s, m, n + 1) /\ IsPart(b, s, m, n + 1)
    BY <1>0, PartIs
  <1>3. PICK x \in T : x = s[n + 1]
    BY <1>0, ElementOfSeq
  <1>4. PICK c \in Seq(T) : c = Append(a, x)
    BY AppendProperties
  <1>5. Len(c) = (n - m) + 1 /\ c[(n - m) + 1] = x /\ \A i \in 1..(n - m) : c[i] = a[i]
    <2>1. Len(a) = n - m
      BY <1>1 DEF IsPart
    <2>2. Len(c) = Len(a) + 1 /\ c[Len(a) + 1] = x /\ \A i \in 1..Len(a) : c[i] = a[i]
      BY <1>4, AppendProperties
    <2> QED BY <2>1, <2>2
  <1>6. (n - m) + 1 = (n + 1) - m /\ m + ((n - m) + 1) = n + 1
        /\ \A i \in 1..((n + 1) - m) : i \in 1..(n - m) \/ i = (n - m) + 1
    BY <1>0
  <1>7. \A i \in 1..((n + 1) - m) : b[i] = c[i]
    BY <1>1, <1>2, <1>3, <1>5, <1>6 DEF IsPart
  <1>8. b = c
    BY <1>2, <1>5, <1>6, <1>7, SeqEqual DEF IsPart
  <1> QED BY <1>1, <1>2, <1>3, <1>4, <1>8

\* The part of a longer sequence.
LEMMA PartSame ==
  ASSUME NEW T, NEW s \in Seq(T), NEW u \in Seq(T), Len(s) <= Len(u),
         \A i \in 1..Len(s) : u[i] = s[i], NEW m \in 0..Len(s), NEW n \in m..Len(s)
  PROVE  Slice(u, m, n) = Slice(s, m, n)
PROOF
  <1>0. Len(s) \in Nat /\ Len(u) \in Nat /\ m \in 0..Len(u) /\ n \in m..Len(u) /\ m \in Nat /\ n \in Nat
    BY LenProperties
  <1>1. PICK a \in Seq(T) : a = Slice(s, m, n) /\ IsPart(a, s, m, n)
    BY PartIs
  <1>2. PICK b \in Seq(T) : b = Slice(u, m, n) /\ IsPart(b, u, m, n)
    BY <1>0, PartIs
  <1>3. \A i \in 1..(n - m) : m + i \in 1..Len(s)
    BY <1>0
  <1>4. \A i \in 1..(n - m) : a[i] = b[i]
    BY <1>1, <1>2, <1>3 DEF IsPart
  <1>5. a = b
    BY <1>1, <1>2, <1>4, SeqEqual DEF IsPart
  <1> QED BY <1>1, <1>2, <1>5

\* The part that ends with what was put at the end.
LEMMA PartConcat ==
  ASSUME NEW T, NEW s \in Seq(T), NEW v \in Seq(T), NEW m \in 0..Len(s)
  PROVE  /\ Slice(s \o v, m, Len(s \o v)) = Slice(s, m, Len(s)) \o v
         /\ \A n \in m..Len(s) : Slice(s \o v, m, n) = Slice(s, m, n)
PROOF
  <1>1. PICK z \in Seq(T) : z = s \o v
    BY ConcatProperties
  <1>2. /\ Len(z) = Len(s) + Len(v) /\ Len(s) \in Nat /\ Len(v) \in Nat
        /\ \A i \in 1..(Len(s) + Len(v)) : z[i] = IF i <= Len(s) THEN s[i] ELSE v[i - Len(s)]
    BY <1>1, ConcatProperties, LenProperties
  <1>3. m \in 0..Len(z) /\ Len(z) \in m..Len(z) /\ Len(s) \in m..Len(s) /\ m \in Nat /\ Len(s) <= Len(z)
    BY <1>2
  <1>4. PICK a \in Seq(T) : a = Slice(s, m, Len(s)) /\ IsPart(a, s, m, Len(s))
    BY <1>3, PartIs
  <1>41. Len(a) = Len(s) - m /\ \A i \in 1..(Len(s) - m) : a[i] = s[m + i]
    BY <1>4 DEF IsPart
  <1>5. PICK b \in Seq(T) : b = Slice(z, m, Len(z)) /\ IsPart(b, z, m, Len(z))
    BY <1>3, PartIs
  <1>51. Len(b) = Len(z) - m /\ \A i \in 1..(Len(z) - m) : b[i] = z[m + i]
    BY <1>5 DEF IsPart
  <1>6. PICK c \in Seq(T) : c = a \o v
    BY ConcatProperties
  <1>7. /\ Len(c) = Len(a) + Len(v)
        /\ \A i \in 1..(Len(a) + Len(v)) : c[i] = IF i <= Len(a) THEN a[i] ELSE v[i - Len(a)]
    BY <1>6, ConcatProperties
  <1>8. Len(b) = Len(c) /\ Len(b) = (Len(s) + Len(v)) - m
    BY <1>2, <1>3, <1>41, <1>51, <1>7
  <1>9. ASSUME NEW i \in 1..Len(b) PROVE b[i] = c[i]
    <2>1. /\ b[i] = z[m + i] /\ m + i \in 1..(Len(s) + Len(v))
          /\ i \in 1..(Len(a) + Len(v))
      BY <1>2, <1>3, <1>41, <1>51, <1>8
    <2>2. CASE i <= Len(a)
      <3>1. m + i <= Len(s) /\ i \in 1..(Len(s) - m)
        BY <1>2, <1>3, <1>41, <2>2
      <3> QED BY <1>2, <1>41, <1>7, <2>1, <2>2, <3>1
    <2>3. CASE ~(i <= Len(a))
      <3>1. ~(m + i <= Len(s)) /\ (m + i) - Len(s) = i - Len(a)
        <4>1. i \in Int /\ m \in Int /\ Len(s) \in Int /\ Len(a) = Len(s) - m
          BY <1>2, <1>3, <1>41
        <4> QED BY <2>3, <4>1
      <3> QED BY <1>2, <1>7, <2>1, <2>3, <3>1
    <2> QED BY <2>2, <2>3
  <1>10. b = c
    BY <1>8, <1>9, SeqEqual
  <1>11. \A i \in 1..Len(s) : z[i] = s[i]
    BY <1>2
  <1>12. \A n \in m..Len(s) : Slice(z, m, n) = Slice(s, m, n)
    BY <1>3, <1>11, PartSame
  <1> QED BY <1>1, <1>4, <1>5, <1>6, <1>10, <1>12
=============================================================================
