---------------------------- MODULE GeneratorProofs ----------------------------
(***************************************************************************)
(* What holds of every generated file, for any interfaces, declarations    *)
(* and configuration: method by method the file is what the user declared. *)
(*                                                                         *)
(* The generator works in two passes over lists that run in parallel. The  *)
(* inductive invariant GInv says that they do: what the parser took stands *)
(* for the declarations that have a query, in their order, and the         *)
(* compiled methods, followed by those to compile, stand for the same      *)
(* declarations of all the interfaces of the file. What remains is said of *)
(* single declarations: what the printed types and results are, which are  *)
(* rejected, and which only go/format stops.                               *)
(*                                                                         *)
(* GInv also says which imports a request keeps. That they are those the   *)
(* file needs comes last: in a type of a plain declaration the parser, who *)
(* looks for a dot, finds the package the Go compiler looks for.           *)
(*                                                                         *)
(* NInv, the second invariant, follows the names of the methods: what Go   *)
(* asks of an interface, that they differ, holds of the printed struct.    *)
(***************************************************************************)
EXTENDS GeneratedFile, SequenceLemmas

\* The declarations that are taken, and what the parser makes of one.
Queries == {d \in Declarations : d.query # "none"}
Good == {d \in Queries : Accepted(d)}
MethodOf(d) == [name |-> d.name, kind |-> d.query, params |-> Params(d.params),
                return |-> buildReturn(d.results), sql |-> d.sql]

\* The methods stand for the declarations that have a query.
Stand(ms, ds) ==
  LET q == Keep(ds, Queries)
  IN  q \in Seq(Good) /\ ms = [i \in DOMAIN q |-> MethodOf(q[i])]

\* The methods of the declarations that have a query.
MethodsOf(ds) == LET q == Keep(ds, Queries) IN [i \in DOMAIN q |-> MethodOf(q[i])]

IsSeq(s) == s \in Seq(ToSet(s))

ImportSet == [path : Seq(Seq(STRING)), alias : STRING]

Reading ==
  /\ parser \in {"idle", "reading", "parsed", "rejected", "missing"}
  /\ declared \in Seq(Declarations) /\ read \in 0..MaxMethods
  /\ \A i \in DOMAIN methods : methods[i].kind \in QueryKinds /\ methods[i].return.kind \in ReturnKinds
  /\ parser \in {"reading", "parsed"} => Stand(methods, declared) /\ file.imports \in Seq(ImportSet)
  /\ parser = "rejected" => declared # << >> /\ ~Accepted(Last(declared))

\* A request of declarations that the Go compiler and the parser accept, with
\* the imports that their methods use.
IsRequest(r) ==
  /\ r.declared \in Seq(Declarations) /\ r.file.imports \in Seq(ImportSet)
  /\ r.imports = usedImports(r.file, MethodsOf(r.declared))
  /\ Keep(r.declared, Queries) \in Seq(Good)
  /\ \A i \in DOMAIN r.declared : Valid(r.file, r.declared[i])

Requested == IsSeq(requests) /\ \A i \in DOMAIN requests : IsRequest(requests[i])

\* The declarations with a query of a list of requests; AllQueried is that of
\* requests.
All(rs) == FlattenSeq([i \in DOMAIN rs |-> Queried(rs[i])])

\* The job stands for declaration i of these.
IsJob(job, i, rs) ==
  /\ job.request \in DOMAIN rs
  /\ All(rs)[i] \in ToSet(rs[job.request].declared)
  /\ job.method = MethodOf(All(rs)[i])

Jobs ==
  /\ IsSeq(todo) /\ IsSeq(compiled)
  /\ Len(compiled) + Len(todo) = Len(All(requests))
  /\ \A i \in DOMAIN todo : IsJob(todo[i], Len(compiled) + i, requests)
  /\ \A i \in DOMAIN compiled :
       LET c == compiled[i]
       IN  /\ IsJob(c, i, requests)
           /\ c.ctx = extractContext(c.method.params).ctx
           /\ c.bound = extractContext(c.method.params).params
           /\ c.returning = AppendsReturning(c.method)

Passes ==
  /\ state \in {"parse", "compile", "print", "written", "failed"}
  /\ state = "parse" => compiled = << >>
  /\ state \in {"print", "written"} => todo = << >>
  /\ state = "written" => out = Printed /\ Formats(Printed)
  /\ state = "failed" /\ parser = "idle" /\ todo = << >> => ~Formats(Printed)
  /\ parser \in {"rejected", "missing"} => state = "failed"

GInv == ValidSources /\ Reading /\ Requested /\ Jobs /\ Passes

\* Methods of one interface with one name.
Same(job1, job2) == job1.request = job2.request /\ job1.method.name = job2.method.name

\* The methods of an interface have names of their own, wherever they are.
NInv ==
  /\ \A i \in DOMAIN methods : \E k \in DOMAIN declared : declared[k].name = methods[i].name
  /\ \A i, j \in DOMAIN methods : methods[i].name = methods[j].name => i = j
  /\ \A i, j \in DOMAIN todo : Same(todo[i], todo[j]) => i = j
  /\ \A i, j \in DOMAIN compiled : Same(compiled[i], compiled[j]) => i = j
  /\ \A i \in DOMAIN compiled : \A j \in DOMAIN todo : ~Same(compiled[i], todo[j])

-----------------------------------------------------------------------------
(* Types. *)

Marks == {"*", "[]", "map[", "]", "."}

\* The words of types. (That a literal is a string the provers do not know.)
Word == STRING \cup Marks \cup {"error", "int", "context", "Context"}

\* A type is a sequence of words.
LEMMA GoTypeWords ==
  ASSUME NEW t, GoType(t)
  PROVE  t \in Seq(Word)
PROOF
  <1>1. t \in Seq(STRING) /\ STRING \subseteq Word
    BY DEF GoType, Word
  <1> QED BY <1>1, SeqMonotonic

\* Arrays become slices.
Spell(k) == [i \in DOMAIN k |-> IF k[i] \in Arrays THEN "[]" ELSE k[i]]

\* exprToString drops the opaque words.
LEMMA ExprIs ==
  ASSUME NEW t \in Seq(Word)
  PROVE  exprToString(t) = Spell(Keep(t, Word \ Opaque))
PROOF
  <1>1. \A i \in DOMAIN t : t[i] \in ToSet(t) \ Opaque <=> t[i] \in Word \ Opaque
    BY DEF ToSet
  <1>2. Keep(t, ToSet(t) \ Opaque) = Keep(t, Word \ Opaque)
    BY <1>1, KeepSame
  <1> QED BY <1>2 DEF exprToString, Spell

\* The words of a spelled type.
LEMMA SpellTyped ==
  ASSUME NEW k \in Seq(Word)
  PROVE  /\ Spell(k) \in Seq(Word) /\ Len(Spell(k)) = Len(k) /\ DOMAIN Spell(k) = 1..Len(k)
         /\ \A i \in 1..Len(k) : Spell(k)[i] = IF k[i] \in Arrays THEN "[]" ELSE k[i]
PROOF
  <1>1. Len(k) \in Nat /\ DOMAIN k = 1..Len(k) /\ \A i \in 1..Len(k) : k[i] \in Word
    BY LenProperties, ElementOfSeq
  <1>2. "[]" \in Word
    BY DEF Word, Marks
  <1> DEFINE m == [i \in 1..Len(k) |-> IF k[i] \in Arrays THEN "[]" ELSE k[i]]
  <1>3. m \in [1..Len(k) -> Word]
    BY <1>1, <1>2
  <1>4. m \in Seq(Word)
    BY <1>1, <1>3, SeqDef
  <1>5. Spell(k) = m
    BY <1>1 DEF Spell
  <1>6. DOMAIN m = 1..Len(k)
    OBVIOUS
  <1>7. Len(m) = Len(k)
    BY <1>1, <1>4, <1>6, LenProperties
  <1> QED BY <1>4, <1>5, <1>6, <1>7

\* What exprToString prints is a sequence of words.
LEMMA ExprTyped ==
  ASSUME NEW t \in Seq(Word)
  PROVE  exprToString(t) \in Seq(Word)
PROOF
  <1>1. Keep(t, Word \ Opaque) \in Seq(Word)
    BY KeepSeq
  <1> QED BY <1>1, ExprIs, SpellTyped

\* A type without opaque words is printed, complete.
LEMMA ExprClean ==
  ASSUME NEW t, GoType(t), ToSet(t) \cap Opaque = {}
  PROVE  exprToString(t) = Spell(t) /\ Complete(exprToString(t)) /\ exprToString(t) # << >>
PROOF
  <1>1. t \in Seq(Word) /\ t # << >>
    BY GoTypeWords DEF GoType
  <1>2. /\ Len(t) \in Nat /\ Len(t) # 0 /\ DOMAIN t = 1..Len(t)
        /\ \A i \in 1..Len(t) : t[i] \in Word /\ t[i] \notin Opaque
    <2>1. Len(t) \in Nat /\ Len(t) # 0 /\ DOMAIN t = 1..Len(t)
      BY <1>1, EmptySeq, LenProperties
    <2>2. \A i \in 1..Len(t) : t[i] \in ToSet(t)
      BY <2>1 DEF ToSet
    <2> QED BY <1>1, <2>1, <2>2, ElementOfSeq
  <1>3. Keep(t, Word \ Opaque) = t
    BY <1>1, <1>2, KeepAll
  <1>4. exprToString(t) = Spell(t)
    BY <1>1, <1>3, ExprIs
  <1>5. /\ Spell(t) \in Seq(Word) /\ Len(Spell(t)) = Len(t) /\ DOMAIN Spell(t) = 1..Len(t)
        /\ \A i \in 1..Len(t) : Spell(t)[i] = IF t[i] \in Arrays THEN "[]" ELSE t[i]
    BY <1>1, SpellTyped
  <1>6. ASSUME NEW i \in 1..Len(t), Spell(t)[i] \in Marks
        PROVE  i < Len(t) /\ Spell(t)[i + 1] # "]"
    <2>1. t[i] \in Marks \cup Arrays
      BY <1>5, <1>6
    <2>2. i < Len(t) /\ t[i + 1] # "]"
      BY <1>2, <2>1 DEF GoType, Marks
    <2>3. i + 1 \in 1..Len(t)
      BY <1>2, <2>2
    <2> QED BY <1>5, <2>2, <2>3
  <1>7. Spell(t) # << >>
    BY <1>2, <1>5
  <1> QED BY <1>4, <1>5, <1>6, <1>7 DEF Complete, Marks

\* One without arrays is printed as it is.
LEMMA ExprSame ==
  ASSUME NEW t, GoType(t), ToSet(t) \cap Opaque = {}, ToSet(t) \cap Arrays = {}
  PROVE  exprToString(t) = t
PROOF
  <1>1. t \in Seq(Word)
    BY GoTypeWords
  <1>2. exprToString(t) = Spell(t)
    BY ExprClean
  <1>3. /\ Spell(t) \in Seq(Word) /\ Len(Spell(t)) = Len(t)
        /\ \A i \in 1..Len(t) : Spell(t)[i] = IF t[i] \in Arrays THEN "[]" ELSE t[i]
    BY <1>1, SpellTyped
  <1>4. \A i \in 1..Len(t) : t[i] \notin Arrays
    <2>1. \A i \in 1..Len(t) : t[i] \in ToSet(t)
      BY <1>1, LenProperties DEF ToSet
    <2> QED BY <2>1
  <1>5. \A i \in 1..Len(t) : Spell(t)[i] = t[i]
    BY <1>3, <1>4
  <1>6. Spell(t) = t
    BY <1>1, <1>3, <1>5, SeqEqual
  <1> QED BY <1>2, <1>6

\* One with an opaque word is not complete: what stood before the word is left
\* without what it needs.
LEMMA ExprOpaque ==
  ASSUME NEW t, GoType(t), ToSet(t) \cap Opaque # {}
  PROVE  ~Complete(exprToString(t))
PROOF
  <1>1. t \in Seq(Word) /\ Len(t) \in Nat /\ DOMAIN t = 1..Len(t)
    BY GoTypeWords, LenProperties
  <1>2. PICK i \in 1..Len(t) : t[i] \in Opaque
    BY <1>1 DEF ToSet
  <1> DEFINE S == Word \ Opaque
             K == Keep(t, S)
  <1>3. t[i] \notin S /\ t[i] \in Word
    BY <1>1, <1>2, ElementOfSeq
  <1>4. K \in Seq(Word) /\ exprToString(t) = Spell(K)
    BY <1>1, KeepSeq, ExprIs
  <1>5. /\ Spell(K) \in Seq(Word) /\ Len(Spell(K)) = Len(K) /\ DOMAIN Spell(K) = 1..Len(K)
        /\ \A j \in 1..Len(K) : Spell(K)[j] = IF K[j] \in Arrays THEN "[]" ELSE K[j]
    BY <1>4, SpellTyped
  <1> HIDE DEF S
  <1>6. CASE i = 1
    <2>1. Len(t) = 1
      BY <1>1, <1>2, <1>6 DEF GoType
    <2>2. t = Append(<< >>, t[1])
      BY <1>1, <2>1
    <2>3. Keep(Append(<< >>, t[1]), S) = Keep(<< >>, S)
      <3>1. PICK w \in Word : w = t[1] /\ w \notin S
        BY <1>3, <1>6
      <3>2. PICK e \in Seq(Word) : e = << >>
        BY EmptySeq
      <3>3. Keep(Append(e, w), S) = IF w \in S THEN Append(Keep(e, S), w) ELSE Keep(e, S)
        BY KeepAppend
      <3> QED BY <3>1, <3>2, <3>3
    <2>4. K = << >>
      BY <2>2, <2>3, KeepEmpty
    <2>5. Spell(K) = << >>
      BY <1>5, <2>4
    <2> QED BY <1>4, <2>5 DEF Complete
  <1>7. CASE i # 1
    <2>1. /\ t[i - 1] \in (Marks \ {"."}) \cup Arrays
          /\ i < Len(t) => t[i + 1] = "]"
      BY <1>1, <1>2, <1>7 DEF GoType, Marks
    <2>2. /\ i \in Nat /\ i > 1 /\ i <= Len(t)
      BY <1>1, <1>2, <1>7
    <2>3. t[i - 1] \in S /\ t[i - 1] \in Word
      <3>1. t[i - 1] \in Word
        BY <1>1, <2>2, ElementOfSeq
      <3> QED BY <2>1, <3>1, WordsAssumption DEF Marks, S
    <2> DEFINE u == SubSeq(t, 1, i - 2)
               v == SubSeq(t, i + 1, Len(t))
               k == Keep(u, S)
               l == Keep(v, S)
    <2>4. /\ u \in Seq(Word) /\ v \in Seq(Word)
          /\ Len(v) = IF i + 1 <= Len(t) THEN Len(t) - (i + 1) + 1 ELSE 0
          /\ \A j \in 1..Len(t) - (i + 1) + 1 : v[j] = t[i + 1 + j - 1]
      <3>1. i + 1 \in 1..Len(t) + 1 /\ Len(t) \in 0..Len(t) /\ 1 \in 1..Len(t) + 1 /\ i - 2 \in 0..Len(t)
        BY <1>1, <2>2
      <3>2. /\ SubSeq(t, i + 1, Len(t)) \in Seq(Word)
            /\ Len(SubSeq(t, i + 1, Len(t))) = IF i + 1 <= Len(t) THEN Len(t) - (i + 1) + 1 ELSE 0
            /\ \A j \in 1..Len(t) - (i + 1) + 1 : SubSeq(t, i + 1, Len(t))[j] = t[i + 1 + j - 1]
        BY <1>1, <3>1, PartOf
      <3>3. SubSeq(t, 1, i - 2) \in Seq(Word)
        BY <1>1, <3>1, PartOf
      <3> QED BY <3>2, <3>3
    <2>5. t = Append(Append(u, t[i - 1]), t[i]) \o v
      <3>1. t = SubSeq(t, 1, i) \o v
        <4>1. i \in 0..Len(t)
          BY <1>1, <1>2
        <4> QED BY <1>1, <4>1, CutInTwo
      <3>2. SubSeq(t, 1, i) = SubSeq(t, 1, i - 1) \o <<t[i]>>
        BY <1>1, <2>2, SubSeqRecursiveSecond
      <3>3. SubSeq(t, 1, i - 1) = SubSeq(t, 1, (i - 1) - 1) \o <<t[i - 1]>>
        <4>1. 1 \in 1..Len(t) /\ i - 1 \in 1..Len(t)
          BY <1>1, <2>2
        <4> QED BY <1>1, <4>1, SubSeqRecursiveSecond
      <3>4. (i - 1) - 1 = i - 2
        BY <2>2
      <3>5. Append(u, t[i - 1]) = u \o <<t[i - 1]>> /\ Append(u, t[i - 1]) \in Seq(Word)
        BY <2>3, <2>4, AppendIsConcat, AppendProperties
      <3>6. Append(Append(u, t[i - 1]), t[i]) = Append(u, t[i - 1]) \o <<t[i]>>
        BY <1>3, <3>5, AppendIsConcat
      <3> QED BY <3>1, <3>2, <3>3, <3>4, <3>5, <3>6
    <2> HIDE DEF u, v
    <2>6. k \in Seq(Word) /\ l \in Seq(Word) /\ Append(k, t[i - 1]) \in Seq(Word)
      BY <2>3, <2>4, KeepSeq, AppendProperties
    <2>7. K = Append(k, t[i - 1]) \o l
      <3>1. Append(u, t[i - 1]) \in Seq(Word) /\ Append(Append(u, t[i - 1]), t[i]) \in Seq(Word)
        BY <1>3, <2>3, <2>4, AppendProperties
      <3>2. Keep(Append(u, t[i - 1]), S) = Append(k, t[i - 1])
        <4>1. PICK w \in Word : w = t[i - 1] /\ w \in S
          BY <2>3
        <4>2. u \in Seq(Word)
          BY <2>4
        <4>3. Keep(Append(u, w), S) = IF w \in S THEN Append(Keep(u, S), w) ELSE Keep(u, S)
          BY <4>2, KeepAppend
        <4> QED BY <2>4, <4>1, <4>3
      <3>3. Keep(Append(Append(u, t[i - 1]), t[i]), S) = Append(k, t[i - 1])
        <4>1. PICK b \in Seq(Word) : b = Append(u, t[i - 1])
          BY <3>1
        <4>2. PICK w \in Word : w = t[i] /\ w \notin S
          BY <1>3
        <4>3. Keep(Append(b, w), S) = IF w \in S THEN Append(Keep(b, S), w) ELSE Keep(b, S)
          BY KeepAppend
        <4> QED BY <3>2, <4>1, <4>2, <4>3
      <3>4. PICK a \in Seq(Word) : a = Append(Append(u, t[i - 1]), t[i])
        BY <3>1
      <3>5. Keep(a \o v, S) = Keep(a, S) \o l
        <4>1. PICK w \in Seq(Word) : w = v
          BY <2>4
        <4>2. Keep(a \o w, S) = Keep(a, S) \o Keep(w, S)
          BY KeepConcat
        <4> QED BY <4>1, <4>2
      <3>6. Keep(a, S) = Append(k, t[i - 1])
        BY <3>3, <3>4
      <3>7. K = Keep(a \o v, S)
        BY <2>5, <3>4
      <3> QED BY <3>5, <3>6, <3>7
    <2> DEFINE n == Len(k) + 1
    <2> HIDE DEF k, l, K
    <2>8. /\ n \in Nat /\ n >= 1 /\ Len(l) \in Nat /\ Len(K) = n + Len(l)
          /\ K[n] = t[i - 1] /\ (Len(l) >= 1 => K[n + 1] = l[1])
      <3>1. Len(Append(k, t[i - 1])) = n /\ Append(k, t[i - 1])[n] = t[i - 1]
        BY <2>3, <2>6, AppendProperties
      <3>2. n \in Nat /\ n >= 1 /\ Len(l) \in Nat
        BY <2>6, LenProperties
      <3>3. /\ Len(Append(k, t[i - 1]) \o l) = n + Len(l)
            /\ \A j \in 1..(n + Len(l)) : (Append(k, t[i - 1]) \o l)[j] =
                 IF j <= n THEN Append(k, t[i - 1])[j] ELSE l[j - n]
        BY <2>6, <3>1, ConcatProperties
      <3>4. n \in 1..(n + Len(l)) /\ (Len(l) >= 1 => n + 1 \in 1..(n + Len(l)) /\ ~(n + 1 <= n) /\ (n + 1) - n = 1)
        BY <3>2
      <3> HIDE DEF n
      <3> QED BY <2>7, <3>1, <3>2, <3>3, <3>4
    <2> HIDE DEF n
    <2>9. Spell(K)[n] \in Marks
      BY <1>5, <2>1, <2>8 DEF Marks
    <2>10. n \in DOMAIN Spell(K)
      BY <1>5, <2>8
    <2>11. CASE i = Len(t)
      <3>1. Len(v) = 0
        BY <2>2, <2>4, <2>11
      <3>2. v = << >>
        BY <2>4, <3>1, EmptySeq
      <3>3. Len(l) = 0
        BY <3>2, KeepEmpty, EmptySeq DEF l
      <3>4. ~(n < Len(Spell(K)))
        BY <1>5, <2>8, <3>3
      <3> QED BY <1>4, <2>9, <2>10, <3>4 DEF Complete, Marks
    <2>12. CASE i < Len(t)
      <3>1. v # << >> /\ v[1] = "]"
        <4>1. Len(v) >= 1
          <5>1. i + 1 <= Len(t) /\ Len(t) - (i + 1) + 1 >= 1
            BY <1>1, <2>2, <2>12
          <5>2. Len(v) = Len(t) - (i + 1) + 1
            BY <2>4, <5>1
          <5> QED BY <5>1, <5>2
        <4>2. 1 \in 1..Len(t) - (i + 1) + 1 /\ i + 1 + 1 - 1 = i + 1
          BY <1>1, <2>2, <2>12
        <4>3. v[1] = t[i + 1]
          BY <2>4, <4>2
        <4> QED BY <2>1, <2>4, <2>12, <4>1, <4>3, EmptySeq
      <3>2. "]" \in S /\ "]" \in Word
        BY WordsAssumption DEF S, Word, Marks
      <3>3. v = <<"]">> \o Tail(v) /\ Tail(v) \in Seq(Word)
        <4>1. v = <<Head(v)>> \o Tail(v) /\ Tail(v) \in Seq(Word)
          BY <2>4, <3>1
        <4> QED BY <3>1, <4>1
      <3>4. l = <<"]">> \o Keep(Tail(v), S)
        <4>0. <<"]">> \in Seq(Word)
          BY <3>2
        <4>1. PICK b \in Seq(Word) : b = <<"]">>
          BY <4>0
        <4>2. Keep(b, S) = b
          <5>1. \A j \in DOMAIN b : b[j] \in S
            BY <3>2, <4>1
          <5> QED BY <5>1, KeepAll
        <4>3. PICK r \in Seq(Word) : r = Tail(v)
          BY <3>3
        <4>4. Keep(b \o r, S) = Keep(b, S) \o Keep(r, S)
          BY KeepConcat
        <4> QED BY <3>3, <4>1, <4>2, <4>3, <4>4 DEF l
      <3>5. Len(l) >= 1 /\ l[1] = "]"
        <4>1. Keep(Tail(v), S) \in Seq(Word)
          BY <3>3, KeepSeq
        <4> QED BY <3>4, <4>1
      <3>6. Spell(K)[n + 1] = "]"
        <4>1. n + 1 \in 1..Len(K) /\ K[n + 1] = "]"
          BY <2>8, <3>5
        <4>2. "]" \notin Arrays
          BY WordsAssumption
        <4> QED BY <1>5, <4>1, <4>2
      <3> QED BY <1>4, <2>9, <2>10, <3>6 DEF Complete, Marks
    <2> QED BY <1>2, <2>11, <2>12
  <1> QED BY <1>6, <1>7

-----------------------------------------------------------------------------
(* Parameters. *)

FieldSet == [names : Seq(STRING), type : Seq(STRING)]
ParamSet == [name : STRING, type : Seq(Word)]

\* The parameters of one field, and of each.
Group(field) == [j \in DOMAIN field.names |-> [name |-> field.names[j], type |-> exprToString(field.type)]]
Groups(fields) == [i \in DOMAIN fields |-> Group(fields[i])]

\* A field.
LEMMA FieldTyped ==
  ASSUME NEW fields, FieldList(fields), NEW i \in 1..Len(fields)
  PROVE  /\ fields[i].names \in Seq(STRING) /\ GoType(fields[i].type)
         /\ fields[i].type \in Seq(Word) /\ exprToString(fields[i].type) \in Seq(Word)
PROOF
  <1>1. fields \in Seq(FieldSet)
    BY DEF FieldList, FieldSet
  <1>2. DOMAIN fields = 1..Len(fields) /\ fields[i] \in FieldSet
    BY <1>1, LenProperties, ElementOfSeq
  <1>3. fields[i].names \in Seq(STRING) /\ GoType(fields[i].type)
    BY <1>2 DEF FieldSet, FieldList
  <1> QED BY <1>3, GoTypeWords, ExprTyped

\* Lists of fields are sequences.
LEMMA FieldsTyped ==
  ASSUME NEW fields, FieldList(fields)
  PROVE  Len(fields) \in Nat /\ DOMAIN fields = 1..Len(fields) /\ (fields = << >> <=> Len(fields) = 0)
PROOF
  <1>1. fields \in Seq(FieldSet)
    BY DEF FieldList, FieldSet
  <1> QED BY <1>1, LenProperties, EmptySeq

\* The groups are sequences of parameters.
LEMMA GroupsTyped ==
  ASSUME NEW fields, FieldList(fields)
  PROVE  /\ Groups(fields) \in Seq(Seq(ParamSet)) /\ Len(Groups(fields)) = Len(fields)
         /\ \A i \in 1..Len(fields) :
              LET g == Groups(fields)[i]
              IN  /\ Len(g) = Len(fields[i].names) /\ Len(g) \in Nat
                  /\ \A j \in 1..Len(g) : /\ g[j].name = fields[i].names[j]
                                           /\ g[j].type = exprToString(fields[i].type)
PROOF
  <1>1. Len(fields) \in Nat /\ DOMAIN fields = 1..Len(fields)
    BY FieldsTyped
  <1>2. ASSUME NEW i \in 1..Len(fields)
        PROVE  /\ Group(fields[i]) \in Seq(ParamSet) /\ Len(Group(fields[i])) = Len(fields[i].names)
               /\ Len(fields[i].names) \in Nat
               /\ \A j \in 1..Len(fields[i].names) :
                    /\ Group(fields[i])[j].name = fields[i].names[j]
                    /\ Group(fields[i])[j].type = exprToString(fields[i].type)
    <2> DEFINE ns == fields[i].names
               n == Len(ns)
               e == exprToString(fields[i].type)
               g == [j \in 1..n |-> [name |-> ns[j], type |-> e]]
    <2>1. ns \in Seq(STRING) /\ e \in Seq(Word)
      BY FieldTyped
    <2> HIDE DEF ns, e
    <2>2. n \in Nat /\ DOMAIN ns = 1..n /\ \A j \in 1..n : ns[j] \in STRING
      BY <2>1, LenProperties, ElementOfSeq
    <2>3. g \in [1..n -> ParamSet]
      BY <2>1, <2>2 DEF ParamSet
    <2>4. g \in Seq(ParamSet) /\ Len(g) = n
      BY <2>2, <2>3, SeqOfFunction
    <2>5. Group(fields[i]) = g
      BY <2>2 DEF Group, ns, e
    <2> QED BY <2>2, <2>4, <2>5 DEF ns, e
  <1> DEFINE m == [i \in 1..Len(fields) |-> Group(fields[i])]
  <1>3. m \in [1..Len(fields) -> Seq(ParamSet)]
    BY <1>2
  <1>4. m \in Seq(Seq(ParamSet)) /\ Len(m) = Len(fields)
    BY <1>1, <1>3, SeqOfFunction
  <1>5. Groups(fields) = m
    BY <1>1 DEF Groups
  <1> QED BY <1>2, <1>4, <1>5

\* Params prints them one after the other.
LEMMA ParamsAreGroups ==
  ASSUME NEW fields, FieldList(fields)
  PROVE  Params(fields) = FlattenSeq(Groups(fields)) /\ Params(fields) \in Seq(ParamSet)
PROOF
  <1>1. Params(fields) = FlattenSeq(Groups(fields))
    BY DEF Params, Groups, Group
  <1> QED BY <1>1, GroupsTyped, FlattenTyped

\* The lists of names.
LEMMA NamesTyped ==
  ASSUME NEW fields, FieldList(fields)
  PROVE  /\ [i \in DOMAIN fields |-> fields[i].names] \in Seq(Seq(STRING))
         /\ Len([i \in DOMAIN fields |-> fields[i].names]) = Len(fields)
         /\ NamesOf(fields) \in Seq(STRING)
PROOF
  <1> DEFINE m == [i \in 1..Len(fields) |-> fields[i].names]
  <1>1. Len(fields) \in Nat /\ DOMAIN fields = 1..Len(fields)
    BY FieldsTyped
  <1>2. m \in [1..Len(fields) -> Seq(STRING)]
    BY FieldTyped
  <1>3. m \in Seq(Seq(STRING)) /\ Len(m) = Len(fields)
    BY <1>1, <1>2, SeqOfFunction
  <1> HIDE DEF m
  <1>4. FlattenSeq(m) \in Seq(STRING)
    BY <1>3, FlattenTyped
  <1> QED BY <1>1, <1>3, <1>4 DEF NamesOf, m

\* Parameters have the names of the declaration, in order.
LEMMA ParamsNames ==
  ASSUME NEW fields, FieldList(fields)
  PROVE  [i \in DOMAIN Params(fields) |-> Params(fields)[i].name] = NamesOf(fields)
PROOF
  <1> DEFINE w == [i \in DOMAIN fields |-> fields[i].names]
             h == [p \in ParamSet |-> p.name]
             g == Groups(fields)
             ps == Params(fields)
  <1>1. Len(fields) \in Nat /\ DOMAIN fields = 1..Len(fields)
    BY FieldsTyped
  <1>2. w \in Seq(Seq(STRING)) /\ Len(w) = Len(fields) /\ NamesOf(fields) = FlattenSeq(w)
    BY NamesTyped DEF NamesOf
  <1>3. \A i \in 1..Len(fields) : w[i] = fields[i].names
    BY <1>1
  <1>4. /\ g \in Seq(Seq(ParamSet)) /\ Len(g) = Len(fields)
        /\ ps = FlattenSeq(g) /\ ps \in Seq(ParamSet)
    BY GroupsTyped, ParamsAreGroups
  <1> HIDE DEF w, g, ps
  <1>5. ASSUME NEW i \in 1..Len(g)
        PROVE  Maps(h, g[i], w[i])
    <2>1. i \in 1..Len(fields) /\ w[i] = fields[i].names
      BY <1>3, <1>4
    <2>2. /\ Len(g[i]) = Len(fields[i].names)
          /\ \A j \in 1..Len(g[i]) :
               /\ g[i][j].name = fields[i].names[j]
               /\ g[i][j].type = exprToString(fields[i].type)
      BY <2>1, GroupsTyped DEF g
    <2>3. g[i] \in Seq(ParamSet)
      BY <1>4, ElementOfSeq
    <2>4. \A j \in 1..Len(g[i]) : g[i][j] \in ParamSet
      BY <2>3, ElementOfSeq
    <2>5. \A j \in 1..Len(g[i]) : g[i][j].name = fields[i].names[j]
      BY <2>2
    <2> QED BY <2>1, <2>2, <2>4, <2>5 DEF Maps
  <1>6. Maps(h, ps, FlattenSeq(w))
    <2> HIDE DEF h
    <2> QED BY <1>2, <1>4, <1>5, FlattenMapped
  <1>7. FlattenSeq(w) \in Seq(STRING)
    BY <1>2, FlattenTyped
  <1>8. /\ DOMAIN ps = 1..Len(ps) /\ DOMAIN FlattenSeq(w) = 1..Len(FlattenSeq(w))
        /\ \A k \in 1..Len(ps) : ps[k] \in ParamSet
    BY <1>4, <1>7, LenProperties, ElementOfSeq
  <1>9. \A k \in 1..Len(ps) : ps[k].name = FlattenSeq(w)[k]
    BY <1>6, <1>8 DEF Maps
  <1> QED BY <1>2, <1>6, <1>7, <1>8, <1>9 DEF ps, Maps

\* How often a field declares its type.
Times(field) == IF field.names = << >> THEN 1 ELSE Len(field.names)

\* The types of a list of fields.
LEMMA FlatTyped ==
  ASSUME NEW fields, FieldList(fields)
  PROVE  \E w \in Seq(Seq(Seq(Word))) :
           /\ Flat(fields) = FlattenSeq(w) /\ Len(w) = Len(fields)
           /\ \A i \in 1..Len(fields) :
                /\ Len(w[i]) = Times(fields[i]) /\ Times(fields[i]) \in Nat /\ Times(fields[i]) >= 1
                /\ \A j \in 1..Len(w[i]) : w[i][j] = fields[i].type
PROOF
  <1>1. Len(fields) \in Nat /\ DOMAIN fields = 1..Len(fields)
    BY FieldsTyped
  <1> DEFINE w == [i \in 1..Len(fields) |->
                    IF fields[i].names = << >> THEN << fields[i].type >>
                    ELSE [j \in DOMAIN fields[i].names |-> fields[i].type]]
  <1>2. ASSUME NEW i \in 1..Len(fields)
        PROVE  /\ w[i] \in Seq(Seq(Word)) /\ Len(w[i]) = Times(fields[i])
               /\ Times(fields[i]) \in Nat /\ Times(fields[i]) >= 1
               /\ \A j \in 1..Len(w[i]) : w[i][j] = fields[i].type
    <2>1. fields[i].names \in Seq(STRING) /\ fields[i].type \in Seq(Word)
      BY FieldTyped
    <2>2. /\ Len(fields[i].names) \in Nat /\ DOMAIN fields[i].names = 1..Len(fields[i].names)
          /\ fields[i].names = << >> <=> Len(fields[i].names) = 0
      BY <2>1, LenProperties, EmptySeq
    <2> DEFINE v == [j \in 1..Len(fields[i].names) |-> fields[i].type]
    <2>3. v \in [1..Len(fields[i].names) -> Seq(Word)]
      BY <2>1
    <2>4. v \in Seq(Seq(Word)) /\ Len(v) = Len(fields[i].names)
      BY <2>2, <2>3, SeqOfFunction
    <2>5. \A j \in 1..Len(v) : v[j] = fields[i].type
      BY <2>4
    <2>6. CASE fields[i].names = << >>
      <3>1. w[i] = << fields[i].type >>
        BY <2>6
      <3>2. Times(fields[i]) = 1
        BY <2>6 DEF Times
      <3> HIDE DEF w
      <3> QED BY <2>1, <3>1, <3>2
    <2>7. CASE fields[i].names # << >>
      <3>1. w[i] = v
        BY <2>2, <2>7
      <3>2. Times(fields[i]) = Len(fields[i].names)
        BY <2>7 DEF Times
      <3> HIDE DEF w, v
      <3> QED BY <2>2, <2>4, <2>5, <2>7, <3>1, <3>2
    <2> QED BY <2>6, <2>7
  <1>3. w \in [1..Len(fields) -> Seq(Seq(Word))]
    BY <1>2
  <1>4. w \in Seq(Seq(Seq(Word))) /\ Len(w) = Len(fields)
    BY <1>1, <1>3, SeqOfFunction
  <1>5. Flat(fields) = FlattenSeq(w)
    BY <1>1 DEF Flat
  <1> HIDE DEF w
  <1> QED BY <1>2, <1>4, <1>5

\* Parameters whose types are printed as they are have the types of the
\* declaration, in order.
LEMMA ParamsTypes ==
  ASSUME NEW fields, FieldList(fields), \A i \in DOMAIN fields : fields[i].names # << >>,
         \A i \in DOMAIN fields : exprToString(fields[i].type) = fields[i].type
  PROVE  [i \in DOMAIN Params(fields) |-> Params(fields)[i].type] = Flat(fields)
PROOF
  <1> DEFINE h == [p \in ParamSet |-> p.type]
             g == Groups(fields)
             ps == Params(fields)
  <1>1. Len(fields) \in Nat /\ DOMAIN fields = 1..Len(fields)
    BY FieldsTyped
  <1>2. PICK w \in Seq(Seq(Seq(Word))) :
          /\ Flat(fields) = FlattenSeq(w) /\ Len(w) = Len(fields)
          /\ \A i \in 1..Len(fields) :
               /\ Len(w[i]) = Times(fields[i])
               /\ \A j \in 1..Len(w[i]) : w[i][j] = fields[i].type
    BY FlatTyped
  <1>4. /\ g \in Seq(Seq(ParamSet)) /\ Len(g) = Len(fields)
        /\ ps = FlattenSeq(g) /\ ps \in Seq(ParamSet)
    BY GroupsTyped, ParamsAreGroups
  <1> HIDE DEF g, ps
  <1>5. ASSUME NEW i \in 1..Len(g)
        PROVE  Maps(h, g[i], w[i])
    <2>1. i \in 1..Len(fields) /\ exprToString(fields[i].type) = fields[i].type
      BY <1>1, <1>4
    <2>2. /\ Len(g[i]) = Len(fields[i].names)
          /\ \A j \in 1..Len(g[i]) :
               /\ g[i][j].name = fields[i].names[j]
               /\ g[i][j].type = exprToString(fields[i].type)
      BY <2>1, GroupsTyped DEF g
    <2>3. g[i] \in Seq(ParamSet)
      BY <1>4, ElementOfSeq
    <2>4. \A j \in 1..Len(g[i]) : g[i][j] \in ParamSet
      BY <2>3, ElementOfSeq
    <2>5. \A j \in 1..Len(g[i]) : g[i][j].type = fields[i].type
      BY <2>1, <2>2
    <2>6. Len(w[i]) = Len(g[i]) /\ \A j \in 1..Len(g[i]) : w[i][j] = fields[i].type
      <3>1. Times(fields[i]) = Len(fields[i].names)
        BY <1>1, <2>1 DEF Times
      <3> QED BY <1>2, <2>1, <2>2, <3>1
    <2> QED BY <2>4, <2>5, <2>6 DEF Maps
  <1>3. Len(g) = Len(w)
    BY <1>2, <1>4
  <1>6. Maps(h, ps, FlattenSeq(w))
    <2> HIDE DEF h
    <2> QED BY <1>3, <1>4, <1>5, FlattenMapped
  <1>7. FlattenSeq(w) \in Seq(Seq(Word))
    BY <1>2, FlattenTyped
  <1>8. /\ DOMAIN ps = 1..Len(ps) /\ DOMAIN FlattenSeq(w) = 1..Len(FlattenSeq(w))
        /\ \A k \in 1..Len(ps) : ps[k] \in ParamSet
    BY <1>4, <1>7, LenProperties, ElementOfSeq
  <1>9. \A k \in 1..Len(ps) : ps[k].type = FlattenSeq(w)[k]
    BY <1>6, <1>8 DEF Maps
  <1> QED BY <1>2, <1>6, <1>7, <1>8, <1>9 DEF ps, Maps

\* The parameters are those of the groups.
LEMMA ParamsElements ==
  ASSUME NEW fields, FieldList(fields), NEW e
  PROVE  In(e, Params(fields)) <=> \E i \in 1..Len(fields) : In(e, Groups(fields)[i])
PROOF
  <1>1. /\ Groups(fields) \in Seq(Seq(ParamSet)) /\ Len(Groups(fields)) = Len(fields)
        /\ Params(fields) = FlattenSeq(Groups(fields))
    BY GroupsTyped, ParamsAreGroups
  <1> QED BY <1>1, FlattenElements

\* The types of the parameters are those of the fields, printed.
LEMMA ParamsFields ==
  ASSUME NEW fields, FieldList(fields), \A i \in DOMAIN fields : fields[i].names # << >>, NEW T
  PROVE  (\E k \in DOMAIN Params(fields) : Params(fields)[k].type \in T)
           <=> \E i \in DOMAIN fields : exprToString(fields[i].type) \in T
PROOF
  <1> DEFINE g == Groups(fields)
             ps == Params(fields)
  <1>1. Len(fields) \in Nat /\ DOMAIN fields = 1..Len(fields)
    BY FieldsTyped
  <1>2. /\ g \in Seq(Seq(ParamSet)) /\ Len(g) = Len(fields)
        /\ ps = FlattenSeq(g) /\ ps \in Seq(ParamSet)
    BY GroupsTyped, ParamsAreGroups
  <1>3. \A i \in 1..Len(fields) :
          /\ Len(g[i]) = Len(fields[i].names) /\ Len(g[i]) \in Nat
          /\ \A j \in 1..Len(g[i]) :
               /\ g[i][j].name = fields[i].names[j]
               /\ g[i][j].type = exprToString(fields[i].type)
    BY GroupsTyped
  <1> HIDE DEF g, ps
  <1>4. DOMAIN ps = 1..Len(ps)
    BY <1>2, LenProperties
  <1>7. \A e : In(e, ps) <=> \E i \in 1..Len(g) : In(e, g[i])
    BY <1>2, ParamsElements DEF ps, g
  <1>5. ASSUME NEW k \in DOMAIN ps, ps[k].type \in T
        PROVE  \E i \in DOMAIN fields : exprToString(fields[i].type) \in T
    <2>1. In(ps[k], ps)
      BY <1>4 DEF In
    <2>2. PICK i \in 1..Len(g) : In(ps[k], g[i])
      BY <1>7, <2>1
    <2>3. PICK j \in 1..Len(g[i]) : g[i][j] = ps[k]
      BY <2>2 DEF In
    <2>4. i \in 1..Len(fields)
      BY <1>2
    <2>5. g[i][j].type = exprToString(fields[i].type)
      BY <1>3, <2>3, <2>4
    <2> QED BY <1>1, <1>5, <2>3, <2>4, <2>5
  <1>6. ASSUME NEW i \in DOMAIN fields, exprToString(fields[i].type) \in T
        PROVE  \E k \in DOMAIN ps : ps[k].type \in T
    <2>1. i \in 1..Len(fields) /\ i \in 1..Len(g)
      BY <1>1, <1>2
    <2>2. Len(fields[i].names) >= 1
      BY <2>1, FieldTyped, EmptySeq
    <2>3. 1 \in 1..Len(g[i])
      BY <1>3, <2>1, <2>2
    <2>5. g[i][1].type = exprToString(fields[i].type)
      BY <1>3, <2>1, <2>3
    <2>4. \E k \in 1..Len(ps) : ps[k] = g[i][1]
      <3>1. In(g[i][1], g[i])
        BY <2>3 DEF In
      <3> QED BY <1>7, <2>1, <3>1 DEF In
    <2> QED BY <1>4, <1>6, <2>4, <2>5
  <1> QED BY <1>5, <1>6 DEF ps

\* One field is as many types as it declares.
LEMMA FlatOfOne ==
  ASSUME NEW fields, FieldList(fields), Len(fields) = 1
  PROVE  /\ Flat(fields) \in Seq(Seq(Word)) /\ Len(Flat(fields)) = Times(fields[1])
         /\ \A k \in 1..Len(Flat(fields)) : Flat(fields)[k] = fields[1].type
PROOF
  <1>1. PICK w \in Seq(Seq(Seq(Word))) :
          /\ Flat(fields) = FlattenSeq(w) /\ Len(w) = Len(fields)
          /\ \A i \in 1..Len(fields) :
               /\ Len(w[i]) = Times(fields[i])
               /\ \A j \in 1..Len(w[i]) : w[i][j] = fields[i].type
    BY FlatTyped
  <1>2. PICK a \in Seq(Seq(Word)) : a = w[1]
    <2>1. Len(w) = 1 /\ 1 \in 1..Len(w)
      BY <1>1
    <2>2. w[1] \in Seq(Seq(Word))
      BY <2>1, ElementOfSeq
    <2> QED BY <2>2
  <1>3. w = <<a>>
    <2>1. PICK b \in Seq(Seq(Seq(Word))) : b = <<a>> /\ Len(b) = 1 /\ b[1] = a
      <3>1. Len(<<a>>) = 1 /\ <<a>>[1] = a
        OBVIOUS
      <3>2. <<a>> \in Seq(Seq(Seq(Word)))
        OBVIOUS
      <3> QED BY <3>1, <3>2
    <2>2. Len(w) = 1 /\ w[1] = a
      BY <1>1, <1>2
    <2>3. \A i \in 1..1 : w[i] = b[i]
      <3>1. \A i \in 1..1 : i = 1
        OBVIOUS
      <3> QED BY <2>1, <2>2, <3>1
    <2> QED BY <2>1, <2>2, <2>3, SeqEqual
  <1>4. FlattenSeq(<<a>>) = a
    BY FlattenOne
  <1>5. Flat(fields) = a
    BY <1>1, <1>3, <1>4
  <1>6. Len(a) = Times(fields[1]) /\ \A j \in 1..Len(a) : a[j] = fields[1].type
    BY <1>1, <1>2
  <1> QED BY <1>5, <1>6

\* Two fields are the types of the first, then those of the second.
LEMMA FlatOfTwo ==
  ASSUME NEW fields, FieldList(fields), Len(fields) = 2
  PROVE  LET a == Times(fields[1])
             b == Times(fields[2])
         IN  /\ Flat(fields) \in Seq(Seq(Word)) /\ Len(Flat(fields)) = a + b
             /\ a \in Nat /\ a >= 1 /\ b \in Nat /\ b >= 1
             /\ Flat(fields)[1] = fields[1].type /\ Flat(fields)[a + 1] = fields[2].type
PROOF
  <1>1. PICK w \in Seq(Seq(Seq(Word))) :
          /\ Flat(fields) = FlattenSeq(w) /\ Len(w) = Len(fields)
          /\ \A i \in 1..Len(fields) :
               /\ Len(w[i]) = Times(fields[i]) /\ Times(fields[i]) \in Nat /\ Times(fields[i]) >= 1
               /\ \A j \in 1..Len(w[i]) : w[i][j] = fields[i].type
    BY FlatTyped
  <1>9. w \in Seq(Seq(Seq(Word))) /\ Len(w) = 2
    BY <1>1
  <1>10. w[1] \in Seq(Seq(Word)) /\ w[2] \in Seq(Seq(Word))
    BY <1>9, ElementOfSeq
  <1>2. PICK u \in Seq(Seq(Word)) : u = w[1]
    BY <1>10
  <1>3. PICK v \in Seq(Seq(Word)) : v = w[2]
    BY <1>10
  <1>4. w = <<u>> \o <<v>>
    BY <1>1, <1>2, <1>3
  <1>5. FlattenSeq(<<u>> \o <<v>>) = u \o v
    <2>1. <<v>> \in Seq(Seq(Seq(Word)))
      OBVIOUS
    <2>2. PICK s \in Seq(Seq(Seq(Word))) : s = <<v>>
      BY <2>1
    <2>3. FlattenSeq(<<u>> \o s) = u \o FlattenSeq(s)
      BY FlattenCons
    <2>4. FlattenSeq(<<v>>) = v
      BY FlattenOne
    <2> QED BY <2>2, <2>3, <2>4
  <1>6. Flat(fields) = u \o v
    BY <1>1, <1>4, <1>5
  <1>7. /\ Len(u) = Times(fields[1]) /\ Len(u) \in Nat /\ Len(u) >= 1 /\ u[1] = fields[1].type
        /\ Len(v) = Times(fields[2]) /\ Len(v) \in Nat /\ Len(v) >= 1 /\ v[1] = fields[2].type
    BY <1>1, <1>2, <1>3
  <1>8. /\ u \o v \in Seq(Seq(Word)) /\ Len(u \o v) = Len(u) + Len(v)
        /\ (u \o v)[1] = u[1] /\ (u \o v)[Len(u) + 1] = v[1]
    <2>1. /\ u \o v \in Seq(Seq(Word)) /\ Len(u \o v) = Len(u) + Len(v)
          /\ \A i \in 1..Len(u) + Len(v) : (u \o v)[i] = IF i <= Len(u) THEN u[i] ELSE v[i - Len(u)]
      BY ConcatProperties
    <2>2. 1 \in 1..Len(u) + Len(v) /\ Len(u) + 1 \in 1..Len(u) + Len(v)
          /\ 1 <= Len(u) /\ ~(Len(u) + 1 <= Len(u)) /\ (Len(u) + 1) - Len(u) = 1
      BY <1>7
    <2> QED BY <2>1, <2>2
  <1> QED BY <1>6, <1>7, <1>8

\* Every field declares a type.
LEMMA FlatLonger ==
  ASSUME NEW fields, FieldList(fields)
  PROVE  Flat(fields) \in Seq(Seq(Word)) /\ Len(Flat(fields)) >= Len(fields)
PROOF
  <1>1. PICK w \in Seq(Seq(Seq(Word))) :
          /\ Flat(fields) = FlattenSeq(w) /\ Len(w) = Len(fields)
          /\ \A i \in 1..Len(fields) : Len(w[i]) = Times(fields[i]) /\ Times(fields[i]) >= 1
    BY FlatTyped
  <1>2. \A i \in 1..Len(w) : w[i] # << >>
    BY <1>1, EmptySeq
  <1> QED BY <1>1, <1>2, FlattenLonger, FlattenTyped

\* No field declares nothing.
LEMMA FlatOfNone == Flat(<< >>) = << >>
  BY DEF Flat, FlattenSeq

-----------------------------------------------------------------------------
(* Results. *)

\* A type that starts with a word.
LEMMA PrefixOne ==
  ASSUME NEW t \in Seq(Word), NEW a \in Word
  PROVE  /\ IsPrefix(<<a>>, t) <=> t # << >> /\ t[1] = a
         /\ IsPrefix(<<a>>, t) => Tail(t) \in Seq(Word) /\ t = <<a>> \o Tail(t)
PROOF
  <1>1. Len(t) \in Nat /\ (t = << >> <=> Len(t) = 0)
    BY LenProperties, EmptySeq
  <1>2. SubSeq(<<a>>, 1, 1) = <<a>>
    <2>1. <<a>> \in Seq(Word) /\ Len(<<a>>) = 1
      OBVIOUS
    <2> QED BY <2>1, SubSeqFull
  <1>3. Len(t) >= 1 => SubSeq(t, 1, 1) = <<t[1]>>
    <2>1. ASSUME Len(t) >= 1
          PROVE  /\ SubSeq(t, 1, 1) \in Seq(Word) /\ Len(SubSeq(t, 1, 1)) = 1
                 /\ SubSeq(t, 1, 1)[1] = t[1]
      <3>1. 1 \in 1..Len(t) + 1 /\ 1 \in 0..Len(t) /\ 1 \in 1..1 - 1 + 1 /\ 1 + 1 - 1 = 1
        BY <1>1, <2>1
      <3> QED BY <3>1, PartOf
    <2>2. \A u \in Seq(Word) : Len(u) = 1 => u = <<u[1]>>
      OBVIOUS
    <2> QED BY <2>1, <2>2
  <1>4. IsPrefix(<<a>>, t) <=> t # << >> /\ t[1] = a
    BY <1>1, <1>2, <1>3 DEF IsPrefix
  <1>5. t # << >> /\ t[1] = a => Tail(t) \in Seq(Word) /\ t = <<a>> \o Tail(t)
    BY <1>1
  <1> QED BY <1>4, <1>5

\* One that starts with two words.
LEMMA PrefixTwo ==
  ASSUME NEW t \in Seq(Word), NEW a \in Word, NEW b \in Word
  PROVE  /\ IsPrefix(<<a, b>>, t) <=> Len(t) >= 2 /\ t[1] = a /\ t[2] = b
         /\ IsPrefix(<<a, b>>, t) =>
              SubSeq(t, 3, Len(t)) \in Seq(Word) /\ t = <<a, b>> \o SubSeq(t, 3, Len(t))
PROOF
  <1>1. Len(t) \in Nat
    BY LenProperties
  <1>2. SubSeq(<<a, b>>, 1, 2) = <<a, b>>
    <2>1. <<a, b>> \in Seq(Word) /\ Len(<<a, b>>) = 2
      OBVIOUS
    <2> QED BY <2>1, SubSeqFull
  <1>3. Len(t) >= 2 => SubSeq(t, 1, 2) = <<t[1], t[2]>>
    <2>1. ASSUME Len(t) >= 2
          PROVE  /\ SubSeq(t, 1, 2) \in Seq(Word) /\ Len(SubSeq(t, 1, 2)) = 2
                 /\ SubSeq(t, 1, 2)[1] = t[1] /\ SubSeq(t, 1, 2)[2] = t[2]
      <3>1. /\ 1 \in 1..Len(t) + 1 /\ 2 \in 0..Len(t) /\ 1 \in 1..2 - 1 + 1 /\ 2 \in 1..2 - 1 + 1
            /\ 1 + 1 - 1 = 1 /\ 1 + 2 - 1 = 2
        BY <1>1, <2>1
      <3> QED BY <3>1, PartOf
    <2>2. \A u \in Seq(Word) : Len(u) = 2 => u = <<u[1], u[2]>>
      OBVIOUS
    <2> QED BY <2>1, <2>2
  <1>4. IsPrefix(<<a, b>>, t) <=> Len(t) >= 2 /\ t[1] = a /\ t[2] = b
    BY <1>1, <1>2, <1>3 DEF IsPrefix
  <1>5. ASSUME Len(t) >= 2, t[1] = a, t[2] = b
        PROVE  SubSeq(t, 3, Len(t)) \in Seq(Word) /\ t = <<a, b>> \o SubSeq(t, 3, Len(t))
    <2>1. t = SubSeq(t, 1, 2) \o SubSeq(t, 2 + 1, Len(t))
      <3>1. 2 \in 0..Len(t)
        BY <1>1, <1>5
      <3> QED BY <3>1, CutInTwo
    <2>2. SubSeq(t, 3, Len(t)) \in Seq(Word)
      BY <1>1, <1>5
    <2> QED BY <1>3, <1>5, <2>1, <2>2
  <1> QED BY <1>4, <1>5

\* The element types that are taken.
LEMMA ElementCases ==
  ASSUME NEW t \in Seq(Word), ElementOf(t).kind # "rejected"
  PROVE  \/ t = <<"int">> /\ ElementOf(t) = Return("rows_or_id", t, FALSE)
         \/ \E u \in Seq(Word) :
              \/ t = <<"[]", "*">> \o u /\ ElementOf(t) = Return("slice", u, TRUE)
              \/ t = <<"[]">> \o u /\ ElementOf(t) = Return("slice", u, FALSE)
              \/ t = <<"*">> \o u /\ ElementOf(t) = Return("single", u, TRUE)
PROOF
  <1> "*" \in Word /\ "[]" \in Word
    BY DEF Word, Marks
  <1>1. CASE t = <<"int">>
    <2>1. t[1] = "int"
      BY <1>1
    <2>2. ~IsPrefix(<<"[]">>, t) /\ ~IsPrefix(<<"*">>, t) /\ ~IsPrefix(<<"[]", "*">>, t)
      BY <2>1, PrefixOne, PrefixTwo
    <2>3. ElementOf(t) = Return("rows_or_id", t, FALSE)
      BY <1>1, <2>2 DEF ElementOf
    <2> QED BY <1>1, <2>3
  <1>2. CASE IsPrefix(<<"[]", "*">>, t)
    <2>1. t[1] = "[]"
      BY <1>2, PrefixTwo
    <2>2. t # <<"int">>
      BY <2>1
    <2>3. ~IsPrefix(<<"*">>, t)
      BY <2>1, PrefixOne
    <2>4. ElementOf(t) = Return("slice", SubSeq(t, 3, Len(t)), TRUE)
      BY <1>2, <2>2, <2>3 DEF ElementOf
    <2> QED BY <1>2, <2>4, PrefixTwo
  <1>3. CASE IsPrefix(<<"[]">>, t) /\ ~IsPrefix(<<"[]", "*">>, t)
    <2>1. t[1] = "[]"
      BY <1>3, PrefixOne
    <2>2. t # <<"int">>
      BY <2>1
    <2>3. ~IsPrefix(<<"*">>, t)
      BY <2>1, PrefixOne
    <2>4. ElementOf(t) = Return("slice", Tail(t), FALSE)
      BY <1>3, <2>2, <2>3 DEF ElementOf
    <2> QED BY <1>3, <2>4, PrefixOne
  <1>4. CASE IsPrefix(<<"*">>, t)
    <2>1. t[1] = "*"
      BY <1>4, PrefixOne
    <2>2. t # <<"int">>
      BY <2>1
    <2>3. ~IsPrefix(<<"[]">>, t) /\ ~IsPrefix(<<"[]", "*">>, t)
      BY <2>1, PrefixOne, PrefixTwo
    <2>4. ElementOf(t) = Return("single", Tail(t), TRUE)
      BY <1>4, <2>2, <2>3 DEF ElementOf
    <2> QED BY <1>4, <2>4, PrefixOne
  <1>5. CASE /\ t # <<"int">> /\ ~IsPrefix(<<"[]", "*">>, t) /\ ~IsPrefix(<<"*">>, t)
             /\ ~IsPrefix(<<"[]">>, t)
    <2>1. ElementOf(t) = Rejected
      BY <1>5 DEF ElementOf
    <2> QED BY <2>1 DEF Rejected, Return
  <1> QED BY <1>1, <1>2, <1>3, <1>4, <1>5

\* The element types of the README's table are taken.
LEMMA ElementTaken ==
  ASSUME NEW t \in Seq(Word), t = <<"int">> \/ (t # << >> /\ t[1] \in {"*", "[]"})
  PROVE  ElementOf(t).kind # "rejected"
PROOF
  <1> "*" \in Word /\ "[]" \in Word
    BY DEF Word, Marks
  <1>1. CASE t = <<"int">>
    <2>1. t[1] = "int"
      BY <1>1
    <2>2. ~IsPrefix(<<"[]">>, t) /\ ~IsPrefix(<<"*">>, t) /\ ~IsPrefix(<<"[]", "*">>, t)
      BY <2>1, PrefixOne, PrefixTwo
    <2> QED BY <1>1, <2>2 DEF ElementOf, Return
  <1>2. CASE t # << >> /\ t[1] = "*"
    <2>1. t # <<"int">>
      BY <1>2
    <2>2. IsPrefix(<<"*">>, t) /\ ~IsPrefix(<<"[]">>, t) /\ ~IsPrefix(<<"[]", "*">>, t)
      BY <1>2, PrefixOne, PrefixTwo
    <2> QED BY <2>1, <2>2 DEF ElementOf, Return
  <1>3. CASE t # << >> /\ t[1] = "[]"
    <2>1. t # <<"int">>
      BY <1>3
    <2>2. IsPrefix(<<"[]">>, t) /\ ~IsPrefix(<<"*">>, t)
      BY <1>3, PrefixOne
    <2> QED BY <2>1, <2>2 DEF ElementOf, Return
  <1> QED BY <1>1, <1>2, <1>3

\* What is printed of a field's type.
PrintedType(field) == exprToString(field.type)

\* The result lists that are taken, and what they return.
LEMMA ReturnCases ==
  ASSUME NEW fields, FieldList(fields)
  PROVE  \/ fields = << >> /\ buildReturn(fields) = Return("nothing", << >>, FALSE)
         \/ /\ Len(fields) = 1 /\ PrintedType(fields[1]) = Error
            /\ buildReturn(fields) = Return("error", << >>, FALSE)
         \/ /\ Len(fields) = 2 /\ PrintedType(fields[1]) # << >> /\ PrintedType(fields[2]) = Error
            /\ buildReturn(fields) = ElementOf(PrintedType(fields[1]))
         \/ /\ fields # << >> /\ ~(Len(fields) = 1 /\ PrintedType(fields[1]) = Error)
            /\ ~(Len(fields) = 2 /\ PrintedType(fields[1]) # << >> /\ PrintedType(fields[2]) = Error)
            /\ buildReturn(fields).kind = "rejected"
PROOF
  <1> DEFINE types == [i \in DOMAIN fields |-> exprToString(fields[i].type)]
  <1>1. /\ Len(fields) \in Nat /\ DOMAIN fields = 1..Len(fields)
        /\ fields = << >> <=> Len(fields) = 0
    BY FieldsTyped
  <1>2. types \in Seq(Seq(Word)) /\ Len(types) = Len(fields)
        /\ \A i \in 1..Len(fields) : types[i] = PrintedType(fields[i])
    <2>1. \A i \in 1..Len(fields) : exprToString(fields[i].type) \in Seq(Word)
      BY FieldTyped
    <2> DEFINE m == [i \in 1..Len(fields) |-> exprToString(fields[i].type)]
    <2>2. m \in [1..Len(fields) -> Seq(Word)]
      BY <2>1
    <2>3. m \in Seq(Seq(Word)) /\ Len(m) = Len(fields)
      BY <1>1, <2>2, SeqOfFunction
    <2>4. types = m
      BY <1>1
    <2> QED BY <2>3, <2>4 DEF PrintedType
  <1>3. buildReturn(fields) =
          CASE fields = << >> -> Return("nothing", << >>, FALSE)
            [] types = << <<"error">> >> -> Return("error", << >>, FALSE)
            [] Len(types) = 2 /\ types[1] # << >> /\ types[2] = <<"error">> -> ElementOf(types[1])
            [] OTHER -> Rejected
    BY DEF buildReturn
  <1> HIDE DEF types
  <1>4. CASE fields = << >>
    <2>1. types # << <<"error">> >> /\ ~(Len(types) = 2)
      BY <1>1, <1>2, <1>4
    <2> QED BY <1>3, <1>4, <2>1
  <1>5. CASE fields # << >> /\ types = << <<"error">> >>
    <2>1. Len(types) = 1 /\ types[1] = <<"error">>
      BY <1>5
    <2>2. Len(fields) = 1 /\ PrintedType(fields[1]) = <<"error">>
      BY <1>1, <1>2, <2>1
    <2>3. ~(Len(types) = 2)
      BY <2>1
    <2>4. buildReturn(fields) = Return("error", << >>, FALSE)
      BY <1>3, <1>5, <2>3
    <2> QED BY <2>2, <2>4 DEF Error
  <1>6. CASE /\ fields # << >> /\ types # << <<"error">> >>
             /\ Len(types) = 2 /\ types[1] # << >> /\ types[2] = <<"error">>
    <2>1. buildReturn(fields) = ElementOf(types[1])
      BY <1>3, <1>6
    <2>2. types[1] = PrintedType(fields[1]) /\ types[2] = PrintedType(fields[2])
      <3>1. Len(fields) = 2
        BY <1>2, <1>6
      <3>2. 1 \in 1..Len(fields) /\ 2 \in 1..Len(fields)
        BY <3>1
      <3> QED BY <1>2, <3>2
    <2> QED BY <1>2, <1>6, <2>1, <2>2 DEF Error
  <1>7. CASE /\ fields # << >> /\ types # << <<"error">> >>
             /\ ~(Len(types) = 2 /\ types[1] # << >> /\ types[2] = <<"error">>)
    <2>1. buildReturn(fields) = Rejected
      BY <1>3, <1>7
    <2>2. buildReturn(fields).kind = "rejected"
      BY <2>1 DEF Rejected, Return
    <2>3. Len(fields) = 1 => PrintedType(fields[1]) # Error
      <3>1. ASSUME Len(fields) = 1, PrintedType(fields[1]) = Error PROVE FALSE
        <4>1. types[1] = <<"error">> /\ Len(types) = 1
          BY <1>2, <3>1 DEF Error
        <4>2. \A u \in Seq(Seq(Word)) : Len(u) = 1 => u = <<u[1]>>
          OBVIOUS
        <4>3. types = << <<"error">> >>
          BY <1>2, <4>1, <4>2
        <4> QED BY <1>7, <4>3
      <3> QED BY <3>1
    <2>4. Len(fields) = 2 => ~(PrintedType(fields[1]) # << >> /\ PrintedType(fields[2]) = Error)
      <3>1. ASSUME Len(fields) = 2 PROVE types[1] = PrintedType(fields[1]) /\ types[2] = PrintedType(fields[2])
        <4>1. 1 \in 1..Len(fields) /\ 2 \in 1..Len(fields)
          BY <3>1
        <4> QED BY <1>2, <4>1
      <3> QED BY <1>2, <1>7, <3>1 DEF Error
    <2> QED BY <1>7, <2>2, <2>3, <2>4
  <1> QED BY <1>4, <1>5, <1>6, <1>7

\* A declaration that is taken.
LEMMA GoodTyped ==
  ASSUME NEW d \in Good
  PROVE  /\ d \in Declarations /\ FieldList(d.params) /\ FieldList(d.results)
         /\ d.query \in QueryKinds /\ d.query # "none"
         /\ ParamsAccepted(d.params) /\ buildReturn(d.results).kind # "rejected"
  BY DeclarationsAssumption DEF Good, Queries, Accepted, QueryKinds

\* What is printed of an element type.
LEMMA ElementIsPrinted ==
  ASSUME NEW m, NEW t \in Seq(Word), ElementOf(t).kind # "rejected", m.return = ElementOf(t)
  PROVE  m.return.kind \in ReturnKinds /\ Results(m) = <<t, Error>>
PROOF
  <1>1. CASE t = <<"int">> /\ ElementOf(t) = Return("rows_or_id", t, FALSE)
    <2>1. m.return.kind = "rows_or_id"
      BY <1>1 DEF Return
    <2>2. TemplateOf(m) \in {"execRows", "insertID", "insertIDReturning"}
      BY <2>1 DEF TemplateOf
    <2>3. Results(m) = << <<"int">>, Error >>
      BY <2>2 DEF Results
    <2> QED BY <1>1, <2>1, <2>3 DEF ReturnKinds
  <1>2. ASSUME NEW u \in Seq(Word), t = <<"[]", "*">> \o u, ElementOf(t) = Return("slice", u, TRUE)
        PROVE  m.return.kind \in ReturnKinds /\ Results(m) = <<t, Error>>
    <2>1. m.return.kind = "slice" /\ m.return.type = u /\ m.return.isPtr = TRUE
      BY <1>2 DEF Return
    <2>2. TemplateOf(m) = "selectMany"
      BY <2>1 DEF TemplateOf
    <2>3. Results(m) = << <<"[]", "*">> \o u, Error >>
      BY <2>1, <2>2 DEF Results
    <2> QED BY <1>2, <2>1, <2>3 DEF ReturnKinds
  <1>3. ASSUME NEW u \in Seq(Word), t = <<"[]">> \o u, ElementOf(t) = Return("slice", u, FALSE)
        PROVE  m.return.kind \in ReturnKinds /\ Results(m) = <<t, Error>>
    <2>1. m.return.kind = "slice" /\ m.return.type = u /\ m.return.isPtr = FALSE
      BY <1>3 DEF Return
    <2>2. TemplateOf(m) = "selectMany"
      BY <2>1 DEF TemplateOf
    <2>3. Results(m) = << <<"[]">> \o u, Error >>
      BY <2>1, <2>2 DEF Results
    <2> QED BY <1>3, <2>1, <2>3 DEF ReturnKinds
  <1>4. ASSUME NEW u \in Seq(Word), t = <<"*">> \o u, ElementOf(t) = Return("single", u, TRUE)
        PROVE  m.return.kind \in ReturnKinds /\ Results(m) = <<t, Error>>
    <2>1. m.return.kind = "single" /\ m.return.type = u
      BY <1>4 DEF Return
    <2>2. TemplateOf(m) = "selectOne"
      BY <2>1 DEF TemplateOf
    <2>3. Results(m) = << <<"*">> \o u, Error >>
      BY <2>1, <2>2 DEF Results
    <2> QED BY <1>4, <2>1, <2>3 DEF ReturnKinds
  <1> QED BY <1>1, <1>2, <1>3, <1>4, ElementCases

\* The result types the template prints are those of the declaration, printed.
LEMMA ResultsArePrinted ==
  ASSUME NEW d \in Good
  PROVE  /\ MethodOf(d).kind \in QueryKinds /\ MethodOf(d).return.kind \in ReturnKinds
         /\ DOMAIN Results(MethodOf(d)) = 1..Len(d.results)
         /\ \A i \in 1..Len(d.results) : Results(MethodOf(d))[i] = PrintedType(d.results[i])
         /\ \/ d.results = << >> /\ Results(MethodOf(d)) = << >>
            \/ Len(d.results) = 1 /\ Results(MethodOf(d)) = << Error >>
            \/ /\ Len(d.results) = 2 /\ PrintedType(d.results[1]) \in Seq(Word)
               /\ ElementOf(PrintedType(d.results[1])).kind # "rejected"
               /\ Results(MethodOf(d)) = << PrintedType(d.results[1]), Error >>
PROOF
  <1> DEFINE m == MethodOf(d)
  <1>1. /\ FieldList(d.results) /\ d.query \in QueryKinds /\ buildReturn(d.results).kind # "rejected"
    BY GoodTyped
  <1>2. m.kind = d.query /\ m.return = buildReturn(d.results)
    BY DEF MethodOf
  <1>3. /\ Len(d.results) \in Nat /\ (d.results = << >> <=> Len(d.results) = 0)
        /\ \A i \in 1..Len(d.results) : PrintedType(d.results[i]) \in Seq(Word)
    BY <1>1, FieldsTyped, FieldTyped DEF PrintedType
  <1> HIDE DEF m
  <1>4. CASE d.results = << >> /\ buildReturn(d.results) = Return("nothing", << >>, FALSE)
    <2>1. m.return.kind = "nothing"
      BY <1>2, <1>4 DEF Return
    <2>2. TemplateOf(m) = "execVoid"
      BY <2>1 DEF TemplateOf
    <2>3. Results(m) = << >>
      BY <2>2 DEF Results
    <2> QED BY <1>1, <1>2, <1>3, <1>4, <2>1, <2>3 DEF m, ReturnKinds
  <1>5. CASE /\ Len(d.results) = 1 /\ PrintedType(d.results[1]) = Error
             /\ buildReturn(d.results) = Return("error", << >>, FALSE)
    <2>1. m.return.kind = "error"
      BY <1>2, <1>5 DEF Return
    <2>2. TemplateOf(m) = "execErr"
      BY <2>1 DEF TemplateOf
    <2>3. Results(m) = << Error >>
      BY <2>2 DEF Results
    <2>4. DOMAIN Results(m) = 1..1 /\ Results(m)[1] = Error
      BY <2>3
    <2>5. \A i \in 1..Len(d.results) : Results(m)[i] = PrintedType(d.results[i])
      BY <1>5, <2>4
    <2>6. m.kind \in QueryKinds /\ m.return.kind \in ReturnKinds
      BY <1>1, <1>2, <2>1 DEF ReturnKinds
    <2> QED BY <1>5, <2>3, <2>4, <2>5, <2>6 DEF m
  <1>6. CASE /\ Len(d.results) = 2 /\ PrintedType(d.results[2]) = Error
             /\ buildReturn(d.results) = ElementOf(PrintedType(d.results[1]))
    <2>1. PrintedType(d.results[1]) \in Seq(Word)
      BY <1>3, <1>6
    <2>2. m.return.kind \in ReturnKinds /\ Results(m) = << PrintedType(d.results[1]), Error >>
      BY <1>1, <1>2, <1>6, <2>1, ElementIsPrinted
    <2> QED BY <1>1, <1>2, <1>6, <2>1, <2>2 DEF m
  <1> QED BY <1>1, <1>4, <1>5, <1>6, ReturnCases

-----------------------------------------------------------------------------
(* The signatures of the README's table. *)

\* What the printed method needs of go/format.
Formatted(d) ==
  /\ \A i \in DOMAIN Params(d.params) : Complete(Params(d.params)[i].type)
  /\ \A i \in DOMAIN Results(MethodOf(d)) : Complete(Results(MethodOf(d))[i])

\* The declared types are those of the fields.
LEMMA TypesDeclared ==
  ASSUME NEW d \in Declarations
  PROVE  /\ DOMAIN d.params = 1..Len(d.params) /\ DOMAIN d.results = 1..Len(d.results)
         /\ \A i \in 1..Len(d.params) : d.params[i].type \in DeclaredTypes(d) /\ GoType(d.params[i].type)
         /\ \A i \in 1..Len(d.results) : d.results[i].type \in DeclaredTypes(d) /\ GoType(d.results[i].type)
         /\ \A t \in DeclaredTypes(d) :
              (\E i \in 1..Len(d.params) : t = d.params[i].type) \/ (\E i \in 1..Len(d.results) : t = d.results[i].type)
PROOF
  <1>1. FieldList(d.params) /\ FieldList(d.results)
    BY DeclarationsAssumption
  <1>2. DOMAIN d.params = 1..Len(d.params) /\ DOMAIN d.results = 1..Len(d.results)
    BY <1>1, FieldsTyped
  <1>3. /\ \A i \in 1..Len(d.params) : GoType(d.params[i].type)
        /\ \A i \in 1..Len(d.results) : GoType(d.results[i].type)
    BY <1>1, FieldTyped
  <1> QED BY <1>2, <1>3 DEF DeclaredTypes

\* go/format stops exactly the types that are not printed whole.
LEMMA FormattedTypes ==
  ASSUME NEW d \in Good
  PROVE  Formatted(d) <=> \A t \in DeclaredTypes(d) : ToSet(t) \cap Opaque = {}
PROOF
  <1> DEFINE Bad == {u \in Seq(Word) : ~Complete(u)}
             ps == Params(d.params)
             rs == Results(MethodOf(d))
  <1>1. /\ d \in Declarations /\ FieldList(d.params) /\ FieldList(d.results)
        /\ \A i \in DOMAIN d.params : d.params[i].names # << >>
    BY GoodTyped DEF ParamsAccepted
  <1>2. /\ DOMAIN d.params = 1..Len(d.params) /\ DOMAIN d.results = 1..Len(d.results)
        /\ \A i \in 1..Len(d.params) : d.params[i].type \in DeclaredTypes(d) /\ GoType(d.params[i].type)
        /\ \A i \in 1..Len(d.results) : d.results[i].type \in DeclaredTypes(d) /\ GoType(d.results[i].type)
        /\ \A t \in DeclaredTypes(d) :
              (\E i \in 1..Len(d.params) : t = d.params[i].type) \/ (\E i \in 1..Len(d.results) : t = d.results[i].type)
    BY <1>1, TypesDeclared
  <1>3. \A t : GoType(t) => (Complete(exprToString(t)) <=> ToSet(t) \cap Opaque = {})
    BY ExprClean, ExprOpaque
  <1>4. /\ \A i \in 1..Len(d.params) : exprToString(d.params[i].type) \in Seq(Word)
        /\ \A i \in DOMAIN ps : ps[i].type \in Seq(Word)
    <2>1. ps \in Seq(ParamSet)
      BY <1>1, ParamsAreGroups
    <2>2. \A i \in DOMAIN ps : ps[i] \in ParamSet
      BY <2>1, LenProperties, ElementOfSeq
    <2>3. \A i \in DOMAIN ps : ps[i].type \in Seq(Word)
      BY <2>2 DEF ParamSet
    <2>4. \A i \in 1..Len(d.params) : exprToString(d.params[i].type) \in Seq(Word)
      BY <1>1, FieldTyped
    <2> QED BY <2>3, <2>4
  <1>5. (\E k \in DOMAIN ps : ps[k].type \in Bad)
          <=> \E i \in DOMAIN d.params : exprToString(d.params[i].type) \in Bad
    <2> HIDE DEF Bad
    <2> QED BY <1>1, ParamsFields
  <1> HIDE DEF ps
  <1>6. (\A k \in DOMAIN ps : Complete(ps[k].type))
          <=> \A i \in 1..Len(d.params) : Complete(exprToString(d.params[i].type))
    BY <1>2, <1>4, <1>5
  <1>7. (\A k \in DOMAIN rs : Complete(rs[k]))
          <=> \A i \in 1..Len(d.results) : Complete(exprToString(d.results[i].type))
    <2>1. DOMAIN rs = 1..Len(d.results) /\ \A i \in 1..Len(d.results) : rs[i] = PrintedType(d.results[i])
      BY ResultsArePrinted
    <2> HIDE DEF rs
    <2> QED BY <2>1 DEF PrintedType
  <1> HIDE DEF rs
  <1>8. /\ \A i \in 1..Len(d.params) : Complete(exprToString(d.params[i].type))
                                         <=> ToSet(d.params[i].type) \cap Opaque = {}
        /\ \A i \in 1..Len(d.results) : Complete(exprToString(d.results[i].type))
                                         <=> ToSet(d.results[i].type) \cap Opaque = {}
    BY <1>2, <1>3
  <1>9. Formatted(d) <=> /\ \A i \in 1..Len(d.params) : ToSet(d.params[i].type) \cap Opaque = {}
                         /\ \A i \in 1..Len(d.results) : ToSet(d.results[i].type) \cap Opaque = {}
    BY <1>6, <1>7, <1>8 DEF Formatted, ps, rs
  <1> QED BY <1>2, <1>9

\* The types of an ordinary declaration that is printed whole are printed as
\* they are.
LEMMA OrdinaryTypes ==
  ASSUME NEW d \in Good, Ordinary(d), Formatted(d)
  PROVE  /\ \A i \in 1..Len(d.params) : exprToString(d.params[i].type) = d.params[i].type
         /\ \A i \in 1..Len(d.results) : exprToString(d.results[i].type) = d.results[i].type
PROOF
  <1>1. d \in Declarations
    BY GoodTyped
  <1>2. /\ \A i \in 1..Len(d.params) : d.params[i].type \in DeclaredTypes(d) /\ GoType(d.params[i].type)
        /\ \A i \in 1..Len(d.results) : d.results[i].type \in DeclaredTypes(d) /\ GoType(d.results[i].type)
    BY <1>1, TypesDeclared
  <1>3. \A t \in DeclaredTypes(d) : ToSet(t) \cap Opaque = {} /\ ToSet(t) \cap Arrays = {}
    BY FormattedTypes DEF Ordinary
  <1>4. \A t : GoType(t) /\ ToSet(t) \cap Opaque = {} /\ ToSet(t) \cap Arrays = {} => exprToString(t) = t
    BY ExprSame
  <1> QED BY <1>2, <1>3, <1>4

\* The results of an ordinary declaration, one for each field.
LEMMA OrdinaryResults ==
  ASSUME NEW d \in Good, Ordinary(d)
  PROVE  Flat(d.results) = [i \in 1..Len(d.results) |-> d.results[i].type]
PROOF
  <1>1. FieldList(d.results) /\ \A i \in DOMAIN d.results : Len(d.results[i].names) <= 1
    BY GoodTyped DEF Ordinary
  <1>2. /\ DOMAIN d.results = 1..Len(d.results) /\ Len(d.results) \in Nat
        /\ d.results = << >> <=> Len(d.results) = 0
    BY <1>1, FieldsTyped
  <1>3. \A i \in 1..Len(d.results) : Times(d.results[i]) = 1
    <2>1. ASSUME NEW i \in 1..Len(d.results) PROVE Times(d.results[i]) = 1
      <3>1. d.results[i].names \in Seq(STRING) /\ Len(d.results[i].names) <= 1
        BY <1>1, <1>2, FieldTyped
      <3>2. Len(d.results[i].names) \in Nat /\ (d.results[i].names # << >> => Len(d.results[i].names) # 0)
        BY <3>1, LenProperties, EmptySeq
      <3>3. CASE d.results[i].names = << >>
        BY <3>3 DEF Times
      <3>4. CASE d.results[i].names # << >>
        <4>0. PICK n \in Nat : n = Len(d.results[i].names) /\ n # 0
          BY <3>2, <3>4
        <4>1. \A k \in Nat : k # 0 /\ k <= 1 => k = 1
          OBVIOUS
        <4>2. n <= 1
          BY <3>1, <4>0
        <4>3. Len(d.results[i].names) = 1
          BY <4>0, <4>1, <4>2
        <4> QED BY <3>4, <4>3 DEF Times
      <3> QED BY <3>3, <3>4
    <2> QED BY <2>1
  <1>4. CASE d.results = << >>
    <2>1. Len(d.results) = 0 /\ Flat(d.results) = << >>
      BY <1>2, <1>4, FlatOfNone
    <2>2. [i \in 1..0 |-> d.results[i].type] = << >>
      OBVIOUS
    <2> QED BY <2>1, <2>2
  <1>5. CASE Len(d.results) = 1
    <2>1. /\ Flat(d.results) \in Seq(Seq(Word)) /\ Len(Flat(d.results)) = 1
          /\ Flat(d.results)[1] = d.results[1].type
      <3>1. Times(d.results[1]) = 1
        BY <1>3, <1>5
      <3>2. /\ Flat(d.results) \in Seq(Seq(Word)) /\ Len(Flat(d.results)) = Times(d.results[1])
            /\ \A k \in 1..Len(Flat(d.results)) : Flat(d.results)[k] = d.results[1].type
        BY <1>1, <1>5, FlatOfOne
      <3> QED BY <3>1, <3>2
    <2>2. Flat(d.results) = [i \in 1..1 |-> d.results[i].type]
      <3>1. \A u \in Seq(Seq(Word)) : Len(u) = 1 => u = [i \in 1..1 |-> u[i]]
        OBVIOUS
      <3> QED BY <2>1, <3>1
    <2> QED BY <1>5, <2>2
  <1>6. CASE Len(d.results) = 2
    <2>1. /\ Flat(d.results) \in Seq(Seq(Word)) /\ Len(Flat(d.results)) = 2
          /\ Flat(d.results)[1] = d.results[1].type /\ Flat(d.results)[2] = d.results[2].type
      <3>1. Times(d.results[1]) = 1 /\ Times(d.results[2]) = 1
        BY <1>3, <1>6
      <3>2. /\ Flat(d.results) \in Seq(Seq(Word))
            /\ Len(Flat(d.results)) = Times(d.results[1]) + Times(d.results[2])
            /\ Flat(d.results)[1] = d.results[1].type
            /\ Flat(d.results)[Times(d.results[1]) + 1] = d.results[2].type
        BY <1>1, <1>6, FlatOfTwo
      <3>3. 1 + 1 = 2
        OBVIOUS
      <3> QED BY <3>1, <3>2, <3>3
    <2>2. Flat(d.results) = [i \in 1..2 |-> d.results[i].type]
      <3>1. \A u \in Seq(Seq(Word)) : Len(u) = 2 => u = [i \in 1..2 |-> u[i]]
        OBVIOUS
      <3>2. \A i \in 1..2 : Flat(d.results)[i] = d.results[i].type
        BY <2>1
      <3> QED BY <2>1, <3>1, <3>2
    <2> QED BY <1>6, <2>2
  <1> QED BY <1>4, <1>5, <1>6, ResultsArePrinted

\* What is printed of an ordinary declaration, if it is printed whole, is what
\* was declared.
LEMMA OrdinaryMatches ==
  ASSUME NEW d \in Good, Ordinary(d), Formatted(d)
  PROVE  /\ [i \in DOMAIN Params(d.params) |-> Params(d.params)[i].type] = Flat(d.params)
         /\ [i \in DOMAIN Params(d.params) |-> Params(d.params)[i].name] = NamesOf(d.params)
         /\ Results(MethodOf(d)) = Flat(d.results)
PROOF
  <1>1. /\ d \in Declarations /\ FieldList(d.params)
        /\ \A i \in DOMAIN d.params : d.params[i].names # << >>
    BY GoodTyped DEF ParamsAccepted
  <1>2. /\ \A i \in DOMAIN d.params : exprToString(d.params[i].type) = d.params[i].type
        /\ \A i \in 1..Len(d.results) : exprToString(d.results[i].type) = d.results[i].type
    BY <1>1, TypesDeclared, OrdinaryTypes
  <1>3. [i \in DOMAIN Params(d.params) |-> Params(d.params)[i].type] = Flat(d.params)
    BY <1>1, <1>2, ParamsTypes
  <1>4. [i \in DOMAIN Params(d.params) |-> Params(d.params)[i].name] = NamesOf(d.params)
    BY <1>1, ParamsNames
  <1>5. /\ DOMAIN Results(MethodOf(d)) = 1..Len(d.results)
        /\ \A i \in 1..Len(d.results) : Results(MethodOf(d))[i] = d.results[i].type
    BY <1>2, ResultsArePrinted DEF PrintedType
  <1>6. Results(MethodOf(d)) = [i \in 1..Len(d.results) |-> d.results[i].type]
    <2>1. \E r : r = Results(MethodOf(d)) /\ r = [i \in DOMAIN r |-> r[i]]
      <3>1. Results(MethodOf(d)) \in Seq(Seq(Word))
        <4>1. Error \in Seq(Word)
          BY DEF Error, Word
        <4>2. << >> \in Seq(Seq(Word)) /\ << Error >> \in Seq(Seq(Word))
              /\ \A u \in Seq(Word) : <<u, Error>> \in Seq(Seq(Word))
          BY <4>1
        <4> QED BY <4>2, ResultsArePrinted
      <3>2. \A r \in Seq(Seq(Word)) : r = [i \in DOMAIN r |-> r[i]]
        OBVIOUS
      <3> QED BY <3>1, <3>2
    <2> QED BY <1>5, <2>1
  <1> QED BY <1>3, <1>4, <1>6, OrdinaryResults

\* An ordinary declaration that is printed whole is of the table.
LEMMA OrdinaryDocumented ==
  ASSUME NEW d \in Good, Ordinary(d), Formatted(d)
  PROVE  Documented(d)
PROOF
  <1> "*" \in Word /\ "[]" \in Word
    BY DEF Word, Marks
  <1> DEFINE rs == Flat(d.results)
  <1>1. \A i \in DOMAIN d.params : d.params[i].names # << >>
    BY GoodTyped DEF ParamsAccepted
  <1>2. \A t \in DeclaredTypes(d) : ToSet(t) \cap Opaque = {}
    BY FormattedTypes
  <1>3. Results(MethodOf(d)) = rs
    BY OrdinaryMatches
  <1> HIDE DEF rs
  <1>4. CASE rs = << >> \/ rs = << Error >>
    BY <1>1, <1>2, <1>4 DEF Documented, rs
  <1>5. ASSUME NEW t \in Seq(Word), ElementOf(t).kind # "rejected", rs = <<t, Error>>
        PROVE  Documented(d)
    <2>1. Len(rs) = 2 /\ rs[2] = Error /\ rs[1] = t
      BY <1>5
    <2>2. CASE t = <<"int">>
      BY <1>1, <1>2, <1>5, <2>2 DEF Documented, rs
    <2>3. CASE IsPrefix(<<"*">>, t) \/ IsPrefix(<<"[]">>, t)
      BY <1>1, <1>2, <2>1, <2>3 DEF Documented, rs
    <2>4. ASSUME NEW u \in Seq(Word),
                 t = <<"[]", "*">> \o u \/ t = <<"[]">> \o u \/ t = <<"*">> \o u
          PROVE  t # << >> /\ (t[1] = "*" \/ t[1] = "[]")
      BY <2>4
    <2>5. t = <<"int">> \/ IsPrefix(<<"*">>, t) \/ IsPrefix(<<"[]">>, t)
      BY <1>5, <2>4, ElementCases, PrefixOne
    <2> QED BY <2>2, <2>3, <2>5
  <1>6. \/ rs = << >>
        \/ rs = << Error >>
        \/ \E t \in Seq(Word) : ElementOf(t).kind # "rejected" /\ rs = <<t, Error>>
    BY <1>3, ResultsArePrinted
  <1> QED BY <1>4, <1>5, <1>6

\* The parser lets every signature of the table pass.
LEMMA DocumentedTaken ==
  ASSUME NEW d \in Declarations, Documented(d)
  PROVE  Accepted(d)
PROOF
  <1> "*" \in Word /\ "[]" \in Word /\ "error" \in Word /\ "int" \in Word
    BY DEF Word, Marks
  <1> DEFINE fs == d.results
             rs == Flat(fs)
  <1>1. FieldList(d.params) /\ FieldList(fs)
    BY DeclarationsAssumption
  <1>2. /\ \A i \in DOMAIN d.params : d.params[i].names # << >>
        /\ \A t \in DeclaredTypes(d) : ToSet(t) \cap Opaque = {}
        /\ \/ rs \in {<< >>, << Error >>}
           \/ Len(rs) = 2 /\ rs[2] = Error
              /\ (rs[1] = <<"int">> \/ IsPrefix(<<"*">>, rs[1]) \/ IsPrefix(<<"[]">>, rs[1]))
    BY DEF Documented
  <1> HIDE DEF fs, rs
  <1>3. /\ DOMAIN d.params = 1..Len(d.params) /\ DOMAIN fs = 1..Len(fs) /\ Len(fs) \in Nat
        /\ fs = << >> <=> Len(fs) = 0
        /\ \A i \in 1..Len(d.params) : d.params[i].type \in DeclaredTypes(d) /\ GoType(d.params[i].type)
        /\ \A i \in 1..Len(fs) : fs[i].type \in DeclaredTypes(d) /\ GoType(fs[i].type)
    BY <1>1, FieldsTyped, TypesDeclared DEF fs
  <1>4. \A t : GoType(t) /\ ToSet(t) \cap Opaque = {} =>
          exprToString(t) = Spell(t) /\ exprToString(t) # << >>
    BY ExprClean
  <1>5. \A i \in 1..Len(fs) : PrintedType(fs[i]) = Spell(fs[i].type) /\ PrintedType(fs[i]) # << >>
    BY <1>2, <1>3, <1>4 DEF PrintedType
  <1>6. ParamsAccepted(d.params)
    BY <1>2, <1>3, <1>4 DEF ParamsAccepted
  <1>7. Spell(Error) = Error /\ Spell(<<"int">>) = <<"int">>
    <2>1. ASSUME NEW w \in {"error", "int"} PROVE Spell(<<w>>) = <<w>>
      <3>1. w \in Word /\ w \notin Arrays
        BY WordsAssumption
      <3>2. <<w>> \in Seq(Word) /\ Len(<<w>>) = 1 /\ <<w>>[1] = w
        BY <3>1
      <3>3. Spell(<<w>>) \in Seq(Word) /\ Len(Spell(<<w>>)) = 1 /\ Spell(<<w>>)[1] = w
        <4>1. PICK k \in Seq(Word) : k = <<w>>
          BY <3>2
        <4>2. 1 \in 1..Len(k) /\ Len(k) = 1 /\ k[1] = w
          BY <3>2, <4>1
        <4>3. /\ Spell(k) \in Seq(Word) /\ Len(Spell(k)) = Len(k)
              /\ \A i \in 1..Len(k) : Spell(k)[i] = IF k[i] \in Arrays THEN "[]" ELSE k[i]
          BY SpellTyped
        <4>4. Spell(k) = Spell(<<w>>)
          BY <4>1
        <4> QED BY <3>1, <4>2, <4>3, <4>4
      <3>4. \A u \in Seq(Word) : Len(u) = 1 => u = <<u[1]>>
        OBVIOUS
      <3> QED BY <3>3, <3>4
    <2> QED BY <2>1 DEF Error
  <1>8. rs \in Seq(Seq(Word)) /\ Len(rs) >= Len(fs)
    BY <1>1, FlatLonger DEF rs
  <1>9. CASE fs = << >>
    <2>1. buildReturn(fs).kind # "rejected"
      BY <1>1, <1>9, ReturnCases DEF Return
    <2> QED BY <1>6, <2>1 DEF Accepted, fs
  <1>10. CASE Len(fs) = 1
    <2>1. Len(rs) = Times(fs[1]) /\ \A k \in 1..Len(rs) : rs[k] = fs[1].type
      BY <1>1, <1>10, FlatOfOne DEF rs
    <2>2. rs # << >>
      BY <1>8, <1>10, EmptySeq
    <2>3. rs = << Error >> \/ (Len(rs) = 2 /\ rs[2] = Error)
      BY <1>2, <2>2
    <2>4. fs[1].type = Error
      <3>1. CASE rs = << Error >>
        <4>1. Len(rs) = 1 /\ rs[1] = Error /\ 1 \in 1..Len(rs)
          BY <3>1
        <4> QED BY <2>1, <4>1
      <3>2. CASE Len(rs) = 2 /\ rs[2] = Error
        <4>1. 2 \in 1..Len(rs)
          BY <3>2
        <4> QED BY <2>1, <3>2, <4>1
      <3> QED BY <2>3, <3>1, <3>2
    <2>5. PrintedType(fs[1]) = Error
      BY <1>5, <1>7, <1>10, <2>4
    <2>6. ~(Len(fs) = 2) /\ fs # << >>
      BY <1>3, <1>10
    <2>7. buildReturn(fs).kind # "rejected"
      BY <1>1, <1>10, <2>5, <2>6, ReturnCases DEF Return
    <2> QED BY <1>6, <2>7 DEF Accepted, fs
  <1>11. CASE Len(fs) = 2
    <2>1. /\ Len(rs) = Times(fs[1]) + Times(fs[2])
          /\ Times(fs[1]) \in Nat /\ Times(fs[1]) >= 1 /\ Times(fs[2]) \in Nat /\ Times(fs[2]) >= 1
          /\ rs[1] = fs[1].type /\ rs[Times(fs[1]) + 1] = fs[2].type
      BY <1>1, <1>11, FlatOfTwo DEF rs
    <2>2. rs # << >> /\ rs # << Error >>
      BY <2>1
    <2>3. /\ Len(rs) = 2 /\ rs[2] = Error
          /\ (rs[1] = <<"int">> \/ IsPrefix(<<"*">>, rs[1]) \/ IsPrefix(<<"[]">>, rs[1]))
      BY <1>2, <2>2
    <2>4. Times(fs[1]) = 1
      <3>1. \A a, b \in Nat : a >= 1 /\ b >= 1 /\ a + b = 2 => a = 1
        OBVIOUS
      <3> QED BY <2>1, <2>3, <3>1
    <2>5. fs[1].type = rs[1] /\ fs[2].type = Error
      BY <2>1, <2>3, <2>4
    <2>6. 1 \in 1..Len(fs) /\ 2 \in 1..Len(fs)
      BY <1>11
    <2>7. PrintedType(fs[2]) = Error /\ PrintedType(fs[1]) = Spell(rs[1]) /\ PrintedType(fs[1]) # << >>
      BY <1>5, <1>7, <2>5, <2>6
    <2>8. rs[1] \in Seq(Word)
      BY <1>8, <2>3, ElementOfSeq
    <2>9. Spell(rs[1]) = <<"int">> \/ (Spell(rs[1]) # << >> /\ Spell(rs[1])[1] \in {"*", "[]"})
      <3>1. CASE rs[1] = <<"int">>
        BY <1>7, <3>1
      <3>2. CASE IsPrefix(<<"*">>, rs[1]) \/ IsPrefix(<<"[]">>, rs[1])
        <4>1. rs[1] # << >> /\ rs[1][1] \in {"*", "[]"}
          BY <2>8, <3>2, PrefixOne
        <4>2. Len(rs[1]) >= 1 /\ 1 \in 1..Len(rs[1])
          BY <2>8, <4>1, EmptySeq, LenProperties
        <4>3. Spell(rs[1])[1] = IF rs[1][1] \in Arrays THEN "[]" ELSE rs[1][1]
          BY <2>8, <4>2, SpellTyped
        <4> QED BY <2>7, <4>1, <4>3
      <3> QED BY <2>3, <3>1, <3>2
    <2>10. Spell(rs[1]) \in Seq(Word)
      BY <2>8, SpellTyped
    <2>11. ElementOf(Spell(rs[1])).kind # "rejected"
      BY <2>9, <2>10, ElementTaken
    <2>12. buildReturn(fs) = ElementOf(PrintedType(fs[1]))
      <3>1. ~(Len(fs) = 1) /\ fs # << >>
        BY <1>3, <1>11
      <3> QED BY <1>1, <1>11, <2>7, <3>1, ReturnCases
    <2> QED BY <1>6, <2>7, <2>11, <2>12 DEF Accepted, fs
  <1>12. Len(rs) <= 2
    <2>1. CASE rs \in {<< >>, << Error >>}
      BY <2>1
    <2>2. CASE Len(rs) = 2
      BY <2>2
    <2> QED BY <1>2, <2>1, <2>2
  <1>13. Len(fs) = 0 \/ Len(fs) = 1 \/ Len(fs) = 2
    <2>1. Len(rs) \in Nat
      BY <1>8, LenProperties
    <2> QED BY <1>3, <1>8, <1>12, <2>1
  <1> QED BY <1>3, <1>9, <1>10, <1>11, <1>13

-----------------------------------------------------------------------------
(* Contexts. *)

\* The first parameter has the type of the first field.
LEMMA FirstParam ==
  ASSUME NEW fields, FieldList(fields), \A i \in DOMAIN fields : fields[i].names # << >>,
         fields # << >>
  PROVE  Params(fields) # << >> /\ Params(fields)[1].type = PrintedType(fields[1])
PROOF
  <1> DEFINE g == Groups(fields)
             ps == Params(fields)
  <1>1. Len(fields) \in Nat /\ Len(fields) # 0 /\ DOMAIN fields = 1..Len(fields)
    BY FieldsTyped
  <1>2. g \in Seq(Seq(ParamSet)) /\ Len(g) = Len(fields) /\ ps = FlattenSeq(g) /\ ps \in Seq(ParamSet)
    BY GroupsTyped, ParamsAreGroups
  <1>3. 1 \in 1..Len(fields)
    BY <1>1
  <1>4. /\ Len(g[1]) = Len(fields[1].names) /\ Len(g[1]) \in Nat
        /\ \A j \in 1..Len(g[1]) : g[1][j].type = exprToString(fields[1].type)
    BY <1>3, GroupsTyped
  <1>5. Len(fields[1].names) # 0
    BY <1>1, <1>3, FieldTyped, EmptySeq
  <1> HIDE DEF g, ps
  <1>6. g # << >>
    BY <1>1, <1>2, EmptySeq
  <1>7. PICK r \in Seq(Seq(ParamSet)) : g = <<g[1]>> \o r
    <2>1. g = <<Head(g)>> \o Tail(g) /\ Tail(g) \in Seq(Seq(ParamSet)) /\ Head(g) = g[1]
      BY <1>2, <1>6
    <2> QED BY <2>1
  <1>8. PICK a \in Seq(ParamSet) : a = g[1]
    BY <1>2, <1>3, ElementOfSeq
  <1>9. FlattenSeq(<<a>> \o r) = a \o FlattenSeq(r)
    BY FlattenCons
  <1>10. PICK b \in Seq(ParamSet) : b = FlattenSeq(r)
    BY FlattenTyped
  <1>11. ps = a \o b
    BY <1>2, <1>7, <1>8, <1>9, <1>10
  <1>12. Len(a) \in Nat /\ Len(a) >= 1 /\ Len(b) \in Nat
    BY <1>4, <1>5, <1>8, LenProperties
  <1>13. /\ Len(a \o b) = Len(a) + Len(b)
         /\ \A i \in 1..Len(a) + Len(b) : (a \o b)[i] = IF i <= Len(a) THEN a[i] ELSE b[i - Len(a)]
    BY ConcatProperties
  <1>14. 1 \in 1..Len(a) + Len(b) /\ 1 <= Len(a) /\ 1 \in 1..Len(a) /\ Len(a) + Len(b) # 0
    BY <1>12
  <1>15. ps[1] = a[1] /\ Len(ps) # 0
    BY <1>11, <1>13, <1>14
  <1>16. ps # << >>
    BY <1>2, <1>15, EmptySeq
  <1>17. a[1].type = exprToString(fields[1].type)
    BY <1>4, <1>8, <1>14
  <1> QED BY <1>15, <1>16, <1>17 DEF ps, PrintedType

\* The words of a context's type.
LEMMA ContextWords ==
  /\ ContextType \in Seq(Word) /\ Len(ContextType) = 3 /\ DOMAIN ContextType = 1..3
  /\ ToSet(ContextType) \cap Opaque = {} /\ ToSet(ContextType) \cap Arrays = {}
  /\ Complete(ContextType)
PROOF
  <1>1. "context" \in Word /\ "." \in Word /\ "Context" \in Word
    BY DEF Word, Marks
  <1>2. /\ ContextType \in Seq(Word) /\ Len(ContextType) = 3 /\ DOMAIN ContextType = 1..3
        /\ ContextType[1] = "context" /\ ContextType[2] = "." /\ ContextType[3] = "Context"
    BY <1>1 DEF ContextType
  <1>3. ToSet(ContextType) = {"context", ".", "Context"}
    BY <1>2 DEF ToSet
  <1>4. ToSet(ContextType) \cap Opaque = {} /\ ToSet(ContextType) \cap Arrays = {}
    BY <1>3, WordsAssumption
  <1>5. Complete(ContextType)
    BY <1>2, EmptySeq DEF Complete
  <1> QED BY <1>2, <1>4, <1>5

\* Exactly a context's type is printed as one.
LEMMA ContextIsPrinted ==
  ASSUME NEW t, GoType(t)
  PROVE  exprToString(t) = ContextType <=> t = ContextType
PROOF
  <1>1. ASSUME t = ContextType PROVE exprToString(t) = ContextType
    BY <1>1, ContextWords, ExprSame
  <1>2. ASSUME exprToString(t) = ContextType PROVE t = ContextType
    <2>1. ToSet(t) \cap Opaque = {}
      BY <1>2, ContextWords, ExprOpaque
    <2>2. exprToString(t) = Spell(t)
      BY <2>1, ExprClean
    <2>3. t \in Seq(Word)
      BY GoTypeWords
    <2>4. /\ Len(Spell(t)) = Len(t)
          /\ \A i \in 1..Len(t) : Spell(t)[i] = IF t[i] \in Arrays THEN "[]" ELSE t[i]
      BY <2>3, SpellTyped
    <2>5. \A i \in 1..3 : ContextType[i] # "[]"
      BY DEF ContextType
    <2>6. Len(t) = 3 /\ \A i \in 1..3 : t[i] = ContextType[i]
      BY <1>2, <2>2, <2>4, <2>5, ContextWords
    <2> QED BY <2>3, <2>6, ContextWords, SeqEqual
  <1> QED BY <1>1, <1>2

\* The parser's list of parameters and the list of declared names agree about
\* the context and the rest.
LEMMA ContextOf ==
  ASSUME NEW d \in Good, NEW f
  PROVE  LET c == extractContext(Params(d.params))
             names == NamesOf(d.params)
             bound == [j \in DOMAIN c.params |-> c.params[j].name]
         IN  /\ TakesContext(f, d) => c.ctx = names[1] /\ bound = Tail(names)
             /\ TakesNoContext(f, d) => c.ctx = Background /\ bound = names
PROOF
  <1> DEFINE ps == Params(d.params)
             names == NamesOf(d.params)
             c == extractContext(ps)
             bound == [j \in DOMAIN c.params |-> c.params[j].name]
             first == d.params[1].type
  <1>1. /\ d \in Declarations /\ FieldList(d.params)
        /\ \A i \in DOMAIN d.params : d.params[i].names # << >>
    BY GoodTyped DEF ParamsAccepted
  <1>2. ps \in Seq(ParamSet) /\ names \in Seq(STRING)
    BY <1>1, ParamsAreGroups, NamesTyped
  <1>3. [i \in DOMAIN ps |-> ps[i].name] = names
    BY <1>1, ParamsNames
  <1>4. d.params # << >> => ps # << >> /\ ps[1].type = exprToString(first)
    BY <1>1, FirstParam DEF PrintedType
  <1>5. d.params = << >> => ps = << >>
    <2>1. d.params = << >> => Groups(d.params) = << >>
      BY DEF Groups
    <2>2. FlattenSeq(<< >>) = << >>
      BY DEF FlattenSeq
    <2> QED BY <1>1, <2>1, <2>2, ParamsAreGroups
  <1>6. d.params # << >> => GoType(first) /\ first \in DeclaredTypes(d)
    <2>1. d.params # << >> => 1 \in 1..Len(d.params)
      BY <1>1, FieldsTyped
    <2> QED BY <1>1, <2>1, TypesDeclared
  <1> HIDE DEF ps, names, first
  <1>7. /\ Len(ps) \in Nat /\ DOMAIN ps = 1..Len(ps) /\ (ps # << >> => Len(ps) >= 1)
        /\ Len(names) = Len(ps) /\ \A i \in 1..Len(ps) : names[i] = ps[i].name
    <2>1. Len(ps) \in Nat /\ DOMAIN ps = 1..Len(ps) /\ (ps # << >> => Len(ps) >= 1)
      BY <1>2, LenProperties, EmptySeq
    <2>2. DOMAIN names = 1..Len(ps) /\ \A i \in 1..Len(ps) : names[i] = ps[i].name
      BY <1>3, <2>1
    <2>3. Len(names) = Len(ps)
      BY <1>2, <2>1, <2>2, LenProperties
    <2> QED BY <2>1, <2>2, <2>3
  <1>8. (ps # << >> /\ ps[1].type = ContextType) <=> (d.params # << >> /\ first = ContextType)
    BY <1>4, <1>5, <1>6, ContextIsPrinted
  <1>9. CASE d.params # << >> /\ first = ContextType
    <2>1. ps # << >> /\ ps[1].type = <<"context", ".", "Context">>
      BY <1>8, <1>9 DEF ContextType
    <2>2. c.ctx = ps[1].name /\ c.params = Tail(ps)
      BY <2>1 DEF extractContext
    <2>3. c.ctx = names[1]
      BY <1>7, <2>1, <2>2
    <2>4. /\ Tail(ps) \in Seq(ParamSet) /\ Len(Tail(ps)) = Len(ps) - 1
          /\ \A i \in 1..Len(Tail(ps)) : Tail(ps)[i] = ps[i + 1]
      BY <1>2, <2>1, HeadTailProperties
    <2>5. names # << >>
      BY <1>2, <1>7, <2>1, EmptySeq
    <2>6. /\ Tail(names) \in Seq(STRING) /\ Len(Tail(names)) = Len(names) - 1
          /\ \A i \in 1..Len(Tail(names)) : Tail(names)[i] = names[i + 1]
      BY <1>2, <2>5, HeadTailProperties
    <2>7. DOMAIN Tail(ps) = 1..(Len(ps) - 1) /\ DOMAIN Tail(names) = 1..(Len(ps) - 1)
      BY <1>7, <2>4, <2>6, LenProperties
    <2>8. \A i \in 1..(Len(ps) - 1) : Tail(ps)[i].name = Tail(names)[i]
      <3>1. ASSUME NEW i \in 1..(Len(ps) - 1) PROVE Tail(ps)[i].name = Tail(names)[i]
        <4>1. i + 1 \in 1..Len(ps)
          BY <1>7
        <4>2. Tail(ps)[i] = ps[i + 1] /\ Tail(names)[i] = names[i + 1]
          BY <1>7, <2>4, <2>6
        <4> QED BY <1>7, <4>1, <4>2
      <3> QED BY <3>1
    <2>9. bound = [j \in 1..(Len(ps) - 1) |-> Tail(ps)[j].name]
      BY <2>2, <2>7
    <2>10. \A s \in Seq(STRING) : s = [j \in DOMAIN s |-> s[j]]
      OBVIOUS
    <2>11. bound = Tail(names)
      <3>1. Tail(names) = [j \in DOMAIN Tail(names) |-> Tail(names)[j]]
        BY <2>6, <2>10
      <3> QED BY <2>7, <2>8, <2>9, <3>1
    <2>12. ~TakesNoContext(f, d)
      BY <1>9 DEF TakesNoContext, first
    <2> QED BY <2>3, <2>11, <2>12 DEF ps, names
  <1>10. CASE ~(d.params # << >> /\ first = ContextType)
    <2>1. ~(ps # << >> /\ ps[1].type = <<"context", ".", "Context">>)
      BY <1>8, <1>10 DEF ContextType
    <2>2. c.ctx = Background /\ c.params = ps
      BY <2>1 DEF extractContext
    <2>3. bound = names
      BY <1>3, <2>2
    <2>4. ~TakesContext(f, d)
      BY <1>10 DEF TakesContext, first
    <2> QED BY <2>2, <2>3, <2>4 DEF ps, names
  <1> QED BY <1>9, <1>10

-----------------------------------------------------------------------------
(* Lists. *)

\* A sequence is one of its elements.
LEMMA SeqIsSeq ==
  ASSUME NEW T, NEW s \in Seq(T)
  PROVE  IsSeq(s)
PROOF
  <1>1. Len(s) \in Nat /\ DOMAIN s = 1..Len(s)
    BY LenProperties
  <1>2. s \in [1..Len(s) -> ToSet(s)]
    BY <1>1 DEF ToSet
  <1> QED BY <1>1, <1>2, SeqDef DEF IsSeq

\* Appending keeps it.
LEMMA IsSeqAppend ==
  ASSUME NEW s, IsSeq(s), NEW x
  PROVE  /\ IsSeq(Append(s, x)) /\ Len(Append(s, x)) = Len(s) + 1 /\ Len(s) \in Nat
         /\ DOMAIN s = 1..Len(s) /\ DOMAIN Append(s, x) = 1..Len(s) + 1
         /\ Append(s, x)[Len(s) + 1] = x /\ \A i \in 1..Len(s) : Append(s, x)[i] = s[i]
PROOF
  <1> DEFINE T == ToSet(s) \cup {x}
  <1>1. s \in Seq(ToSet(s)) /\ ToSet(s) \subseteq T /\ x \in T
    BY DEF IsSeq
  <1> HIDE DEF T
  <1>2. s \in Seq(T)
    BY <1>1, SeqMonotonic
  <1>3. /\ Append(s, x) \in Seq(T) /\ Len(Append(s, x)) = Len(s) + 1 /\ Len(s) \in Nat
        /\ Append(s, x)[Len(s) + 1] = x /\ \A i \in 1..Len(s) : Append(s, x)[i] = s[i]
    BY <1>1, <1>2, AppendProperties, LenProperties
  <1>4. DOMAIN s = 1..Len(s) /\ DOMAIN Append(s, x) = 1..Len(s) + 1
    BY <1>2, <1>3, LenProperties
  <1> QED BY <1>3, <1>4, SeqIsSeq

\* So does joining.
LEMMA IsSeqConcat ==
  ASSUME NEW s, IsSeq(s), NEW t, IsSeq(t)
  PROVE  /\ IsSeq(s \o t) /\ Len(s \o t) = Len(s) + Len(t) /\ Len(s) \in Nat /\ Len(t) \in Nat
         /\ DOMAIN (s \o t) = 1..Len(s) + Len(t)
         /\ \A i \in 1..Len(s) + Len(t) : (s \o t)[i] = IF i <= Len(s) THEN s[i] ELSE t[i - Len(s)]
PROOF
  <1> DEFINE T == ToSet(s) \cup ToSet(t)
  <1>1. s \in Seq(ToSet(s)) /\ t \in Seq(ToSet(t)) /\ ToSet(s) \subseteq T /\ ToSet(t) \subseteq T
    BY DEF IsSeq
  <1> HIDE DEF T
  <1>2. s \in Seq(T) /\ t \in Seq(T)
    BY <1>1, SeqMonotonic
  <1>3. /\ s \o t \in Seq(T) /\ Len(s \o t) = Len(s) + Len(t) /\ Len(s) \in Nat /\ Len(t) \in Nat
        /\ \A i \in 1..Len(s) + Len(t) : (s \o t)[i] = IF i <= Len(s) THEN s[i] ELSE t[i - Len(s)]
    BY <1>2, ConcatProperties, LenProperties
  <1>4. DOMAIN (s \o t) = 1..Len(s) + Len(t)
    BY <1>3, LenProperties
  <1> QED BY <1>3, <1>4, SeqIsSeq

\* What a request asks for.
LEMMA QueriedIs ==
  ASSUME NEW r, IsRequest(r)
  PROVE  Queried(r) = Keep(r.declared, Queries) /\ Queried(r) \in Seq(Good)
PROOF
  <1> DEFINE s == r.declared
             S == {d \in ToSet(s) : d.query # "none"}
  <1>1. s \in Seq(Declarations) /\ Keep(s, Queries) \in Seq(Good)
    BY DEF IsRequest
  <1>2. \A i \in DOMAIN s : s[i] \in S <=> s[i] \in Queries
    BY <1>1, LenProperties, ElementOfSeq DEF ToSet, Queries
  <1> HIDE DEF s, S
  <1>3. Keep(s, S) = Keep(s, Queries)
    BY <1>1, <1>2, KeepSame
  <1> QED BY <1>1, <1>3 DEF Queried, s, S

\* What is asked of a list of requests.
LEMMA AllTyped ==
  ASSUME NEW rs, IsSeq(rs), \A i \in DOMAIN rs : IsRequest(rs[i])
  PROVE  /\ [i \in DOMAIN rs |-> Queried(rs[i])] \in Seq(Seq(Good))
         /\ Len([i \in DOMAIN rs |-> Queried(rs[i])]) = Len(rs)
         /\ All(rs) \in Seq(Good)
PROOF
  <1> DEFINE m == [i \in 1..Len(rs) |-> Queried(rs[i])]
  <1>1. Len(rs) \in Nat /\ DOMAIN rs = 1..Len(rs)
    BY LenProperties DEF IsSeq
  <1>2. m \in [1..Len(rs) -> Seq(Good)]
    BY <1>1, QueriedIs
  <1>3. m \in Seq(Seq(Good)) /\ Len(m) = Len(rs)
    BY <1>1, <1>2, SeqOfFunction
  <1> HIDE DEF m
  <1>4. FlattenSeq(m) \in Seq(Good)
    BY <1>3, FlattenTyped
  <1> QED BY <1>1, <1>3, <1>4 DEF All, m

\* One more request.
LEMMA AllAppended ==
  ASSUME NEW rs, IsSeq(rs), \A i \in DOMAIN rs : IsRequest(rs[i]), NEW r, IsRequest(r)
  PROVE  All(Append(rs, r)) = All(rs) \o Queried(r)
PROOF
  <1> DEFINE m == [i \in DOMAIN rs |-> Queried(rs[i])]
             n == [i \in DOMAIN Append(rs, r) |-> Queried(Append(rs, r)[i])]
             k == Len(rs)
  <1>1. m \in Seq(Seq(Good)) /\ Len(m) = k
    BY AllTyped
  <1>2. /\ IsSeq(Append(rs, r)) /\ k \in Nat /\ DOMAIN rs = 1..k /\ DOMAIN Append(rs, r) = 1..k + 1
        /\ Append(rs, r)[k + 1] = r /\ \A i \in 1..k : Append(rs, r)[i] = rs[i]
    BY IsSeqAppend
  <1>3. Queried(r) \in Seq(Good)
    BY QueriedIs
  <1>4. DOMAIN n = 1..k + 1 /\ n[k + 1] = Queried(r) /\ \A i \in 1..k : n[i] = m[i]
    BY <1>2
  <1> HIDE DEF m
  <1>5. /\ Append(m, Queried(r)) \in Seq(Seq(Good)) /\ Len(Append(m, Queried(r))) = k + 1
        /\ Append(m, Queried(r))[k + 1] = Queried(r)
        /\ \A i \in 1..k : Append(m, Queried(r))[i] = m[i]
    BY <1>1, <1>3, AppendProperties
  <1>6. \A i \in 1..k + 1 : n[i] = Append(m, Queried(r))[i] /\ n[i] \in Seq(Good)
    <2>1. 1..k + 1 = 1..k \cup {k + 1}
      BY <1>2
    <2>2. \A i \in 1..k : m[i] \in Seq(Good)
      BY <1>1, ElementOfSeq
    <2> QED BY <1>3, <1>4, <1>5, <2>1, <2>2
  <1>7. n \in Seq(Seq(Good)) /\ Len(n) = k + 1
    <2>1. n \in [1..k + 1 -> Seq(Good)] /\ k + 1 \in Nat
      BY <1>2, <1>4, <1>6
    <2> HIDE DEF n
    <2> QED BY <2>1, SeqOfFunction
  <1> HIDE DEF n
  <1>8. n = Append(m, Queried(r))
    BY <1>5, <1>6, <1>7, SeqEqual
  <1>9. FlattenSeq(Append(m, Queried(r))) = FlattenSeq(m) \o Queried(r)
    BY <1>1, <1>3, FlattenAppend
  <1> QED BY <1>8, <1>9 DEF All, m, n

-----------------------------------------------------------------------------
(* Reading an interface. *)

Methods == {MethodOf(d) : d \in Good}

\* The methods are those of the declarations with a query.
LEMMA StandTyped ==
  ASSUME NEW ms, NEW ds, Stand(ms, ds)
  PROVE  /\ ms \in Seq(Methods) /\ Len(ms) = Len(Keep(ds, Queries)) /\ Len(ms) \in Nat
         /\ Keep(ds, Queries) \in Seq(Good)
         /\ DOMAIN ms = 1..Len(ms)
         /\ \A i \in 1..Len(ms) : ms[i] = MethodOf(Keep(ds, Queries)[i])
PROOF
  <1> DEFINE q == Keep(ds, Queries)
             m == [i \in 1..Len(q) |-> MethodOf(q[i])]
  <1>1. q \in Seq(Good) /\ ms = [i \in DOMAIN q |-> MethodOf(q[i])]
    BY DEF Stand
  <1> HIDE DEF q
  <1>2. Len(q) \in Nat /\ DOMAIN q = 1..Len(q) /\ \A i \in 1..Len(q) : q[i] \in Good
    BY <1>1, LenProperties, ElementOfSeq
  <1>3. m \in [1..Len(q) -> Methods]
    BY <1>2 DEF Methods
  <1>4. m \in Seq(Methods) /\ Len(m) = Len(q)
    BY <1>2, <1>3, SeqOfFunction
  <1>5. ms = m
    BY <1>1, <1>2
  <1> QED BY <1>1, <1>2, <1>4, <1>5 DEF q

\* Nothing stands for nothing.
LEMMA StandEmpty == Stand(<< >>, << >>)
PROOF
  <1>1. Keep(<< >>, Queries) = << >> /\ << >> \in Seq(Good)
    BY KeepEmpty, EmptySeq
  <1>2. [i \in DOMAIN << >> |-> MethodOf(<< >>[i])] = << >>
    OBVIOUS
  <1> QED BY <1>1, <1>2 DEF Stand

\* A method without a query is skipped.
LEMMA StandSkip ==
  ASSUME NEW ms, NEW ds \in Seq(Declarations), Stand(ms, ds),
         NEW d \in Declarations, d.query = "none"
  PROVE  Stand(ms, Append(ds, d))
PROOF
  <1>1. d \notin Queries
    BY DEF Queries
  <1>2. Keep(Append(ds, d), Queries) = Keep(ds, Queries)
    BY <1>1, KeepAppend
  <1> QED BY <1>2 DEF Stand

\* One with a query is taken.
LEMMA StandTake ==
  ASSUME NEW ms, NEW ds \in Seq(Declarations), Stand(ms, ds), NEW d \in Good
  PROVE  Stand(Append(ms, MethodOf(d)), Append(ds, d))
PROOF
  <1> DEFINE q == Keep(ds, Queries)
             x == MethodOf(d)
             k == Len(ms)
  <1>1. d \in Queries /\ d \in Declarations
    BY DEF Good, Queries
  <1>2. Keep(Append(ds, d), Queries) = Append(q, d)
    BY <1>1, KeepAppend
  <1>3. /\ ms \in Seq(Methods) /\ k = Len(q) /\ k \in Nat /\ q \in Seq(Good)
        /\ \A i \in 1..k : ms[i] = MethodOf(q[i])
    BY StandTyped
  <1>4. x \in Methods
    BY DEF Methods
  <1> HIDE DEF q, x
  <1>5. /\ Append(ms, x) \in Seq(Methods) /\ Len(Append(ms, x)) = k + 1
        /\ Append(ms, x)[k + 1] = x /\ \A i \in 1..k : Append(ms, x)[i] = ms[i]
    BY <1>3, <1>4, AppendProperties
  <1>6. /\ Append(q, d) \in Seq(Good) /\ Len(Append(q, d)) = k + 1
        /\ Append(q, d)[k + 1] = d /\ \A i \in 1..k : Append(q, d)[i] = q[i]
    BY <1>3, AppendProperties
  <1> DEFINE v == Append(q, d)
             m == [i \in 1..k + 1 |-> MethodOf(v[i])]
  <1>7. \A i \in 1..k + 1 : Append(ms, x)[i] = MethodOf(v[i]) /\ MethodOf(v[i]) \in Methods
    <2>1. 1..k + 1 = 1..k \cup {k + 1}
      BY <1>3
    <2>2. \A i \in 1..k : ms[i] \in Methods
      BY <1>3, ElementOfSeq
    <2> QED BY <1>3, <1>4, <1>5, <1>6, <2>1, <2>2 DEF x
  <1> HIDE DEF v
  <1>8. m \in Seq(Methods) /\ Len(m) = k + 1
    <2>1. m \in [1..k + 1 -> Methods] /\ k + 1 \in Nat
      BY <1>3, <1>7
    <2> HIDE DEF m
    <2> QED BY <2>1, SeqOfFunction
  <1>9. Append(ms, x) = m
    <2>1. \A i \in 1..k + 1 : m[i] = MethodOf(v[i])
      OBVIOUS
    <2> HIDE DEF m
    <2> QED BY <1>5, <1>7, <1>8, <2>1, SeqEqual
  <1>10. DOMAIN v = 1..k + 1
    BY <1>3, <1>6, LenProperties DEF v
  <1> QED BY <1>2, <1>6, <1>9, <1>10 DEF Stand, v, q, x

\* A state in which the file's entries are parsed: what is not read now stays.
LEMMA ParseKeeps ==
  ASSUME GInv, Parse, ValidSources', Reading'
  PROVE  GInv'
PROOF
  <1>1. /\ state = "parse" /\ UNCHANGED <<dialect, requests, todo, compiled, out>>
        /\ state' = IF parser' \in {"rejected", "missing"} THEN "failed" ELSE state
    BY DEF Parse
  <1>2. Requested'
    BY <1>1 DEF GInv, Requested
  <1>3. Jobs'
    <2>1. All(requests)' = All(requests)
      BY <1>1
    <2>2. \A m : AppendsReturning(m)' = AppendsReturning(m)
      BY <1>1 DEF AppendsReturning
    <2> QED BY <1>1, <2>1, <2>2 DEF GInv, Jobs, IsJob
  <1>4. Passes'
    BY <1>1 DEF GInv, Passes
  <1> QED BY <1>2, <1>3, <1>4 DEF GInv

\* Reading keeps the methods and the declarations together.
LEMMA ParseReads ==
  ASSUME GInv, Parse
  PROVE  Reading'
PROOF
  <1> USE DEF GInv
  <1>1. Reading
    OBVIOUS
  <1>2. ASSUME NEW dir \in Dirs, FindInterface(dir) PROVE Reading'
    <2>1. parser' = "reading" /\ declared' = << >> /\ methods' = << >> /\ read' = read
      BY <1>2 DEF FindInterface
    <2>2. << >> \in Seq(Declarations)
      BY EmptySeq
    <2>3. Stand(methods', declared')
      BY <2>1, StandEmpty
    <2>4. Stand(methods, declared)'
      BY <2>3
    <2>5. file'.imports \in Seq(ImportSet)
      BY <1>2, DirsAssumption DEF FindInterface, Declaring, ImportSet
    <2> QED BY <1>1, <2>1, <2>2, <2>4, <2>5 DEF Reading
  <1>3. ASSUME parser' = "missing", UNCHANGED <<declared, methods, read>> PROVE Reading'
    BY <1>1, <1>3 DEF Reading
  <1>4. ASSUME NEW d \in Declarations, ReadsMethod(d)
        PROVE  declared' \in Seq(Declarations) /\ read' \in 0..MaxMethods /\ file' = file
    <2>1. declared' = Append(declared, d) /\ read' = read + 1 /\ read < MaxMethods /\ file' = file
      BY <1>4 DEF ReadsMethod
    <2>2. declared \in Seq(Declarations) /\ read \in 0..MaxMethods
      BY <1>1 DEF Reading
    <2>3. read + 1 \in 0..MaxMethods
      BY <2>1, <2>2, BoundAssumption
    <2> QED BY <2>1, <2>2, <2>3, AppendProperties
  <1>5. ASSUME NEW d \in Declarations, SkipMethod(d) PROVE Reading'
    <2>1. /\ ReadsMethod(d) /\ d.query = "none" /\ UNCHANGED <<parser, methods>>
          /\ parser = "reading" /\ declared' = Append(declared, d)
      BY <1>5 DEF SkipMethod, ReadsMethod
    <2>2. Stand(methods, declared) /\ declared \in Seq(Declarations)
      BY <1>1, <2>1 DEF Reading
    <2>3. Stand(methods', declared')
      BY <2>1, <2>2, StandSkip
    <2>4. Stand(methods, declared)'
      BY <2>3
    <2> QED BY <1>1, <1>4, <2>1, <2>4 DEF Reading
  <1>6. ASSUME NEW d \in Declarations, TakeMethod(d) PROVE Reading'
    <2>1. /\ ReadsMethod(d) /\ d.query # "none" /\ Accepted(d) /\ UNCHANGED parser
          /\ parser = "reading" /\ declared' = Append(declared, d)
          /\ methods' = Append(methods, MethodOf(d))
      BY <1>6 DEF TakeMethod, ReadsMethod, MethodOf
    <2>2. Stand(methods, declared) /\ declared \in Seq(Declarations)
      BY <1>1, <2>1 DEF Reading
    <2>3. d \in Good
      BY <2>1 DEF Good, Queries
    <2>4. Stand(methods', declared')
      BY <2>1, <2>2, <2>3, StandTake
    <2>5. Stand(methods, declared)'
      BY <2>4
    <2>6. \A i \in DOMAIN methods' : methods'[i].kind \in QueryKinds /\ methods'[i].return.kind \in ReturnKinds
      <3>1. methods' \in Seq(Methods) /\ DOMAIN methods' = 1..Len(methods')
        BY <2>4, StandTyped
      <3>2. \A i \in 1..Len(methods') : methods'[i] \in Methods
        BY <3>1, ElementOfSeq
      <3>3. \A m \in Methods : m.kind \in QueryKinds /\ m.return.kind \in ReturnKinds
        BY ResultsArePrinted DEF Methods
      <3> QED BY <3>1, <3>2, <3>3
    <2> QED BY <1>1, <1>4, <2>1, <2>5, <2>6 DEF Reading
  <1>7. ASSUME NEW d \in Declarations, RejectMethod(d) PROVE Reading'
    <2>1. /\ ReadsMethod(d) /\ ~Accepted(d) /\ UNCHANGED methods
          /\ parser' = "rejected" /\ declared' = Append(declared, d)
      BY <1>7 DEF RejectMethod, ReadsMethod
    <2>2. declared \in Seq(Declarations)
      BY <1>1 DEF Reading
    <2>3. /\ Append(declared, d) # << >> /\ Last(Append(declared, d)) = d
      <3>1. /\ Len(Append(declared, d)) = Len(declared) + 1 /\ Append(declared, d)[Len(declared) + 1] = d
            /\ Append(declared, d) # << >>
        BY <2>2, AppendProperties
      <3> QED BY <3>1 DEF Last
    <2> QED BY <1>1, <1>4, <2>1, <2>3 DEF Reading
  <1>8. ASSUME EndInterface PROVE Reading'
    <2>1. parser = "reading" /\ parser' = "parsed" /\ UNCHANGED <<file, declared, methods, read>>
      BY <1>8 DEF EndInterface
    <2>2. Stand(methods, declared)' <=> Stand(methods, declared)
      BY <2>1
    <2> QED BY <1>1, <2>1, <2>2 DEF Reading
  <1>9. \/ \E dir \in Dirs : FindInterface(dir) \/ NotFound(dir)
        \/ ReadDirFails
        \/ \E d \in Declarations : SkipMethod(d) \/ TakeMethod(d) \/ RejectMethod(d)
        \/ EndInterface
    BY DEF Parse, ReadMethod
  <1>10. ASSUME NEW dir \in Dirs, NotFound(dir) PROVE Reading'
    BY <1>3, <1>10 DEF NotFound
  <1>11. ASSUME ReadDirFails PROVE Reading'
    BY <1>3, <1>11 DEF ReadDirFails
  <1> QED BY <1>2, <1>5, <1>6, <1>7, <1>8, <1>9, <1>10, <1>11

-----------------------------------------------------------------------------
(* The two passes. *)

\* A job for each method.
LEMMA AddedJobs ==
  ASSUME NEW ms \in Seq(Methods), NEW n
  PROVE  LET added == [i \in DOMAIN ms |-> [request |-> n, method |-> ms[i]]]
         IN  /\ IsSeq(added) /\ Len(added) = Len(ms)
             /\ \A i \in 1..Len(ms) : added[i].request = n /\ added[i].method = ms[i]
PROOF
  <1> DEFINE J == {[request |-> n, method |-> ms[i]] : i \in 1..Len(ms)}
             m == [i \in 1..Len(ms) |-> [request |-> n, method |-> ms[i]]]
             added == [i \in DOMAIN ms |-> [request |-> n, method |-> ms[i]]]
  <1>1. Len(ms) \in Nat /\ DOMAIN ms = 1..Len(ms)
    BY LenProperties
  <1>2. m \in [1..Len(ms) -> J]
    OBVIOUS
  <1>3. added = m /\ \A i \in 1..Len(ms) : m[i].request = n /\ m[i].method = ms[i]
    BY <1>1
  <1> HIDE DEF m, J, added
  <1>4. m \in Seq(J) /\ Len(m) = Len(ms)
    BY <1>1, <1>2, SeqOfFunction
  <1>5. /\ IsSeq(added) /\ Len(added) = Len(ms)
        /\ \A i \in 1..Len(ms) : added[i].request = n /\ added[i].method = ms[i]
    BY <1>3, <1>4, SeqIsSeq
  <1> QED BY <1>5 DEF added

\* The jobs of one more request, after those of the others.
LEMMA JobsAdded ==
  ASSUME NEW rs, IsSeq(rs), \A i \in DOMAIN rs : IsRequest(rs[i]), NEW r, IsRequest(r),
         NEW ms, Stand(ms, r.declared),
         NEW jobs, IsSeq(jobs), Len(jobs) = Len(All(rs)), \A i \in DOMAIN jobs : IsJob(jobs[i], i, rs)
  PROVE  LET new == Append(rs, r)
             all == jobs \o [i \in DOMAIN ms |-> [request |-> Len(new), method |-> ms[i]]]
         IN  /\ IsSeq(new) /\ \A i \in DOMAIN new : IsRequest(new[i])
             /\ IsSeq(all) /\ Len(all) = Len(All(new)) /\ \A i \in DOMAIN all : IsJob(all[i], i, new)
PROOF
  <1> DEFINE new == Append(rs, r)
             q == Keep(r.declared, Queries)
             added == [i \in DOMAIN ms |-> [request |-> Len(new), method |-> ms[i]]]
             all == jobs \o added
             old == All(rs)
  <1>1. /\ IsSeq(new) /\ Len(new) = Len(rs) + 1 /\ Len(rs) \in Nat
        /\ DOMAIN rs = 1..Len(rs) /\ DOMAIN new = 1..Len(rs) + 1
        /\ new[Len(rs) + 1] = r /\ \A i \in 1..Len(rs) : new[i] = rs[i]
    BY IsSeqAppend
  <1>2. \A i \in DOMAIN new : IsRequest(new[i])
    <2>1. 1..Len(rs) + 1 = 1..Len(rs) \cup {Len(rs) + 1}
      BY <1>1
    <2> QED BY <1>1, <2>1
  <1>3. /\ ms \in Seq(Methods) /\ Len(ms) = Len(q) /\ Len(ms) \in Nat /\ q \in Seq(Good)
        /\ DOMAIN ms = 1..Len(ms) /\ \A i \in 1..Len(ms) : ms[i] = MethodOf(q[i])
    BY StandTyped
  <1>4. Queried(r) = q
    BY QueriedIs
  <1>5. All(new) = old \o q /\ old \in Seq(Good)
    BY <1>4, AllAppended, AllTyped
  <1>6. \A i \in 1..Len(ms) : q[i] \in ToSet(r.declared)
    <2>1. r.declared \in Seq(Declarations)
      BY DEF IsRequest
    <2>2. ToSet(q) = ToSet(r.declared) \cap Queries
      BY <2>1, KeepElements
    <2>3. \A i \in 1..Len(q) : q[i] \in ToSet(q)
      BY <1>3, LenProperties DEF ToSet
    <2> QED BY <1>3, <2>2, <2>3
  <1> HIDE DEF new, q, old
  <1>7. /\ IsSeq(added) /\ Len(added) = Len(ms)
        /\ \A i \in 1..Len(ms) : added[i].request = Len(new) /\ added[i].method = ms[i]
    BY <1>3, AddedJobs
  <1> HIDE DEF added
  <1>8. /\ IsSeq(all) /\ Len(all) = Len(jobs) + Len(ms) /\ Len(jobs) \in Nat
        /\ DOMAIN all = 1..Len(jobs) + Len(ms) /\ DOMAIN jobs = 1..Len(jobs)
        /\ \A i \in 1..Len(jobs) + Len(ms) : all[i] = IF i <= Len(jobs) THEN jobs[i] ELSE added[i - Len(jobs)]
    <2>1. DOMAIN jobs = 1..Len(jobs)
      BY LenProperties DEF IsSeq
    <2>2. /\ IsSeq(jobs \o added) /\ Len(jobs \o added) = Len(jobs) + Len(added) /\ Len(jobs) \in Nat
          /\ DOMAIN (jobs \o added) = 1..Len(jobs) + Len(added)
          /\ \A i \in 1..Len(jobs) + Len(added) :
               (jobs \o added)[i] = IF i <= Len(jobs) THEN jobs[i] ELSE added[i - Len(jobs)]
      BY <1>7, IsSeqConcat
    <2> QED BY <1>7, <2>1, <2>2
  <1>9. /\ Len(All(new)) = Len(jobs) + Len(ms)
        /\ \A i \in 1..Len(jobs) + Len(ms) : All(new)[i] = IF i <= Len(jobs) THEN old[i] ELSE q[i - Len(jobs)]
    <2>1. /\ Len(old \o q) = Len(old) + Len(q)
          /\ \A i \in 1..Len(old) + Len(q) : (old \o q)[i] = IF i <= Len(old) THEN old[i] ELSE q[i - Len(old)]
      BY <1>3, <1>5, ConcatProperties
    <2>2. Len(old) = Len(jobs) /\ Len(q) = Len(ms)
      BY <1>3 DEF old
    <2> QED BY <1>5, <2>1, <2>2
  <1> HIDE DEF all
  <1>10. ASSUME NEW i \in 1..Len(jobs) PROVE IsJob(all[i], i, new)
    <2>1. i \in 1..Len(jobs) + Len(ms) /\ i <= Len(jobs)
      BY <1>3, <1>8
    <2>2. all[i] = jobs[i] /\ All(new)[i] = old[i]
      BY <1>8, <1>9, <2>1
    <2>3. IsJob(jobs[i], i, rs)
      BY <1>8
    <2>4. /\ jobs[i].request \in 1..Len(rs) /\ old[i] \in ToSet(rs[jobs[i].request].declared)
          /\ jobs[i].method = MethodOf(old[i])
      BY <1>1, <2>3 DEF IsJob, old
    <2>5. jobs[i].request \in DOMAIN new /\ new[jobs[i].request] = rs[jobs[i].request]
      BY <1>1, <2>4
    <2> QED BY <2>2, <2>4, <2>5 DEF IsJob
  <1>11. ASSUME NEW i \in 1..Len(ms) PROVE IsJob(all[Len(jobs) + i], Len(jobs) + i, new)
    <2>1. Len(jobs) + i \in 1..Len(jobs) + Len(ms) /\ ~(Len(jobs) + i <= Len(jobs)) /\ (Len(jobs) + i) - Len(jobs) = i
      BY <1>3, <1>8
    <2>2. all[Len(jobs) + i] = added[i] /\ All(new)[Len(jobs) + i] = q[i]
      BY <1>8, <1>9, <2>1
    <2>3. added[i].request = Len(new) /\ added[i].method = MethodOf(q[i]) /\ q[i] \in ToSet(r.declared)
      BY <1>3, <1>6, <1>7
    <2>4. Len(new) \in DOMAIN new /\ new[Len(new)] = r
      BY <1>1
    <2> QED BY <2>2, <2>3, <2>4 DEF IsJob
  <1>12. \A i \in DOMAIN all : IsJob(all[i], i, new)
    <2>1. ASSUME NEW i \in 1..Len(jobs) + Len(ms) PROVE IsJob(all[i], i, new)
      <3>1. CASE i <= Len(jobs)
        <4>1. i \in 1..Len(jobs)
          BY <1>8, <3>1
        <4> QED BY <1>10, <4>1
      <3>2. CASE ~(i <= Len(jobs))
        <4>1. PICK k \in 1..Len(ms) : i = Len(jobs) + k
          <5>1. i - Len(jobs) \in 1..Len(ms) /\ i = Len(jobs) + (i - Len(jobs))
            BY <1>3, <1>8, <3>2
          <5> QED BY <5>1
        <4> QED BY <1>11, <4>1
      <3> QED BY <3>1, <3>2
    <2> QED BY <1>8, <2>1
  <1> QED BY <1>1, <1>2, <1>8, <1>9, <1>12 DEF all, added, new

\* A parsed interface becomes a request.
LEMMA AddKeeps ==
  ASSUME GInv, AddRequest, ValidSources'
  PROVE  GInv'
PROOF
  <1> DEFINE r == [iface |-> Head(entries).iface, struct |-> Head(entries).struct, file |-> file,
                   declared |-> declared, methods |-> methods, imports |-> usedImports(file, methods)]
  <1>1. /\ state = "parse" /\ parser = "parsed" /\ requests' = Append(requests, r)
        /\ todo' = todo \o [i \in DOMAIN methods |-> [request |-> Len(requests'), method |-> methods[i]]]
        /\ state' \in {"compile", "parse"} /\ parser' = "idle"
        /\ UNCHANGED <<declared, methods, read, dialect, compiled, out>>
    BY DEF AddRequest
  <1>2. r.declared = declared /\ r.file = file /\ r.imports = usedImports(file, methods)
    OBVIOUS
  <1> HIDE DEF r
  <1>3. compiled = << >> /\ Len(compiled) = 0
    BY <1>1, EmptySeq DEF GInv, Passes
  <1>4. Stand(methods, declared) /\ declared \in Seq(Declarations) /\ file.imports \in Seq(ImportSet)
    BY <1>1 DEF GInv, Reading
  <1>5. IsRequest(r)
    <2>1. Keep(declared, Queries) \in Seq(Good)
      BY <1>4, StandTyped
    <2>2. \A i \in DOMAIN declared : Valid(file, declared[i])
      BY DEF GInv, ValidSources
    <2>3. methods = MethodsOf(declared)
      BY <1>4 DEF Stand, MethodsOf
    <2> QED BY <1>2, <1>4, <2>1, <2>2, <2>3 DEF IsRequest
  <1>6. /\ IsSeq(requests) /\ \A i \in DOMAIN requests : IsRequest(requests[i])
    BY DEF GInv, Requested
  <1>7. /\ IsSeq(todo) /\ Len(todo) = Len(All(requests)) /\ \A i \in DOMAIN todo : IsJob(todo[i], i, requests)
    <2>1. /\ IsSeq(todo) /\ 0 + Len(todo) = Len(All(requests))
          /\ \A i \in DOMAIN todo : IsJob(todo[i], 0 + i, requests)
      BY <1>3 DEF GInv, Jobs
    <2>2. Len(todo) \in Nat /\ DOMAIN todo = 1..Len(todo)
      BY <2>1, LenProperties DEF IsSeq
    <2>3. 0 + Len(todo) = Len(todo) /\ \A i \in 1..Len(todo) : 0 + i = i
      BY <2>2
    <2> QED BY <2>1, <2>2, <2>3
  <1>8. /\ IsSeq(requests') /\ \A i \in DOMAIN requests' : IsRequest(requests'[i])
        /\ IsSeq(todo') /\ Len(todo') = Len(All(requests')) /\ \A i \in DOMAIN todo' : IsJob(todo'[i], i, requests')
    <2> DEFINE new == Append(requests, r)
               all == todo \o [i \in DOMAIN methods |-> [request |-> Len(new), method |-> methods[i]]]
    <2>1. Stand(methods, r.declared)
      BY <1>2, <1>4
    <2>2. /\ IsSeq(new) /\ \A i \in DOMAIN new : IsRequest(new[i])
          /\ IsSeq(all) /\ Len(all) = Len(All(new)) /\ \A i \in DOMAIN all : IsJob(all[i], i, new)
      BY <1>5, <1>6, <1>7, <2>1, JobsAdded
    <2>3. requests' = new /\ todo' = all
      BY <1>1
    <2> HIDE DEF new, all
    <2> QED BY <2>2, <2>3
  <1>9. Requested'
    BY <1>8 DEF Requested
  <1>10. Jobs'
    <2>1. Len(todo') \in Nat /\ DOMAIN todo' = 1..Len(todo')
      BY <1>8, LenProperties DEF IsSeq
    <2>2. Len(compiled') + Len(todo') = Len(todo') /\ \A i \in DOMAIN todo' : Len(compiled') + i = i
      BY <1>1, <1>3, <2>1
    <2>3. DOMAIN compiled' = {} /\ IsSeq(compiled')
      <3>1. << >> \in Seq({}) /\ DOMAIN << >> = {}
        BY EmptySeq
      <3> QED BY <1>1, <1>3, <3>1, SeqIsSeq
    <2> QED BY <1>8, <2>2, <2>3 DEF Jobs
  <1>11. Reading'
    BY <1>1 DEF GInv, Reading
  <1>12. Passes'
    BY <1>1, <1>3 DEF GInv, Passes
  <1> QED BY <1>9, <1>10, <1>11, <1>12 DEF GInv

\* A compiled method stands for what it stood for.
LEMMA CompileKeeps ==
  ASSUME GInv, CompileMethod, ValidSources'
  PROVE  GInv'
PROOF
  <1> DEFINE m == Head(todo).method
             used == extractContext(m.params)
  <1>1. compiled' = Append(compiled,
          [request |-> Head(todo).request, method |-> m, ctx |-> used.ctx, bound |-> used.params,
           strconv |-> dialect = "postgres" /\ "binds" \in m.sql, returning |-> AppendsReturning(m)])
    BY DEF CompileMethod
  <1>2. /\ state = "compile" /\ todo # << >> /\ todo' = Tail(todo)
        /\ UNCHANGED <<parserVars, dialect, entries, requests, state, out>>
    BY DEF CompileMethod
  <1>3. PICK c :
          /\ compiled' = Append(compiled, c)
          /\ c.request = Head(todo).request /\ c.method = Head(todo).method
          /\ c.ctx = extractContext(c.method.params).ctx /\ c.bound = extractContext(c.method.params).params
          /\ c.returning = AppendsReturning(c.method)
    <2> DEFINE c == [request |-> Head(todo).request, method |-> m, ctx |-> used.ctx, bound |-> used.params,
                     strconv |-> dialect = "postgres" /\ "binds" \in m.sql, returning |-> AppendsReturning(m)]
    <2>1. /\ c.request = Head(todo).request /\ c.method = m /\ c.ctx = used.ctx /\ c.bound = used.params
          /\ c.returning = AppendsReturning(m)
      OBVIOUS
    <2>2. compiled' = Append(compiled, c)
      BY <1>1
    <2> HIDE DEF c
    <2> QED BY <2>1, <2>2
  <1>4. /\ IsSeq(todo) /\ IsSeq(compiled) /\ Len(compiled) + Len(todo) = Len(All(requests))
        /\ \A i \in DOMAIN todo : IsJob(todo[i], Len(compiled) + i, requests)
        /\ \A i \in DOMAIN compiled :
             /\ IsJob(compiled[i], i, requests)
             /\ compiled[i].ctx = extractContext(compiled[i].method.params).ctx
             /\ compiled[i].bound = extractContext(compiled[i].method.params).params
             /\ compiled[i].returning = AppendsReturning(compiled[i].method)
    BY DEF GInv, Jobs
  <1>5. /\ Tail(todo) \in Seq(ToSet(todo)) /\ Len(Tail(todo)) = Len(todo) - 1 /\ Len(todo) \in Nat
        /\ \A i \in 1..(Len(todo) - 1) : Tail(todo)[i] = todo[i + 1]
        /\ DOMAIN Tail(todo) = 1..(Len(todo) - 1) /\ DOMAIN todo = 1..Len(todo)
        /\ Len(todo) >= 1 /\ Head(todo) = todo[1]
    <2>1. todo \in Seq(ToSet(todo))
      BY <1>4 DEF IsSeq
    <2>2. /\ Tail(todo) \in Seq(ToSet(todo)) /\ Len(Tail(todo)) = Len(todo) - 1
          /\ \A i \in 1..Len(Tail(todo)) : Tail(todo)[i] = todo[i + 1]
      BY <1>2, <2>1, HeadTailProperties
    <2>3. Len(todo) \in Nat /\ Len(todo) >= 1 /\ DOMAIN todo = 1..Len(todo)
      BY <1>2, <2>1, LenProperties, EmptySeq
    <2>4. DOMAIN Tail(todo) = 1..(Len(todo) - 1)
      BY <2>2, LenProperties
    <2>5. Head(todo) = todo[1]
      OBVIOUS
    <2> QED BY <2>2, <2>3, <2>4, <2>5
  <1>6. /\ IsSeq(compiled') /\ Len(compiled') = Len(compiled) + 1 /\ Len(compiled) \in Nat
        /\ DOMAIN compiled = 1..Len(compiled) /\ DOMAIN compiled' = 1..Len(compiled) + 1
        /\ compiled'[Len(compiled) + 1] = c /\ \A i \in 1..Len(compiled) : compiled'[i] = compiled[i]
    BY <1>3, <1>4, IsSeqAppend
  <1>7. IsSeq(todo') /\ Len(todo') = Len(todo) - 1 /\ DOMAIN todo' = 1..(Len(todo) - 1)
        /\ \A i \in 1..(Len(todo) - 1) : todo'[i] = todo[i + 1]
    BY <1>2, <1>5, SeqIsSeq
  <1>8. Len(compiled') + Len(todo') = Len(All(requests))
    <2>1. \A a, b \in Nat : (a + 1) + (b - 1) = a + b
      OBVIOUS
    <2>2. Len(compiled') = Len(compiled) + 1 /\ Len(todo') = Len(todo) - 1
      BY <1>6, <1>7
    <2>3. Len(compiled) \in Nat /\ Len(todo) \in Nat
      BY <1>5, <1>6
    <2> QED BY <1>4, <2>1, <2>2, <2>3
  <1>9. ASSUME NEW i \in DOMAIN todo' PROVE IsJob(todo'[i], Len(compiled') + i, requests)
    <2>0. \A a, b \in Nat : \A k \in 1..(b - 1) : k + 1 \in 1..b /\ (a + 1) + k = a + (k + 1)
      OBVIOUS
    <2>2. i \in 1..(Len(todo) - 1) /\ Len(compiled) \in Nat /\ Len(todo) \in Nat
      BY <1>5, <1>6, <1>7
    <2>3. Len(compiled') = Len(compiled) + 1 /\ todo'[i] = todo[i + 1]
      BY <1>6, <1>7, <2>2
    <2>1. /\ i + 1 \in 1..Len(todo) /\ Len(compiled') + i = Len(compiled) + (i + 1)
          /\ todo'[i] = todo[i + 1]
      BY <2>0, <2>2, <2>3
    <2> QED BY <1>4, <1>5, <2>1
  <1>10. IsJob(c, Len(compiled) + 1, requests)
    <2>1. IsJob(todo[1], Len(compiled) + 1, requests)
      BY <1>4, <1>5
    <2> QED BY <1>3, <1>5, <2>1 DEF IsJob
  <1>11. ASSUME NEW i \in DOMAIN compiled'
         PROVE  /\ IsJob(compiled'[i], i, requests)
                /\ compiled'[i].ctx = extractContext(compiled'[i].method.params).ctx
                /\ compiled'[i].bound = extractContext(compiled'[i].method.params).params
                /\ compiled'[i].returning = AppendsReturning(compiled'[i].method)
    <2>1. CASE i \in 1..Len(compiled)
      BY <1>4, <1>6, <2>1
    <2>2. CASE i = Len(compiled) + 1
      <3>1. compiled'[i] = c
        BY <1>6, <2>2
      <3> QED BY <1>3, <1>10, <2>2, <3>1
    <2>3. i \in 1..Len(compiled) \/ i = Len(compiled) + 1
      BY <1>6
    <2> QED BY <2>1, <2>2, <2>3
  <1>12. Jobs'
    <2>1. requests' = requests /\ dialect' = dialect
      BY <1>2
    <2>2. \A x : AppendsReturning(x)' = AppendsReturning(x)
      BY <2>1 DEF AppendsReturning
    <2>3. \A i \in DOMAIN todo' : IsJob(todo'[i], Len(compiled') + i, requests')
      BY <1>9, <2>1
    <2>4. \A i \in DOMAIN compiled' :
             /\ IsJob(compiled'[i], i, requests')
             /\ compiled'[i].ctx = extractContext(compiled'[i].method.params).ctx
             /\ compiled'[i].bound = extractContext(compiled'[i].method.params).params
             /\ compiled'[i].returning = AppendsReturning(compiled[i].method)'
      BY <1>11, <2>1 DEF AppendsReturning
    <2> QED BY <1>6, <1>7, <1>8, <2>1, <2>3, <2>4 DEF Jobs
  <1>13. Reading' /\ Requested'
    BY <1>2 DEF GInv, Reading, Requested, parserVars, Stand
  <1>14. Passes'
    BY <1>2 DEF GInv, Passes, parserVars
  <1> QED BY <1>12, <1>13, <1>14 DEF GInv

\* What changes only the state of the generator and the file.
LEMMA RestKeeps ==
  ASSUME GInv, UNCHANGED <<parserVars, dialect, requests, todo, compiled>>, Passes'
  PROVE  GInv'
PROOF
  <1>1. Reading' /\ Requested' /\ ValidSources'
    BY DEF GInv, Reading, Requested, parserVars, Stand, ValidSources
  <1>2. Jobs'
    <2>1. \A x : AppendsReturning(x)' = AppendsReturning(x)
      BY DEF AppendsReturning
    <2> QED BY <2>1 DEF GInv, Jobs
  <1> QED BY <1>1, <1>2 DEF GInv

\* Printed is a function of the requests, the dialect and the compiled methods.
LEMMA PrintedStays ==
  ASSUME UNCHANGED <<dialect, requests, compiled>>
  PROVE  Printed' = Printed /\ Formats(Printed)' = Formats(Printed)
PROOF
  <1>1. \A m : TemplateOf(m)' = TemplateOf(m)
    BY DEF TemplateOf
  <1>2. \A m : Results(m)' = Results(m)
    BY <1>1 DEF Results
  <1>3. \A c : PackagesOf(c)' = PackagesOf(c)
    BY <1>1 DEF PackagesOf
  <1>4. \A c : renderMethod(c)' = renderMethod(c)
    BY <1>1, <1>2, <1>3 DEF renderMethod
  <1>5. buildImportBlock' = buildImportBlock
    BY DEF buildImportBlock
  <1>6. Printed' = Printed
    BY <1>4, <1>5 DEF Printed
  <1> QED BY <1>6 DEF Formats

\* Initially nothing is read.
LEMMA InitGInv == Init => GInv
PROOF
  <1> SUFFICES ASSUME Init PROVE GInv
    OBVIOUS
  <1>1. /\ parser = "idle" /\ declared = << >> /\ methods = << >> /\ read = 0
        /\ requests = << >> /\ todo = << >> /\ compiled = << >> /\ state = "parse"
    BY DEF Init, ParserInit
  <1>2. << >> \in Seq({}) /\ DOMAIN << >> = {} /\ Len(<< >>) = 0 /\ << >> \in Seq(Declarations)
    BY EmptySeq
  <1>3. IsSeq(<< >>)
    BY <1>2, SeqIsSeq
  <1>4. All(<< >>) = << >>
    BY DEF All, FlattenSeq
  <1>5. ValidSources
    BY <1>1, <1>2 DEF ValidSources
  <1>6. Reading
    BY <1>1, <1>2, BoundAssumption DEF Reading
  <1>7. Requested
    BY <1>1, <1>2, <1>3 DEF Requested
  <1>8. Jobs
    BY <1>1, <1>2, <1>3, <1>4 DEF Jobs
  <1>9. Passes
    BY <1>1 DEF Passes
  <1> QED BY <1>5, <1>6, <1>7, <1>8, <1>9 DEF GInv

\* What the parser took, what is to be compiled and what is compiled stand for
\* the declarations that have a query, in their order, all through the
\* generation (parser.go:231-271, generator.go:39-100).
THEOREM FileInvariance == GoSpec => []GInv
PROOF
  <1>1. Init => GInv
    BY InitGInv
  <1>2. GInv /\ [Next /\ ValidSources']_vars => GInv'
    <2> SUFFICES ASSUME GInv, [Next /\ ValidSources']_vars PROVE GInv'
      OBVIOUS
    <2>1. CASE Parse /\ ValidSources'
      BY <2>1, ParseKeeps, ParseReads
    <2>2. CASE AddRequest /\ ValidSources'
      BY <2>2, AddKeeps
    <2>3. CASE CompileMethod /\ ValidSources'
      BY <2>3, CompileKeeps
    <2>4. CASE CompileFails
      <3>1. /\ todo # << >> /\ state = "compile" /\ state' = "failed"
            /\ UNCHANGED <<parserVars, dialect, entries, requests, todo, compiled, out>>
        BY <2>4 DEF CompileFails
      <3>2. Passes'
        BY <3>1 DEF GInv, Passes
      <3> QED BY <3>1, <3>2, RestKeeps
    <2>5. CASE Compiled
      <3>1. /\ todo = << >> /\ state = "compile" /\ state' = "print"
            /\ UNCHANGED <<parserVars, dialect, entries, requests, todo, compiled, out>>
        BY <2>5 DEF Compiled
      <3>2. Passes'
        BY <3>1 DEF GInv, Passes, parserVars
      <3> QED BY <3>1, <3>2, RestKeeps
    <2>6. CASE PrintFile
      <3>1. /\ state = "print"
            /\ IF Formats(Printed) THEN state' = "written" /\ out' = Printed
                                   ELSE state' = "failed" /\ UNCHANGED out
            /\ UNCHANGED <<parserVars, dialect, entries, requests, todo, compiled>>
        BY <2>6 DEF PrintFile
      <3>2. Printed' = Printed /\ Formats(Printed)' = Formats(Printed)
        BY <3>1, PrintedStays
      <3>3. Passes'
        BY <3>1, <3>2 DEF GInv, Passes, parserVars
      <3> QED BY <3>1, <3>3, RestKeeps
    <2>7. CASE UNCHANGED vars
      <3>1. UNCHANGED <<parserVars, dialect, requests, todo, compiled, state, out>>
        BY <2>7 DEF vars, generatorVars
      <3>2. Printed' = Printed /\ Formats(Printed)' = Formats(Printed)
        BY <3>1, PrintedStays
      <3>3. Passes'
        BY <3>1, <3>2 DEF GInv, Passes, parserVars
      <3> QED BY <3>1, <3>3, RestKeeps
    <2> QED BY <2>1, <2>2, <2>3, <2>4, <2>5, <2>6, <2>7 DEF Next
  <1> QED BY <1>1, <1>2, PTL DEF GoSpec

-----------------------------------------------------------------------------
(* Names of methods. *)

\* The names of the methods that are read.
LEMMA ParseNames ==
  ASSUME GInv, NInv, Parse, ValidSources'
  PROVE  NInv'
PROOF
  <1>1. UNCHANGED <<todo, compiled>>
    BY DEF Parse
  <1>2. ASSUME UNCHANGED <<declared, methods>> PROVE NInv'
    BY <1>1, <1>2 DEF NInv, Same
  <1>3. ASSUME declared' = << >>, methods' = << >> PROVE NInv'
    <2>1. DOMAIN methods' = {}
      BY <1>3
    <2> QED BY <1>1, <2>1 DEF NInv, Same
  <1>4. ASSUME NEW d \in Declarations, ReadsMethod(d)
        PROVE  /\ \A k \in DOMAIN declared : k \in DOMAIN declared' /\ declared'[k] = declared[k]
               /\ Len(declared) + 1 \in DOMAIN declared' /\ declared'[Len(declared) + 1] = d
               /\ \A k \in DOMAIN declared : declared[k].name # d.name
    <2>1. declared' = Append(declared, d) /\ declared \in Seq(Declarations)
      BY <1>4 DEF ReadsMethod, GInv, Reading
    <2>2. /\ Len(declared) \in Nat /\ DOMAIN declared = 1..Len(declared)
          /\ DOMAIN declared' = 1..Len(declared) + 1 /\ declared'[Len(declared) + 1] = d
          /\ \A k \in 1..Len(declared) : declared'[k] = declared[k]
      <3>1. IsSeq(declared)
        BY <2>1, SeqIsSeq
      <3> QED BY <2>1, <3>1, IsSeqAppend
    <2>3. \A k \in DOMAIN declared : k \in DOMAIN declared' /\ k # Len(declared) + 1
      BY <2>2
    <2>4. Len(declared) + 1 \in DOMAIN declared'
      BY <2>2
    <2>5. \A j, k \in DOMAIN declared' : declared'[j].name = declared'[k].name => j = k
      BY DEF ValidSources
    <2> QED BY <2>2, <2>3, <2>4, <2>5
  <1>5. ASSUME NEW d \in Declarations, ReadsMethod(d), UNCHANGED methods PROVE NInv'
    <2>1. \A i \in DOMAIN methods : \E k \in DOMAIN declared' : declared'[k].name = methods[i].name
      BY <1>4, <1>5 DEF NInv
    <2> QED BY <1>1, <1>5, <2>1 DEF NInv, Same
  <1>6. ASSUME NEW d \in Declarations, TakeMethod(d) PROVE NInv'
    <2>1. /\ ReadsMethod(d) /\ parser = "reading" /\ methods' = Append(methods, MethodOf(d))
      BY <1>6 DEF TakeMethod, ReadsMethod, MethodOf
    <2>2. /\ Len(methods) \in Nat /\ DOMAIN methods = 1..Len(methods)
          /\ DOMAIN methods' = 1..Len(methods) + 1 /\ methods'[Len(methods) + 1] = MethodOf(d)
          /\ \A i \in 1..Len(methods) : methods'[i] = methods[i]
      <3>1. Stand(methods, declared)
        BY <2>1 DEF GInv, Reading
      <3>2. IsSeq(methods)
        BY <3>1, StandTyped, SeqIsSeq
      <3> QED BY <2>1, <3>2, IsSeqAppend
    <2>3. MethodOf(d).name = d.name
      BY DEF MethodOf
    <2>4. \A i \in 1..Len(methods) : methods[i].name # d.name
      BY <1>4, <2>1, <2>2 DEF NInv
    <2>5. \A i \in DOMAIN methods' : i \in 1..Len(methods) \/ i = Len(methods) + 1
      BY <2>2
    <2>6. \A i \in DOMAIN methods' : \E k \in DOMAIN declared' : declared'[k].name = methods'[i].name
      <3>1. \A i \in 1..Len(methods) : \E k \in DOMAIN declared' : declared'[k].name = methods[i].name
        BY <1>4, <2>1, <2>2 DEF NInv
      <3>2. \E k \in DOMAIN declared' : declared'[k].name = d.name
        BY <1>4, <2>1
      <3> QED BY <2>2, <2>3, <2>5, <3>1, <3>2
    <2>7. \A i, j \in DOMAIN methods' : methods'[i].name = methods'[j].name => i = j
      <3>1. \A i, j \in 1..Len(methods) : methods[i].name = methods[j].name => i = j
        BY <2>2 DEF NInv
      <3> QED BY <2>2, <2>3, <2>4, <2>5, <3>1
    <2> QED BY <1>1, <2>6, <2>7 DEF NInv, Same
  <1>7. \/ \E dir \in Dirs : FindInterface(dir) \/ NotFound(dir)
        \/ ReadDirFails
        \/ \E d \in Declarations : SkipMethod(d) \/ TakeMethod(d) \/ RejectMethod(d)
        \/ EndInterface
    BY DEF Parse, ReadMethod
  <1> QED BY <1>2, <1>3, <1>5, <1>6, <1>7
          DEF FindInterface, NotFound, ReadDirFails, SkipMethod, RejectMethod, EndInterface

\* The jobs of a new request are of no other.
LEMMA AddNames ==
  ASSUME GInv, NInv, AddRequest
  PROVE  NInv'
PROOF
  <1> DEFINE n == Len(requests) + 1
             added == [i \in DOMAIN methods |-> [request |-> n, method |-> methods[i]]]
  <1>1. /\ state = "parse" /\ parser = "parsed" /\ UNCHANGED <<declared, methods, compiled>>
        /\ todo' = todo \o [i \in DOMAIN methods |-> [request |-> Len(requests'), method |-> methods[i]]]
    BY DEF AddRequest
  <1>2. IsSeq(requests) /\ IsSeq(todo)
    BY DEF GInv, Requested, Jobs
  <1>3. Len(requests) \in Nat /\ Len(requests') = n /\ DOMAIN requests = 1..Len(requests)
    BY <1>2, IsSeqAppend DEF AddRequest
  <1>4. compiled = << >> /\ DOMAIN compiled = {}
    BY <1>1 DEF GInv, Passes
  <1>5. methods \in Seq(Methods) /\ Len(methods) \in Nat /\ DOMAIN methods = 1..Len(methods)
    BY <1>1, StandTyped DEF GInv, Reading
  <1>6. /\ IsSeq(added) /\ Len(added) = Len(methods)
        /\ \A i \in 1..Len(methods) : added[i].request = n /\ added[i].method = methods[i]
    BY <1>5, AddedJobs
  <1>7. /\ DOMAIN todo' = 1..Len(todo) + Len(methods) /\ Len(todo) \in Nat /\ DOMAIN todo = 1..Len(todo)
        /\ \A i \in 1..Len(todo) + Len(methods) :
             todo'[i] = IF i <= Len(todo) THEN todo[i] ELSE added[i - Len(todo)]
    <2>1. todo' = todo \o added
      BY <1>1, <1>3
    <2>2. DOMAIN todo = 1..Len(todo)
      BY <1>2, LenProperties DEF IsSeq
    <2> HIDE DEF added
    <2>3. /\ DOMAIN (todo \o added) = 1..Len(todo) + Len(added) /\ Len(todo) \in Nat
          /\ \A i \in 1..Len(todo) + Len(added) :
               (todo \o added)[i] = IF i <= Len(todo) THEN todo[i] ELSE added[i - Len(todo)]
      BY <1>2, <1>6, IsSeqConcat
    <2> QED BY <1>6, <2>1, <2>2, <2>3
  <1> HIDE DEF added
  <1>8. \A i \in 1..Len(todo) : todo[i].request \in 1..Len(requests)
    BY <1>3, <1>7 DEF GInv, Jobs, IsJob
  <1>9. ASSUME NEW i \in DOMAIN todo'
        PROVE  \/ i \in 1..Len(todo) /\ todo'[i] = todo[i] /\ todo'[i].request # n
               \/ \E k \in 1..Len(methods) : /\ i = Len(todo) + k
                                             /\ todo'[i].request = n /\ todo'[i].method = methods[k]
    <2>1. CASE i <= Len(todo)
      <3>1. i \in 1..Len(todo) /\ todo'[i] = todo[i]
        BY <1>7, <2>1
      <3>2. todo[i].request \in 1..Len(requests)
        BY <1>8, <3>1
      <3> QED BY <1>3, <3>1, <3>2
    <2>2. CASE ~(i <= Len(todo))
      <3>1. i - Len(todo) \in 1..Len(methods) /\ i = Len(todo) + (i - Len(todo)) /\ todo'[i] = added[i - Len(todo)]
        BY <1>5, <1>7, <2>2
      <3> QED BY <1>6, <3>1
    <2> QED BY <2>1, <2>2
  <1>10. \A i, j \in DOMAIN todo' : Same(todo'[i], todo'[j]) => i = j
    <2> SUFFICES ASSUME NEW i \in DOMAIN todo', NEW j \in DOMAIN todo', Same(todo'[i], todo'[j])
                 PROVE  i = j
      OBVIOUS
    <2>1. todo'[i].request = todo'[j].request /\ todo'[i].method.name = todo'[j].method.name
      BY DEF Same
    <2>2. CASE i \in 1..Len(todo) /\ todo'[i] = todo[i] /\ todo'[i].request # n
      <3>1. j \in 1..Len(todo) /\ todo'[j] = todo[j]
        BY <1>9, <2>1, <2>2
      <3> QED BY <1>7, <2>1, <2>2, <3>1 DEF NInv, Same
    <2>3. ASSUME NEW k \in 1..Len(methods), i = Len(todo) + k, todo'[i].request = n, todo'[i].method = methods[k]
          PROVE  i = j
      <3>1. PICK l \in 1..Len(methods) : j = Len(todo) + l /\ todo'[j].method = methods[l]
        BY <1>9, <2>1, <2>3
      <3>2. methods[k].name = methods[l].name
        BY <2>1, <2>3, <3>1
      <3>3. k = l
        BY <1>5, <3>2 DEF NInv
      <3> QED BY <2>3, <3>1, <3>3
    <2> QED BY <1>9, <2>2, <2>3
  <1> QED BY <1>1, <1>4, <1>10 DEF NInv, Same

\* The job that is compiled is no longer to be done.
LEMMA CompileNames ==
  ASSUME GInv, NInv, CompileMethod
  PROVE  NInv'
PROOF
  <1>1. todo # << >> /\ todo' = Tail(todo) /\ UNCHANGED <<declared, methods>>
    BY DEF CompileMethod, parserVars
  <1>2. PICK c : /\ compiled' = Append(compiled, c)
                 /\ c.request = Head(todo).request /\ c.method = Head(todo).method
    <2> DEFINE m == Head(todo).method
               used == extractContext(m.params)
               c == [request |-> Head(todo).request, method |-> m, ctx |-> used.ctx, bound |-> used.params,
                     strconv |-> dialect = "postgres" /\ "binds" \in m.sql, returning |-> AppendsReturning(m)]
    <2>1. c.request = Head(todo).request /\ c.method = m
      OBVIOUS
    <2>2. compiled' = Append(compiled, c)
      BY DEF CompileMethod
    <2> HIDE DEF c
    <2> QED BY <2>1, <2>2
  <1>3. /\ Len(todo) \in Nat /\ Len(todo) >= 1 /\ DOMAIN todo = 1..Len(todo) /\ Head(todo) = todo[1]
        /\ DOMAIN todo' = 1..(Len(todo) - 1) /\ \A i \in 1..(Len(todo) - 1) : todo'[i] = todo[i + 1]
    <2>1. todo \in Seq(ToSet(todo))
      BY DEF GInv, Jobs, IsSeq
    <2>2. /\ Tail(todo) \in Seq(ToSet(todo)) /\ Len(Tail(todo)) = Len(todo) - 1
          /\ \A i \in 1..Len(Tail(todo)) : Tail(todo)[i] = todo[i + 1]
      BY <1>1, <2>1, HeadTailProperties
    <2>3. Len(todo) \in Nat /\ Len(todo) >= 1 /\ DOMAIN todo = 1..Len(todo)
      BY <1>1, <2>1, LenProperties, EmptySeq
    <2> QED BY <1>1, <2>2, <2>3, LenProperties
  <1>4. /\ Len(compiled) \in Nat /\ DOMAIN compiled = 1..Len(compiled)
        /\ DOMAIN compiled' = 1..Len(compiled) + 1 /\ compiled'[Len(compiled) + 1] = c
        /\ \A i \in 1..Len(compiled) : compiled'[i] = compiled[i]
    <2>1. IsSeq(compiled)
      BY DEF GInv, Jobs
    <2> QED BY <1>2, <2>1, IsSeqAppend
  <1>5. 1 \in DOMAIN todo /\ \A i \in DOMAIN todo' : i + 1 \in DOMAIN todo /\ todo'[i] = todo[i + 1] /\ i + 1 # 1
    BY <1>3
  <1>6. \A i \in DOMAIN compiled' : \/ i \in DOMAIN compiled /\ compiled'[i] = compiled[i]
                                    \/ i = Len(compiled) + 1 /\ compiled'[i] = c
    BY <1>4
  <1>7. \A job : Same(c, job) <=> Same(todo[1], job)
    BY <1>2, <1>3 DEF Same
  <1>8. \A i \in DOMAIN compiled : ~Same(compiled[i], c)
    BY <1>5, <1>2, <1>3 DEF NInv, Same
  <1>9. \A i, j \in DOMAIN todo' : Same(todo'[i], todo'[j]) => i = j
    <2>1. \A i, j \in DOMAIN todo' : Same(todo'[i], todo'[j]) => i + 1 = j + 1
      BY <1>5 DEF NInv
    <2>2. \A i, j \in 1..(Len(todo) - 1) : i + 1 = j + 1 => i = j
      BY <1>3
    <2> QED BY <1>3, <2>1, <2>2
  <1>10. \A i, j \in DOMAIN compiled' : Same(compiled'[i], compiled'[j]) => i = j
    <2>1. \A i, j \in DOMAIN compiled : Same(compiled[i], compiled[j]) => i = j
      BY DEF NInv
    <2>2. \A i \in DOMAIN compiled : ~Same(c, compiled[i])
      BY <1>8 DEF Same
    <2> QED BY <1>6, <1>8, <2>1, <2>2
  <1>11. \A i \in DOMAIN compiled' : \A j \in DOMAIN todo' : ~Same(compiled'[i], todo'[j])
    <2>1. \A i \in DOMAIN compiled : \A j \in DOMAIN todo' : ~Same(compiled[i], todo'[j])
      BY <1>5 DEF NInv
    <2>2. \A j \in DOMAIN todo' : ~Same(c, todo'[j])
      BY <1>5, <1>7 DEF NInv
    <2> QED BY <1>6, <2>1, <2>2
  <1>12. NInv' <=>
           /\ \A i \in DOMAIN methods' : \E k \in DOMAIN declared' : declared'[k].name = methods'[i].name
           /\ \A i, j \in DOMAIN methods' : methods'[i].name = methods'[j].name => i = j
           /\ \A i, j \in DOMAIN todo' : Same(todo'[i], todo'[j]) => i = j
           /\ \A i, j \in DOMAIN compiled' : Same(compiled'[i], compiled'[j]) => i = j
           /\ \A i \in DOMAIN compiled' : \A j \in DOMAIN todo' : ~Same(compiled'[i], todo'[j])
    BY DEF NInv, Same
  <1> QED BY <1>1, <1>9, <1>10, <1>11, <1>12 DEF NInv

\* No two methods of a struct have one name: the Go compiler accepts no
\* interface that declares a name twice, and each of its methods is compiled
\* once (parser.go:231-271, generator.go:55-77).
THEOREM MethodsAreDistinct == GoSpec => []NInv
PROOF
  <1>1. Init => NInv
    <2> SUFFICES ASSUME Init PROVE NInv
      OBVIOUS
    <2>1. methods = << >> /\ todo = << >> /\ compiled = << >>
      BY DEF Init, ParserInit
    <2>2. DOMAIN << >> = {}
      OBVIOUS
    <2> QED BY <2>1, <2>2 DEF NInv
  <1>2. GInv /\ NInv /\ [Next /\ ValidSources']_vars => NInv'
    <2> SUFFICES ASSUME GInv, NInv, [Next /\ ValidSources']_vars PROVE NInv'
      OBVIOUS
    <2>1. CASE Parse /\ ValidSources'
      BY <2>1, ParseNames
    <2>2. CASE AddRequest
      BY <2>2, AddNames
    <2>3. CASE CompileMethod
      BY <2>3, CompileNames
    <2>4. ASSUME UNCHANGED <<declared, methods, todo, compiled>> PROVE NInv'
      BY <2>4 DEF NInv, Same
    <2> QED BY <2>1, <2>2, <2>3, <2>4
            DEF Next, CompileFails, Compiled, PrintFile, vars, generatorVars, parserVars
  <1> QED BY <1>1, <1>2, FileInvariance, PTL DEF GoSpec

-----------------------------------------------------------------------------
(* Theorems. *)

\* The declarations of the file and what stands for them.
LEMMA JobsTyped ==
  ASSUME GInv
  PROVE  /\ AllQueried = All(requests) /\ AllQueried \in Seq(Good)
         /\ DOMAIN AllQueried = 1..Len(AllQueried) /\ \A i \in DOMAIN AllQueried : AllQueried[i] \in Good
         /\ \A i \in DOMAIN compiled :
              /\ i \in DOMAIN AllQueried /\ AllQueried[i] \in Good
              /\ compiled[i].request \in DOMAIN requests
              /\ Valid(requests[compiled[i].request].file, AllQueried[i])
              /\ compiled[i].method = MethodOf(AllQueried[i])
              /\ compiled[i].ctx = extractContext(compiled[i].method.params).ctx
              /\ compiled[i].bound = extractContext(compiled[i].method.params).params
              /\ compiled[i].returning = AppendsReturning(compiled[i].method)
         /\ todo = << >> => DOMAIN compiled = DOMAIN AllQueried
PROOF
  <1>1. IsSeq(requests) /\ \A i \in DOMAIN requests : IsRequest(requests[i])
    BY DEF GInv, Requested
  <1>2. AllQueried = All(requests)
    BY DEF AllQueried, All
  <1>3. All(requests) \in Seq(Good)
    BY <1>1, AllTyped
  <1>4. /\ DOMAIN AllQueried = 1..Len(AllQueried) /\ Len(AllQueried) \in Nat
        /\ \A i \in DOMAIN AllQueried : AllQueried[i] \in Good
    BY <1>2, <1>3, LenProperties, ElementOfSeq
  <1>5. /\ Len(compiled) \in Nat /\ DOMAIN compiled = 1..Len(compiled) /\ Len(todo) \in Nat
        /\ Len(compiled) + Len(todo) = Len(AllQueried) /\ (todo = << >> => Len(todo) = 0)
    BY <1>2, LenProperties, EmptySeq DEF GInv, Jobs, IsSeq
  <1>6. /\ \A i \in DOMAIN compiled : i \in DOMAIN AllQueried
        /\ todo = << >> => DOMAIN compiled = DOMAIN AllQueried
    <2>1. \A a, b \in Nat : /\ \A i \in 1..a : i \in 1..(a + b)
                            /\ b = 0 => a + b = a
      OBVIOUS
    <2> QED BY <1>4, <1>5, <2>1
  <1>7. \A i \in DOMAIN compiled :
          /\ compiled[i].request \in DOMAIN requests
          /\ AllQueried[i] \in ToSet(requests[compiled[i].request].declared)
          /\ compiled[i].method = MethodOf(AllQueried[i])
          /\ compiled[i].ctx = extractContext(compiled[i].method.params).ctx
          /\ compiled[i].bound = extractContext(compiled[i].method.params).params
          /\ compiled[i].returning = AppendsReturning(compiled[i].method)
    BY <1>2 DEF GInv, Jobs, IsJob
  <1>8. \A r \in DOMAIN requests : \A d \in ToSet(requests[r].declared) : Valid(requests[r].file, d)
    BY <1>1 DEF IsRequest, ToSet
  <1> QED BY <1>2, <1>3, <1>4, <1>6, <1>7, <1>8

\* A file that is printed is the list of the printed methods.
LEMMA PrintedMethods ==
  ASSUME GInv, Formats(Printed), todo = << >>
  PROVE  \A i \in DOMAIN AllQueried : Formatted(AllQueried[i])
PROOF
  <1>1. /\ DOMAIN Printed.methods = DOMAIN compiled
        /\ \A i \in DOMAIN compiled :
             /\ Printed.methods[i].params = compiled[i].method.params
             /\ Printed.methods[i].results = Results(compiled[i].method)
    BY DEF Printed, renderMethod
  <1>2. \A d : MethodOf(d).params = Params(d.params)
    BY DEF MethodOf
  <1> QED BY <1>1, <1>2, JobsTyped DEF Formats, Formatted

\* Conversely the file is printed if go/format stops none of its methods.
LEMMA PrintedWhole ==
  ASSUME GInv, \A i \in DOMAIN AllQueried : Formatted(AllQueried[i])
  PROVE  Formats(Printed)
PROOF
  <1>1. /\ DOMAIN Printed.methods = DOMAIN compiled
        /\ \A i \in DOMAIN compiled :
             /\ Printed.methods[i].params = compiled[i].method.params
             /\ Printed.methods[i].results = Results(compiled[i].method)
    BY DEF Printed, renderMethod
  <1>2. \A d : MethodOf(d).params = Params(d.params)
    BY DEF MethodOf
  <1> SUFFICES ASSUME NEW i \in DOMAIN compiled
               PROVE  /\ \A k \in DOMAIN Printed.methods[i].params :
                           Complete(Printed.methods[i].params[k].type)
                      /\ \A k \in DOMAIN Printed.methods[i].results :
                           Complete(Printed.methods[i].results[k])
    BY <1>1 DEF Formats
  <1> DEFINE d == AllQueried[i]
  <1>3. d \in Good /\ compiled[i].method = MethodOf(d) /\ i \in DOMAIN AllQueried
    BY JobsTyped
  <1>4. Formatted(d)
    BY <1>3
  <1>5. /\ Printed.methods[i].params = Params(d.params)
        /\ Printed.methods[i].results = Results(MethodOf(d))
    BY <1>1, <1>2, <1>3
  <1> HIDE DEF d
  <1> QED BY <1>4, <1>5 DEF Formatted

\* The fields of every method that is printed.
LEMMA WrittenMethods ==
  ASSUME GInv, state = "written"
  PROVE  /\ DOMAIN out.methods = DOMAIN AllQueried /\ DOMAIN compiled = DOMAIN AllQueried
         /\ \A i \in DOMAIN AllQueried :
              /\ AllQueried[i] \in Good /\ Formatted(AllQueried[i])
              /\ out.methods[i].params = Params(AllQueried[i].params)
              /\ out.methods[i].results = Results(MethodOf(AllQueried[i]))
              /\ out.methods[i].template = TemplateOf(MethodOf(AllQueried[i]))
PROOF
  <1>1. out = Printed /\ Formats(Printed) /\ todo = << >>
    BY DEF GInv, Passes
  <1>2. /\ DOMAIN Printed.methods = DOMAIN compiled
        /\ \A i \in DOMAIN compiled :
             /\ Printed.methods[i].params = compiled[i].method.params
             /\ Printed.methods[i].results = Results(compiled[i].method)
             /\ Printed.methods[i].template = TemplateOf(compiled[i].method)
    BY DEF Printed, renderMethod
  <1>3. \A d : MethodOf(d).params = Params(d.params)
    BY DEF MethodOf
  <1> QED BY <1>1, <1>2, <1>3, JobsTyped, PrintedMethods

\* The generator's variables have their types (GeneratedFile's TypeOK).
THEOREM GeneratorTypes == GoSpec => []TypeOK
PROOF
  <1>1. GInv => TypeOK
    BY DEF GInv, Reading, Jobs, Passes, IsJob, TypeOK
  <1> QED BY <1>1, FileInvariance, PTL

\* Every printed method has the names and types the user declared
\* (parser.go:274-331, generator.go:104-134).
THEOREM SignaturesKept == GoSpec => []SignaturesAreKept
PROOF
  <1>1. ASSUME GInv PROVE SignaturesAreKept
    <2> SUFFICES ASSUME state = "written", NEW i \in DOMAIN out.methods, Ordinary(AllQueried[i])
                 PROVE  MatchesDeclaration(out.methods[i], AllQueried[i])
      BY DEF SignaturesAreKept
    <2> DEFINE d == AllQueried[i]
    <2>1. /\ d \in Good /\ Ordinary(d) /\ Formatted(d)
          /\ out.methods[i].params = Params(d.params) /\ out.methods[i].results = Results(MethodOf(d))
      BY <1>1, WrittenMethods
    <2> HIDE DEF d
    <2>2. /\ [k \in DOMAIN Params(d.params) |-> Params(d.params)[k].type] = Flat(d.params)
          /\ [k \in DOMAIN Params(d.params) |-> Params(d.params)[k].name] = NamesOf(d.params)
          /\ Results(MethodOf(d)) = Flat(d.results)
      BY <2>1, OrdinaryMatches
    <2> QED BY <2>1, <2>2 DEF MatchesDeclaration, NamesOf, d
  <1> QED BY <1>1, FileInvariance, PTL

\* Of ordinary declarations exactly the README's signatures come through
\* (parser.go:233-346, generator.go:96-99).
THEOREM TableEnforced == GoSpec => []TableIsEnforced
PROOF
  <1>1. ASSUME GInv PROVE TableIsEnforced
    <2>1. ASSUME state = "written", NEW i \in DOMAIN AllQueried, Ordinary(AllQueried[i])
          PROVE  Documented(AllQueried[i])
      BY <1>1, <2>1, WrittenMethods, OrdinaryDocumented
    <2>2. ASSUME parser = "rejected" PROVE ~Documented(Last(declared))
      <3>1. declared \in Seq(Declarations) /\ declared # << >> /\ ~Accepted(Last(declared))
        BY <1>1, <2>2 DEF GInv, Reading
      <3>2. Len(declared) \in 1..Len(declared)
        BY <3>1, LenProperties, EmptySeq
      <3>3. Last(declared) \in Declarations
        BY <3>1, <3>2, ElementOfSeq DEF Last
      <3> QED BY <3>1, <3>3, DocumentedTaken
    <2>3. ASSUME state = "failed", parser = "idle", todo = << >>
          PROVE  \E i \in DOMAIN AllQueried : ~Documented(AllQueried[i])
      <3>1. ~Formats(Printed)
        BY <1>1, <2>3 DEF GInv, Passes
      <3>2. PICK i \in DOMAIN AllQueried : ~Formatted(AllQueried[i])
        BY <1>1, <3>1, PrintedWhole
      <3>3. AllQueried[i] \in Good
        BY <1>1, JobsTyped
      <3>4. ~(\A t \in DeclaredTypes(AllQueried[i]) : ToSet(t) \cap Opaque = {})
        BY <3>2, <3>3, FormattedTypes
      <3> QED BY <3>4 DEF Documented
    <2> QED BY <2>1, <2>2, <2>3 DEF TableIsEnforced
  <1> QED BY <1>1, FileInvariance, PTL

\* A context.Context that comes first is forwarded and not bound, and where no
\* context comes first everything is bound (generator.go:157-164).
THEOREM ContextForwarded == GoSpec => []ContextIsForwarded
PROOF
  <1>1. ASSUME GInv PROVE ContextIsForwarded
    <2>1. ASSUME NEW i \in DOMAIN compiled
          PROVE  LET c == compiled[i]
                     d == AllQueried[i]
                     f == requests[c.request].file
                     names == NamesOf(d.params)
                     bound == [j \in DOMAIN c.bound |-> c.bound[j].name]
                 IN  /\ TakesContext(f, d) => c.ctx = names[1] /\ bound = Tail(names)
                     /\ TakesNoContext(f, d) => c.ctx = Background /\ bound = names
      <3> DEFINE d == AllQueried[i]
                 f == requests[compiled[i].request].file
                 used == extractContext(Params(d.params))
                 bound == [j \in DOMAIN used.params |-> used.params[j].name]
      <3>1. d \in Good /\ compiled[i].ctx = used.ctx /\ compiled[i].bound = used.params
        <4>1. /\ d \in Good /\ compiled[i].method = MethodOf(d)
              /\ compiled[i].ctx = extractContext(compiled[i].method.params).ctx
              /\ compiled[i].bound = extractContext(compiled[i].method.params).params
          BY <1>1, JobsTyped
        <4>2. MethodOf(d).params = Params(d.params)
          BY DEF MethodOf
        <4> HIDE DEF d
        <4> QED BY <4>1, <4>2
      <3>2. /\ TakesContext(f, d) => used.ctx = NamesOf(d.params)[1] /\ bound = Tail(NamesOf(d.params))
            /\ TakesNoContext(f, d) => used.ctx = Background /\ bound = NamesOf(d.params)
        <4> HIDE DEF d, f
        <4> QED BY <3>1, ContextOf
      <3> QED BY <3>1, <3>2
    <2> QED BY <2>1 DEF ContextIsForwarded
  <1> QED BY <1>1, FileInvariance, PTL

\* The query and the method's template agree about how a new row's id comes back
\* (compiler.go:72-81, generator.go:116-134).
THEOREM IdsComeBack == GoSpec => []IdComesBack
PROOF
  <1>1. ASSUME GInv PROVE IdComesBack
    <2> SUFFICES ASSUME state = "written", NEW i \in DOMAIN out.methods
                 PROVE  LET d == AllQueried[i]
                            means == out.methods[i].template
                            id == d.query = "INSERT" /\ means \in {"insertID", "insertIDReturning", "execRows"}
                        IN  /\ compiled[i].returning => means = "insertIDReturning"
                            /\ means = "insertIDReturning" => compiled[i].returning \/ "returning" \in d.sql
                            /\ id => means = IF dialect = "postgres" THEN "insertIDReturning" ELSE "insertID"
                            /\ d.query # "INSERT" => means \notin {"insertID", "insertIDReturning"}
      BY DEF IdComesBack
    <2> DEFINE m == MethodOf(AllQueried[i])
    <2>1. /\ out.methods[i].template = TemplateOf(m) /\ compiled[i].returning = AppendsReturning(m)
          /\ m.return.kind \in ReturnKinds
      BY <1>1, JobsTyped, WrittenMethods, ResultsArePrinted
    <2>2. m.kind = AllQueried[i].query /\ m.sql = AllQueried[i].sql
      BY DEF MethodOf
    <2> HIDE DEF m
    <2>3. CASE m.return.kind = "rows_or_id"
      <3>1. TemplateOf(m) = IF m.kind # "INSERT" THEN "execRows"
                            ELSE IF dialect = "postgres" THEN "insertIDReturning" ELSE "insertID"
        BY <2>3 DEF TemplateOf
      <3>2. AppendsReturning(m) <=> dialect = "postgres" /\ m.kind = "INSERT" /\ "returning" \notin m.sql
        BY <2>3 DEF AppendsReturning
      <3> QED BY <2>1, <2>2, <3>1, <3>2
    <2>4. CASE m.return.kind # "rows_or_id"
      <3>1. TemplateOf(m) \in {"selectOne", "selectMany", "execErr", "execVoid"}
        BY <2>1, <2>4 DEF TemplateOf, ReturnKinds
      <3>2. ~AppendsReturning(m)
        BY <2>4 DEF AppendsReturning
      <3> QED BY <2>1, <2>2, <3>1, <3>2
    <2> QED BY <2>3, <2>4
  <1> QED BY <1>1, FileInvariance, PTL

-----------------------------------------------------------------------------
(* Packages in types. *)

\* A type that selects a name of package q, directly or through pointers and
\* slices.
Selects(t, q) ==
  /\ t \in Seq(Word) /\ Len(t) >= 3 /\ t[Len(t) - 1] = "." /\ t[Len(t) - 2] = q
  /\ q \notin {"*", "[]", "."} /\ t[Len(t)] # "."
  /\ \A j \in 1..(Len(t) - 3) : t[j] \in {"*", "[]"}

\* A type with a dot and without maps, arrays and opaque words is of that kind.
LEMMA PlainSelects ==
  ASSUME NEW t, GoType(t), ToSet(t) \cap Arrays = {}, ToSet(t) \cap Opaque = {},
         Contains(t, "."), ~Contains(t, "map[")
  PROVE  \E q : Selects(t, q)
PROOF
  <1> DEFINE n == Len(t)
  <1>1. t \in Seq(Word) /\ n \in Nat /\ DOMAIN t = 1..n
    BY GoTypeWords, LenProperties
  <1>2. PICK d \in 1..n : t[d] = "."
    BY DEF Contains
  <1>3. \A i \in 1..n : t[i] \notin Arrays /\ t[i] \notin Opaque /\ t[i] # "map["
    <2>1. \A i \in 1..n : t[i] \in ToSet(t)
      BY <1>1 DEF ToSet
    <2> QED BY <2>1 DEF Contains
  <1>12. \A i \in 1..n : /\ t[i] \in {"*", "[]", "map[", "]", "."} => i < n
                         /\ t[i] = "]" => \E j \in 1..(i - 1) : t[j] = "map["
                         /\ t[i] \notin Punctuation /\ i < n => t[i + 1] \in {"]", "."}
                         /\ t[i] = "." => i > 1 /\ t[i - 1] \notin Punctuation /\ t[i + 1] \notin Punctuation
                         /\ t[i] = "." /\ i + 1 < n => t[i + 2] = "]"
    BY <1>1 DEF GoType
  <1> HIDE DEF n
  <1>4. \A i \in 1..n : t[i] # "]"
    <2> SUFFICES ASSUME NEW i \in 1..n, t[i] = "]" PROVE FALSE
      OBVIOUS
    <2>1. PICK j \in 1..(i - 1) : t[j] = "map["
      BY <1>12
    <2>2. j \in 1..n
      BY <1>1
    <2> QED BY <1>3, <2>1, <2>2
  <1>5. \A i \in 1..n : t[i] \notin Punctuation \/ t[i] \in {"*", "[]", "."}
    BY <1>3, <1>4 DEF Punctuation
  <1>6. ASSUME NEW i \in 1..n, t[i] = "."
        PROVE  i > 1 /\ i + 1 = n /\ t[i - 1] \notin Punctuation /\ t[i + 1] \notin Punctuation
    <2>1. /\ i < n /\ i > 1 /\ t[i - 1] \notin Punctuation /\ t[i + 1] \notin Punctuation
          /\ (i + 1 < n => t[i + 2] = "]")
      BY <1>6, <1>12
    <2>2. ~(i + 1 < n)
      <3> SUFFICES ASSUME i + 1 < n PROVE FALSE
        OBVIOUS
      <3>1. i + 2 \in 1..n
        BY <1>1
      <3> QED BY <1>4, <2>1, <3>1
    <2> QED BY <1>1, <2>1, <2>2
  <1>7. d > 1 /\ d + 1 = n /\ t[d - 1] \notin Punctuation /\ t[d + 1] \notin Punctuation
    BY <1>2, <1>6
  <1>8. \A j \in 1..(n - 3) : t[j] \in {"*", "[]"}
    <2> SUFFICES ASSUME NEW j \in 1..(n - 3) PROVE t[j] \in {"*", "[]"}
      OBVIOUS
    <2>1. j \in 1..n /\ j + 1 \in 1..n /\ j < n /\ j + 1 # n /\ (j + 1) + 1 # n
      BY <1>1
    <2>2. t[j] # "." /\ t[j + 1] # "." /\ t[j + 1] # "]"
      BY <1>4, <1>6, <2>1
    <2>3. t[j] \in Punctuation
      BY <1>12, <2>1, <2>2
    <2> QED BY <1>5, <2>1, <2>2, <2>3
  <1>9. n >= 3 /\ n - 1 = d /\ n - 2 = d - 1
    BY <1>1, <1>2, <1>7
  <1>10. t[d - 1] \notin {"*", "[]", "."} /\ t[n] # "."
    BY <1>7 DEF Punctuation
  <1>11. Selects(t, t[d - 1])
    BY <1>1, <1>2, <1>8, <1>9, <1>10 DEF Selects, n
  <1> QED BY <1>11

\* The parser and the Go compiler see the same package in it.
LEMMA SelectsQualifier ==
  ASSUME NEW t, NEW q, Selects(t, q)
  PROVE  Contains(t, ".") /\ Qualifier(t) = <<q>> /\ Qualifiers(t) = {q}
PROOF
  <1> DEFINE n == Len(t)
  <1>1. /\ t \in Seq(Word) /\ n \in Nat /\ DOMAIN t = 1..n /\ n >= 3
        /\ n - 1 \in 1..n /\ n - 2 \in 1..n /\ n - 2 < n /\ (n - 2) + 1 = n - 1
        /\ t[n - 1] = "." /\ t[n - 2] = q /\ q \notin {"*", "[]", "."} /\ t[n] # "."
        /\ \A j \in 1..(n - 3) : t[j] \in {"*", "[]"}
    BY LenProperties DEF Selects
  <1> HIDE DEF n
  <1>2. \A i \in 1..n : t[i] = "." => i = n - 1
    <2> SUFFICES ASSUME NEW i \in 1..n, i # n - 1 PROVE t[i] # "."
      OBVIOUS
    <2>1. i = n \/ i = n - 2 \/ i \in 1..(n - 3)
      BY <1>1
    <2> QED BY <1>1, <2>1
  <1>3. Contains(t, ".")
    BY <1>1 DEF Contains, n
  <1>4. Qualifiers(t) = {q}
    <2>1. q \in Qualifiers(t)
      BY <1>1 DEF Qualifiers, n
    <2>2. \A i \in DOMAIN t : i < Len(t) /\ t[i + 1] = "." => t[i] = q
      <3> SUFFICES ASSUME NEW i \in 1..n, i < n, t[i + 1] = "." PROVE t[i] = q
        BY <1>1 DEF n
      <3>1. i + 1 \in 1..n
        BY <1>1
      <3>2. i = n - 2
        BY <1>1, <1>2, <3>1
      <3> QED BY <1>1, <3>2
    <2> QED BY <2>1, <2>2 DEF Qualifiers
  <1> DEFINE B(i) == t[i] \notin {"*", "[]"} /\ \A j \in 1..(i - 1) : t[j] \in {"*", "[]"}
             D(i) == t[i] = "." /\ \A j \in 1..(i - 1) : t[j] # "."
             begin == CHOOSE i \in DOMAIN t : B(i)
             dot == CHOOSE i \in DOMAIN t : D(i)
  <1>5. begin = n - 2
    <2>1. n - 2 \in DOMAIN t /\ B(n - 2)
      BY <1>1
    <2>2. \A i \in DOMAIN t : B(i) => i = n - 2
      <3> SUFFICES ASSUME NEW i \in 1..n, B(i) PROVE i = n - 2
        BY <1>1
      <3>1. ~(i > n - 2)
        BY <1>1
      <3>2. ~(i < n - 2)
        BY <1>1
      <3> QED BY <1>1, <3>1, <3>2
    <2> HIDE DEF B
    <2> QED BY <2>1, <2>2
  <1>6. dot = n - 1
    <2>1. n - 1 \in DOMAIN t /\ D(n - 1)
      <3>1. \A j \in 1..((n - 1) - 1) : j \in 1..n /\ j # n - 1
        BY <1>1
      <3> QED BY <1>1, <1>2, <3>1
    <2>2. \A i \in DOMAIN t : D(i) => i = n - 1
      BY <1>1, <1>2
    <2> HIDE DEF D
    <2> QED BY <2>1, <2>2
  <1>7. Qualifier(t) = SubSeq(t, begin, dot - 1)
    BY DEF Qualifier
  <1> HIDE DEF begin, dot
  <1>8. SubSeq(t, n - 2, n - 2) = <<q>>
    <2> DEFINE m == n - 2
    <2>2. m \in 1..n /\ m \in 1..Len(t) + 1 /\ m \in 0..Len(t) /\ m - m + 1 = 1
      BY <1>1 DEF n
    <2> HIDE DEF m
    <2>3. /\ SubSeq(t, m, m) \in Seq(Word) /\ Len(SubSeq(t, m, m)) = 1
          /\ \A i \in 1..1 : SubSeq(t, m, m)[i] = t[m + i - 1]
      <3>1. m <= m
        BY <2>2
      <3> QED BY <1>1, <2>2, <3>1, PartOf
    <2>4. SubSeq(t, m, m)[1] = t[m]
      BY <2>2, <2>3
    <2>5. SubSeq(t, m, m) = <<t[m]>>
      <3>1. t[m] \in Word
        BY <1>1, <2>2, ElementOfSeq DEF n
      <3>2. <<t[m]>> \in Seq(Word) /\ Len(<<t[m]>>) = 1 /\ <<t[m]>>[1] = t[m]
        BY <3>1
      <3>3. PICK a \in Seq(Word) : a = SubSeq(t, m, m)
        BY <2>3
      <3>4. PICK b \in Seq(Word) : b = <<t[m]>>
        BY <3>2
      <3>5. Len(a) = 1 /\ Len(b) = 1 /\ \A i \in 1..1 : a[i] = b[i]
        BY <2>3, <2>4, <3>2, <3>3, <3>4
      <3>6. a = b
        BY <3>5, SeqEqual
      <3> QED BY <3>3, <3>4, <3>6
    <2>1. SubSeq(t, n - 2, n - 2) = <<t[n - 2]>>
      BY <2>5 DEF m
    <2> QED BY <1>1, <2>1
  <1>9. dot - 1 = n - 2
    BY <1>1, <1>6
  <1> QED BY <1>3, <1>4, <1>5, <1>7, <1>8, <1>9

\* Without a dot neither sees one.
LEMMA NothingSelected ==
  ASSUME NEW t \in Seq(Word), ~Contains(t, ".")
  PROVE  Qualifiers(t) = {}
PROOF
  <1>1. Len(t) \in Nat /\ DOMAIN t = 1..Len(t)
    BY LenProperties
  <1>2. \A i \in DOMAIN t : ~(i < Len(t) /\ t[i + 1] = ".")
    BY <1>1 DEF Contains
  <1> QED BY <1>2 DEF Qualifiers

\* What the template puts before an element type.
Pointing == {<<"*">>, <<"[]">>, <<"[]", "*">>}

\* It selects nothing.
LEMMA SelectsAfter ==
  ASSUME NEW u \in Seq(Word), NEW pre \in Pointing
  PROVE  /\ pre \o u \in Seq(Word)
         /\ Contains(u, ".") <=> Contains(pre \o u, ".")
         /\ \A q : Selects(pre \o u, q) => Selects(u, q)
PROOF
  <1> DEFINE k == Len(pre)
             n == Len(u)
             t == pre \o u
  <1>1. pre \in Seq(Word) /\ k \in {1, 2} /\ \A i \in 1..k : pre[i] \in {"*", "[]"}
    <2>0. "*" \in Word /\ "[]" \in Word
      BY DEF Word, Marks
    <2>1. CASE pre = <<"*">>
      BY <2>0, <2>1
    <2>2. CASE pre = <<"[]">>
      BY <2>0, <2>2
    <2>3. CASE pre = <<"[]", "*">>
      BY <2>0, <2>3
    <2> QED BY <2>1, <2>2, <2>3 DEF Pointing
  <1>2. /\ t \in Seq(Word) /\ Len(t) = k + n /\ n \in Nat
        /\ \A i \in 1..k : t[i] = pre[i]
        /\ \A i \in 1..n : t[k + i] = u[i]
    <2>1. t \in Seq(Word) /\ Len(t) = k + n /\ n \in Nat
      BY <1>1, ConcatProperties, LenProperties
    <2>2. \A i \in 1..(k + n) : t[i] = IF i <= k THEN pre[i] ELSE u[i - k]
      BY <1>1, ConcatProperties
    <2> HIDE DEF t, k
    <2>3. \A i \in 1..k : i \in 1..(k + n) /\ i <= k
      BY <1>1, <2>1
    <2>4. \A i \in 1..n : k + i \in 1..(k + n) /\ ~(k + i <= k) /\ (k + i) - k = i
      BY <1>1, <2>1
    <2> QED BY <2>1, <2>2, <2>3, <2>4
  <1> HIDE DEF t, k, n
  <1>3. \A i \in 1..(k + n) : i \in 1..k \/ \E j \in 1..n : i = k + j
    <2> SUFFICES ASSUME NEW i \in 1..(k + n), i \notin 1..k PROVE \E j \in 1..n : i = k + j
      OBVIOUS
    <2>1. i - k \in 1..n /\ i = k + (i - k)
      BY <1>1, <1>2
    <2> QED BY <2>1
  <1>4. Contains(u, ".") <=> Contains(t, ".")
    <2>1. \A i \in 1..k : t[i] # "."
      BY <1>1, <1>2
    <2>2. \A j \in 1..n : k + j \in 1..(k + n)
      BY <1>1, <1>2
    <2> QED BY <1>2, <1>3, <2>1, <2>2 DEF Contains, n
  <1>5. ASSUME NEW q, Selects(t, q) PROVE Selects(u, q)
    <2>1. /\ k + n >= 3 /\ t[(k + n) - 1] = "." /\ t[(k + n) - 2] = q
          /\ q \notin {"*", "[]", "."} /\ t[k + n] # "."
          /\ \A j \in 1..((k + n) - 3) : t[j] \in {"*", "[]"}
      BY <1>2, <1>5 DEF Selects
    <2>2. \A i \in 1..k : t[i] \in {"*", "[]"}
      BY <1>1, <1>2
    <2>3. n >= 3
      <3> SUFFICES ASSUME n < 3 PROVE FALSE
        BY <1>2
      <3>1. (k + n) - 1 \notin 1..k /\ (k + n) - 2 \notin 1..k
        BY <2>1, <2>2
      <3> QED BY <1>1, <1>2, <2>1, <3>1
    <2>4. /\ n - 1 \in 1..n /\ k + (n - 1) = (k + n) - 1
          /\ n - 2 \in 1..n /\ k + (n - 2) = (k + n) - 2
          /\ n \in 1..n
          /\ \A j \in 1..(n - 3) : j \in 1..n /\ k + j \in 1..((k + n) - 3)
      BY <1>1, <1>2, <2>3
    <2>5. /\ u[n - 1] = "." /\ u[n - 2] = q /\ u[n] # "."
          /\ \A j \in 1..(n - 3) : u[j] \in {"*", "[]"}
      <3>1. u[n - 1] = "."
        BY <1>2, <2>1, <2>4
      <3>2. u[n - 2] = q
        BY <1>2, <2>1, <2>4
      <3>3. u[n] # "."
        BY <1>2, <2>1, <2>4
      <3>4. \A j \in 1..(n - 3) : u[j] \in {"*", "[]"}
        BY <1>2, <2>1, <2>4
      <3> QED BY <3>1, <3>2, <3>3, <3>4
    <2> QED BY <2>1, <2>3, <2>5 DEF Selects, n
  <1> QED BY <1>2, <1>4, <1>5 DEF t

-----------------------------------------------------------------------------
(* What is printed of a declaration. *)

\* The types printed of a declaration, and those its imports are picked by.
ParamTypes(d) == {Params(d.params)[k].type : k \in DOMAIN Params(d.params)}
PrintedOf(d) == ParamTypes(d) \cup ToSet(Results(MethodOf(d)))
UsedOf(d) == ParamTypes(d) \cup {MethodOf(d).return.type}

\* What is printed of an ordinary declaration was declared.
LEMMA PrintedDeclared ==
  ASSUME NEW d \in Good, Ordinary(d), Formatted(d)
  PROVE  PrintedOf(d) \subseteq DeclaredTypes(d)
PROOF
  <1>1. /\ d \in Declarations /\ FieldList(d.params) /\ \A i \in DOMAIN d.params : d.params[i].names # << >>
        /\ DOMAIN d.params = 1..Len(d.params)
    BY GoodTyped, TypesDeclared DEF ParamsAccepted
  <1>2. /\ \A i \in 1..Len(d.params) : exprToString(d.params[i].type) = d.params[i].type
        /\ \A i \in 1..Len(d.results) : exprToString(d.results[i].type) = d.results[i].type
    BY OrdinaryTypes
  <1>3. /\ \A i \in 1..Len(d.params) : d.params[i].type \in DeclaredTypes(d)
        /\ \A i \in 1..Len(d.results) : d.results[i].type \in DeclaredTypes(d)
    BY <1>1, TypesDeclared
  <1>4. ASSUME NEW k \in DOMAIN Params(d.params)
        PROVE  Params(d.params)[k].type \in DeclaredTypes(d)
    <2> DEFINE T == {Params(d.params)[k].type}
    <2>1. \E l \in DOMAIN Params(d.params) : Params(d.params)[l].type \in T
      OBVIOUS
    <2> HIDE DEF T
    <2>2. \E i \in DOMAIN d.params : exprToString(d.params[i].type) \in T
      BY <1>1, <2>1, ParamsFields
    <2>3. \E i \in 1..Len(d.params) : d.params[i].type \in T
      BY <1>1, <1>2, <2>2
    <2> QED BY <1>3, <2>3 DEF T
  <1>5. \A i \in DOMAIN Results(MethodOf(d)) : Results(MethodOf(d))[i] \in DeclaredTypes(d)
    BY <1>2, <1>3, ResultsArePrinted DEF PrintedType
  <1> QED BY <1>4, <1>5 DEF PrintedOf, ParamTypes, ToSet

\* A type that is printed of a plain declaration selects at most one package.
LEMMA PrintedSelects ==
  ASSUME NEW d \in Good, PlainDeclaration(d), Formatted(d), NEW t \in PrintedOf(d)
  PROVE  /\ t \in Seq(Word) /\ t \in DeclaredTypes(d)
         /\ Contains(t, ".") => \E q : Selects(t, q)
PROOF
  <1>1. d \in Declarations /\ Ordinary(d)
    BY GoodTyped DEF PlainDeclaration
  <1>2. t \in DeclaredTypes(d)
    BY <1>1, PrintedDeclared
  <1>3. GoType(t)
    BY <1>1, <1>2, TypesDeclared
  <1>4. ToSet(t) \cap Opaque = {}
    BY <1>2, FormattedTypes
  <1>5. ToSet(t) \cap Arrays = {} /\ (Contains(t, ".") => ~Contains(t, "map["))
    BY <1>1, <1>2 DEF PlainDeclaration, Ordinary
  <1> QED BY <1>2, <1>3, <1>4, <1>5, GoTypeWords, PlainSelects

\* A result of type u, with what the template puts before it, and an error.
Element(r, u) == \E pre \in Pointing : r = <<pre \o u, Error>>

\* The type a method returns is what stands in its results, without what the
\* template puts before it.
LEMMA ReturnIsElement ==
  ASSUME NEW d \in Good
  PROVE  LET u == MethodOf(d).return.type
             r == Results(MethodOf(d))
         IN  \/ u \in {<< >>, <<"int">>} /\ r \in {<< >>, << Error >>, << <<"int">>, Error >>}
             \/ u \in Seq(Word) /\ Element(r, u)
PROOF
  <1> DEFINE m == MethodOf(d)
             t == PrintedType(d.results[1])
  <1>1. FieldList(d.results) /\ buildReturn(d.results).kind # "rejected"
    BY GoodTyped
  <1>2. m.return = buildReturn(d.results)
    BY DEF MethodOf
  <1>3. \/ d.results = << >> /\ Results(m) = << >>
        \/ Len(d.results) = 1 /\ Results(m) = << Error >>
        \/ /\ Len(d.results) = 2 /\ t \in Seq(Word)
           /\ ElementOf(t).kind # "rejected" /\ Results(m) = << t, Error >>
    BY ResultsArePrinted
  <1>4. \/ d.results = << >> /\ buildReturn(d.results) = Return("nothing", << >>, FALSE)
        \/ Len(d.results) = 1 /\ buildReturn(d.results) = Return("error", << >>, FALSE)
        \/ Len(d.results) = 2 /\ buildReturn(d.results) = ElementOf(t)
    BY <1>1, ReturnCases
  <1>5. d.results = << >> <=> Len(d.results) = 0
    BY <1>1, FieldsTyped
  <1> HIDE DEF m, t
  <1> DEFINE n == Len(d.results)
             b == buildReturn(d.results)
  <1>10. /\ n \in Nat
         /\ \/ n = 0 /\ Results(m) = << >>
            \/ n = 1 /\ Results(m) = << Error >>
            \/ n = 2 /\ t \in Seq(Word) /\ ElementOf(t).kind # "rejected" /\ Results(m) = << t, Error >>
         /\ \/ n = 0 /\ b = Return("nothing", << >>, FALSE)
            \/ n = 1 /\ b = Return("error", << >>, FALSE)
            \/ n = 2 /\ b = ElementOf(t)
         /\ m.return = b
    BY <1>1, <1>2, <1>3, <1>4, <1>5, FieldsTyped
  <1> HIDE DEF n, b
  <1>7. CASE n \in {0, 1}
    <2>1. m.return.type = << >> /\ Results(m) \in {<< >>, << Error >>}
      BY <1>7, <1>10 DEF Return
    <2> QED BY <2>1 DEF m
  <1>8. CASE n = 2
    <2>1. t \in Seq(Word) /\ ElementOf(t).kind # "rejected" /\ Results(m) = << t, Error >>
      BY <1>8, <1>10
    <2>2. m.return = ElementOf(t)
      BY <1>8, <1>10
    <2>3. \/ t = <<"int">> /\ ElementOf(t) = Return("rows_or_id", t, FALSE)
          \/ \E u \in Seq(Word) :
               \/ t = <<"[]", "*">> \o u /\ ElementOf(t) = Return("slice", u, TRUE)
               \/ t = <<"[]">> \o u /\ ElementOf(t) = Return("slice", u, FALSE)
               \/ t = <<"*">> \o u /\ ElementOf(t) = Return("single", u, TRUE)
      BY <2>1, ElementCases
    <2>4. CASE t = <<"int">> /\ ElementOf(t) = Return("rows_or_id", t, FALSE)
      <3>1. m.return.type = <<"int">> /\ Results(m) = << <<"int">>, Error >>
        BY <2>1, <2>2, <2>4 DEF Return
      <3> QED BY <3>1 DEF m
    <2>5. ASSUME NEW u \in Seq(Word), NEW pre \in Pointing, t = pre \o u, ElementOf(t).type = u
          PROVE  m.return.type \in Seq(Word) /\ Element(Results(m), m.return.type)
      BY <2>1, <2>2, <2>5 DEF Element
    <2>6. CASE \E u \in Seq(Word) :
               \/ t = <<"[]", "*">> \o u /\ ElementOf(t) = Return("slice", u, TRUE)
               \/ t = <<"[]">> \o u /\ ElementOf(t) = Return("slice", u, FALSE)
               \/ t = <<"*">> \o u /\ ElementOf(t) = Return("single", u, TRUE)
      <3>1. PICK u \in Seq(Word) :
               \/ t = <<"[]", "*">> \o u /\ ElementOf(t) = Return("slice", u, TRUE)
               \/ t = <<"[]">> \o u /\ ElementOf(t) = Return("slice", u, FALSE)
               \/ t = <<"*">> \o u /\ ElementOf(t) = Return("single", u, TRUE)
        BY <2>6
      <3>2. \E pre \in Pointing : t = pre \o u
        BY <3>1 DEF Pointing
      <3>3. ElementOf(t).type = u
        BY <3>1 DEF Return
      <3>4. m.return.type \in Seq(Word) /\ Element(Results(m), m.return.type)
        BY <2>5, <3>2, <3>3
      <3> QED BY <3>4 DEF m
    <2> QED BY <2>3, <2>4, <2>6
  <1>9. n \in {0, 1, 2}
    BY <1>10
  <1> QED BY <1>7, <1>8, <1>9

\* What has no dot.
LEMMA Dotless ==
  /\ ~Contains(<< >>, ".") /\ ~Contains(<<"int">>, ".") /\ ~Contains(Error, ".")
  /\ << >> \in Seq(Word) /\ <<"int">> \in Seq(Word) /\ Error \in Seq(Word)
PROOF
  <1>1. "int" \in Word /\ "error" \in Word
    BY DEF Word
  <1>2. Len(<< >>) = 0 /\ Len(<<"int">>) = 1 /\ Len(<<"error">>) = 1
    OBVIOUS
  <1>3. \A i \in 1..1 : <<"int">>[i] # "." /\ <<"error">>[i] # "."
    <2>1. \A i \in 1..1 : i = 1
      OBVIOUS
    <2>2. <<"int">>[1] # "." /\ <<"error">>[1] # "."
      OBVIOUS
    <2> QED BY <2>1, <2>2
  <1>4. 1..0 = {}
    OBVIOUS
  <1>5. << >> \in Seq(Word) /\ <<"int">> \in Seq(Word) /\ <<"error">> \in Seq(Word)
    BY <1>1
  <1> QED BY <1>2, <1>3, <1>4, <1>5 DEF Contains, Error

\* The packages the parser picks imports by, and those the Go compiler looks for.
Picks(d, q) == \E u \in UsedOf(d) : Contains(u, ".") /\ Qualifier(u) = <<q>>
Mentions(d, q) == \E t \in PrintedOf(d) : q \in Qualifiers(t)

\* The packages the parser sees in a method are those the Go compiler sees in
\* what is printed of it (parser.go:123-139).
LEMMA PicksMentions ==
  ASSUME NEW d \in Good, PlainDeclaration(d), Formatted(d), NEW q
  PROVE  Picks(d, q) <=> Mentions(d, q)
PROOF
  <1> DEFINE v == MethodOf(d).return.type
             r == Results(MethodOf(d))
  <1>1. \/ v \in {<< >>, <<"int">>} /\ r \in {<< >>, << Error >>, << <<"int">>, Error >>}
        \/ v \in Seq(Word) /\ Element(r, v)
    BY ReturnIsElement
  <1>2. \A t \in PrintedOf(d) : t \in Seq(Word) /\ (Contains(t, ".") => \E p : Selects(t, p))
    BY PrintedSelects
  <1>3. PrintedOf(d) = ParamTypes(d) \cup ToSet(r) /\ UsedOf(d) = ParamTypes(d) \cup {v}
    BY DEF PrintedOf, UsedOf
  <1> HIDE DEF v, r
  <1>4. \A t, p : Selects(t, p) => Contains(t, ".") /\ Qualifier(t) = <<p>> /\ Qualifiers(t) = {p}
    BY SelectsQualifier
  <1>5. \A p : <<p>> = <<q>> => p = q
    OBVIOUS
  <1>6. ASSUME Picks(d, q) PROVE Mentions(d, q)
    <2>1. PICK u \in UsedOf(d) : Contains(u, ".") /\ Qualifier(u) = <<q>>
      BY <1>6 DEF Picks
    <2>2. CASE u \in ParamTypes(d)
      <3>1. u \in PrintedOf(d)
        BY <1>3, <2>2
      <3>2. PICK p : Selects(u, p)
        BY <1>2, <2>1, <3>1
      <3>3. q \in Qualifiers(u)
        BY <1>4, <1>5, <2>1, <3>2
      <3> QED BY <3>1, <3>3 DEF Mentions
    <2>3. CASE u = v
      <3>1. v \in Seq(Word) /\ Element(r, v)
        BY <1>1, <2>1, <2>3, Dotless
      <3>2. PICK pre \in Pointing : r = <<pre \o v, Error>>
        BY <3>1 DEF Element
      <3>3. pre \o v \in PrintedOf(d)
        <4> DEFINE t == pre \o v
        <4> HIDE DEF t
        <4>1. r = <<t, Error>>
          BY <3>2 DEF t
        <4>2. t \in ToSet(r)
          BY <4>1 DEF ToSet
        <4> QED BY <1>3, <4>2 DEF t
      <3>4. PICK t \in PrintedOf(d) : t = pre \o v
        BY <3>3
      <3>5. Contains(t, ".") /\ \A p : Selects(t, p) => Selects(v, p)
        BY <2>1, <2>3, <3>1, <3>4, SelectsAfter
      <3>6. PICK p : Selects(t, p) /\ Selects(v, p)
        BY <1>2, <3>5
      <3>7. q \in Qualifiers(t)
        BY <1>4, <1>5, <2>1, <2>3, <3>6
      <3> QED BY <3>7 DEF Mentions
    <2> QED BY <1>3, <2>2, <2>3
  <1>7. ASSUME Mentions(d, q) PROVE Picks(d, q)
    <2>1. PICK t \in PrintedOf(d) : q \in Qualifiers(t)
      BY <1>7 DEF Mentions
    <2>2. Contains(t, ".")
      BY <1>2, <2>1, NothingSelected
    <2>3. PICK p : Selects(t, p)
      BY <1>2, <2>2
    <2>4. p = q
      BY <1>4, <2>1, <2>3
    <2>5. CASE t \in ParamTypes(d)
      <3>1. t \in UsedOf(d) /\ Qualifier(t) = <<q>>
        BY <1>3, <1>4, <2>3, <2>4, <2>5
      <3> QED BY <2>2, <3>1 DEF Picks
    <2>6. CASE t \in ToSet(r)
      <3>1. ~(r \in {<< >>, << Error >>, << <<"int">>, Error >>})
        <4>1. ASSUME r = << >> PROVE FALSE
          BY <2>6, <4>1 DEF ToSet
        <4>2. ASSUME r = << Error >> PROVE FALSE
          <5>1. t = Error
            BY <2>6, <4>2 DEF ToSet
          <5> QED BY <2>2, <5>1, Dotless
        <4>3. ASSUME r = << <<"int">>, Error >> PROVE FALSE
          <5>1. t = <<"int">> \/ t = Error
            BY <2>6, <4>3 DEF ToSet
          <5> QED BY <2>2, <5>1, Dotless
        <4> QED BY <4>1, <4>2, <4>3
      <3>2. v \in Seq(Word) /\ Element(r, v)
        BY <1>1, <3>1
      <3>3. PICK pre \in Pointing : r = <<pre \o v, Error>>
        BY <3>2 DEF Element
      <3>4. t = pre \o v
        <4> DEFINE w == pre \o v
        <4> HIDE DEF w
        <4>1. r = <<w, Error>>
          BY <3>3 DEF w
        <4>2. t = w \/ t = Error
          BY <2>6, <4>1 DEF ToSet
        <4> QED BY <2>2, <4>2, Dotless DEF w
      <3>5. Selects(v, q)
        BY <2>3, <2>4, <3>2, <3>4, SelectsAfter
      <3>6. v \in UsedOf(d)
        BY <1>3
      <3> QED BY <1>4, <3>5, <3>6 DEF Picks
    <2> QED BY <1>3, <2>5, <2>6
  <1> QED BY <1>6, <1>7

-----------------------------------------------------------------------------
(* A file of plain declarations. *)

\* The imports a request keeps.
LEMMA ImportsKept ==
  ASSUME NEW r, IsRequest(r), NEW imp
  PROVE  imp \in ToSet(r.imports) <=>
           /\ imp \in ToSet(r.file.imports)
           /\ \/ imp.alias \in {"_", "."}
              \/ \E d \in ToSet(Queried(r)) : \E u \in UsedOf(d) :
                   Contains(u, ".") /\ LocalName(imp) = Qualifier(u)
PROOF
  <1> DEFINE q == Keep(r.declared, Queries)
             ms == MethodsOf(r.declared)
             used == {Qualifier(t) : t \in {u \in TypesOf(ms) : Contains(u, ".")}}
             fs == r.file.imports
             S == {i \in ToSet(fs) : i.alias \in {"_", "."} \/ LocalName(i) \in used}
  <1>1. fs \in Seq(ImportSet) /\ r.imports = Keep(fs, S) /\ Queried(r) = q
    BY QueriedIs DEF IsRequest, usedImports
  <1>2. ms = [i \in DOMAIN q |-> MethodOf(q[i])]
    BY DEF MethodsOf
  <1>3. \A d : /\ MethodOf(d).params = Params(d.params)
               /\ UsedOf(d) = {MethodOf(d).params[i].type : i \in DOMAIN MethodOf(d).params}
                                \cup {MethodOf(d).return.type}
    BY DEF MethodOf, UsedOf, ParamTypes
  <1> HIDE DEF ms, q, S, fs, used
  <1>4. ToSet(ms) = {MethodOf(d) : d \in ToSet(q)}
    BY <1>2 DEF ToSet
  <1>5. TypesOf(ms) = UNION {UsedOf(d) : d \in ToSet(q)}
    BY <1>3, <1>4 DEF TypesOf
  <1>6. \A n : n \in used <=> \E d \in ToSet(q) : \E u \in UsedOf(d) : Contains(u, ".") /\ n = Qualifier(u)
    BY <1>5 DEF used
  <1>7. ToSet(r.imports) = ToSet(fs) \cap S
    BY <1>1, KeepElements
  <1>8. imp \in ToSet(r.imports) <=> imp \in ToSet(fs) /\ (imp.alias \in {"_", "."} \/ LocalName(imp) \in used)
    BY <1>7 DEF S
  <1> QED BY <1>1, <1>6, <1>8 DEF fs

\* The declarations of a file are those its requests ask for.
LEMMA AllOfRequests ==
  ASSUME GInv
  PROVE  /\ \A k \in DOMAIN requests : \A d \in ToSet(Queried(requests[k])) :
              \E i \in DOMAIN AllQueried : AllQueried[i] = d
         /\ \A i \in DOMAIN compiled : AllQueried[i] \in ToSet(Queried(requests[compiled[i].request]))
         /\ \A k \in DOMAIN requests : IsRequest(requests[k])
PROOF
  <1> DEFINE w == [i \in DOMAIN requests |-> Queried(requests[i])]
  <1>1. IsSeq(requests) /\ \A i \in DOMAIN requests : IsRequest(requests[i])
    BY DEF GInv, Requested
  <1>2. AllQueried = FlattenSeq(w) /\ AllQueried \in Seq(Good) /\ DOMAIN AllQueried = 1..Len(AllQueried)
    BY JobsTyped DEF All
  <1>3. w \in Seq(Seq(Good)) /\ Len(w) = Len(requests) /\ DOMAIN requests = 1..Len(requests)
    BY <1>1, AllTyped, LenProperties DEF IsSeq
  <1>4. \A k \in DOMAIN requests : w[k] = Queried(requests[k])
    OBVIOUS
  <1> HIDE DEF w
  <1>5. \A e : In(e, FlattenSeq(w)) <=> \E i \in 1..Len(w) : In(e, w[i])
    BY <1>3, FlattenElements
  <1>6. ASSUME NEW k \in DOMAIN requests, NEW d \in ToSet(Queried(requests[k]))
        PROVE  \E i \in DOMAIN AllQueried : AllQueried[i] = d
    <2>1. k \in 1..Len(w) /\ w[k] \in Seq(Good) /\ d \in ToSet(w[k])
      BY <1>3, <1>4, ElementOfSeq
    <2>2. In(d, w[k])
      BY <2>1, LenProperties DEF In, ToSet
    <2>3. In(d, AllQueried)
      BY <1>2, <1>5, <2>1, <2>2
    <2> QED BY <1>2, <2>3 DEF In
  <1>7. ASSUME NEW i \in DOMAIN compiled
        PROVE  AllQueried[i] \in ToSet(Queried(requests[compiled[i].request]))
    <2> DEFINE r == requests[compiled[i].request]
    <2>1. IsJob(compiled[i], i, requests) /\ AllQueried = All(requests) /\ AllQueried[i] \in Good
      BY JobsTyped DEF GInv, Jobs
    <2>2. compiled[i].request \in DOMAIN requests /\ AllQueried[i] \in ToSet(r.declared)
      BY <2>1 DEF IsJob
    <2>3. IsRequest(r)
      BY <1>1, <2>2
    <2> HIDE DEF r
    <2>4. ToSet(Keep(r.declared, Queries)) = ToSet(r.declared) \cap Queries
      BY <2>3, KeepElements DEF IsRequest
    <2>5. Queried(r) = Keep(r.declared, Queries)
      BY <2>3, QueriedIs
    <2>6. AllQueried[i] \in Queries
      BY <2>1 DEF Good
    <2> QED BY <2>2, <2>4, <2>5, <2>6 DEF r
  <1> QED BY <1>1, <1>6, <1>7

\* A written file's declarations avoid what the generator does not look at.
PlainFile ==
  /\ GInv /\ state = "written" /\ PlainImports /\ PlainEntries
  /\ \A i \in DOMAIN AllQueried : PlainDeclaration(AllQueried[i])

\* What such a file consists of.
LEMMA PlainWritten ==
  ASSUME PlainFile
  PROVE  /\ out.pkg = requests[1].file.pkg /\ out.imports = buildImportBlock
         /\ out.types = [i \in DOMAIN requests |->
                           [struct |-> StructOf(requests[i]), iface |-> requests[i].iface]]
         /\ DOMAIN out.methods = DOMAIN AllQueried /\ DOMAIN compiled = DOMAIN AllQueried
         /\ \A i \in DOMAIN AllQueried :
              LET d == AllQueried[i]
                  k == compiled[i].request
              IN  /\ d \in Good /\ Formatted(d) /\ PlainDeclaration(d)
                  /\ k \in DOMAIN requests /\ Valid(requests[k].file, d)
                  /\ d \in ToSet(Queried(requests[k]))
                  /\ out.methods[i].params = Params(d.params)
                  /\ out.methods[i].results = Results(MethodOf(d))
                  /\ out.methods[i].template = TemplateOf(MethodOf(d))
                  /\ out.methods[i].name = compiled[i].method.name /\ compiled[i].method.name = d.name
                  /\ out.methods[i].request = k
                  /\ out.methods[i].foreign = ("foreign" \in d.sql)
                  /\ out.methods[i].ctx = compiled[i].ctx
                  /\ compiled[i].ctx = extractContext(Params(d.params)).ctx
                  /\ compiled[i].method = MethodOf(d)
                  /\ out.methods[i].packages = PackagesOf(compiled[i])
         /\ PrintedTypes(out) = UNION {PrintedOf(AllQueried[i]) : i \in DOMAIN AllQueried}
PROOF
  <1>1. GInv /\ state = "written" /\ \A i \in DOMAIN AllQueried : PlainDeclaration(AllQueried[i])
    BY DEF PlainFile
  <1>2. out = Printed
    BY <1>1 DEF GInv, Passes
  <1>3. /\ out.pkg = requests[1].file.pkg /\ out.imports = buildImportBlock
        /\ out.types = [i \in DOMAIN requests |->
                          [struct |-> StructOf(requests[i]), iface |-> requests[i].iface]]
        /\ \A i \in DOMAIN compiled :
             /\ out.methods[i].ctx = compiled[i].ctx /\ out.methods[i].packages = PackagesOf(compiled[i])
             /\ out.methods[i].name = compiled[i].method.name /\ out.methods[i].request = compiled[i].request
             /\ out.methods[i].foreign = ("foreign" \in compiled[i].method.sql)
    BY <1>2 DEF Printed, renderMethod
  <1>4. /\ DOMAIN out.methods = DOMAIN AllQueried /\ DOMAIN compiled = DOMAIN AllQueried
        /\ \A i \in DOMAIN AllQueried :
             /\ AllQueried[i] \in Good /\ Formatted(AllQueried[i])
             /\ out.methods[i].params = Params(AllQueried[i].params)
             /\ out.methods[i].results = Results(MethodOf(AllQueried[i]))
             /\ out.methods[i].template = TemplateOf(MethodOf(AllQueried[i]))
    BY <1>1, WrittenMethods
  <1>5. \A d : MethodOf(d).params = Params(d.params) /\ MethodOf(d).name = d.name /\ MethodOf(d).sql = d.sql
    BY DEF MethodOf
  <1>6. \A i \in DOMAIN compiled :
          /\ compiled[i].request \in DOMAIN requests
          /\ Valid(requests[compiled[i].request].file, AllQueried[i])
          /\ compiled[i].method = MethodOf(AllQueried[i])
          /\ compiled[i].method.name = AllQueried[i].name /\ compiled[i].method.sql = AllQueried[i].sql
          /\ compiled[i].ctx = extractContext(Params(AllQueried[i].params)).ctx
          /\ AllQueried[i] \in ToSet(Queried(requests[compiled[i].request]))
    BY <1>1, <1>5, JobsTyped, AllOfRequests
  <1>7. \A i \in DOMAIN AllQueried :
          {out.methods[i].params[j].type : j \in DOMAIN out.methods[i].params} \cup ToSet(out.methods[i].results)
            = PrintedOf(AllQueried[i])
    BY <1>4 DEF PrintedOf, ParamTypes
  <1>8. PrintedTypes(out) = UNION {PrintedOf(AllQueried[i]) : i \in DOMAIN AllQueried}
    BY <1>4, <1>7 DEF PrintedTypes
  <1> QED BY <1>1, <1>3, <1>4, <1>6, <1>8

\* The generator's own imports, and their names.
LEMMA OwnNames ==
  /\ \A imp \in OwnImports : imp.alias = "" /\ NameOf(imp) \in OwnPackages
  /\ \A imp1, imp2 \in OwnImports : NameOf(imp1) = NameOf(imp2) => imp1 = imp2
  /\ \A q \in OwnPackages \ {"strconv"} : \E imp \in FixedImports : NameOf(imp) = q
  /\ NameOf(Import(<< <<"strconv">> >>)) = "strconv"
  /\ \A imp \in FixedImports : NameOf(imp) # "strconv"
PROOF
  <1> DEFINE A == Import(<< <<"context">> >>)
             B == Import(<< <<"strings">> >>)
             C == Import(Errors)
             D == Import(Simplesql)
             E == Import(<< <<"strconv">> >>)
  <1>1. /\ A.alias = "" /\ B.alias = "" /\ C.alias = "" /\ D.alias = "" /\ E.alias = ""
        /\ NameOf(A) = "context" /\ NameOf(B) = "strings" /\ NameOf(C) = "errors"
        /\ NameOf(D) = "simplesql" /\ NameOf(E) = "strconv"
    BY PackagesAssumption DEF Import, NameOf
  <1>2. FixedImports = {A, B, C, D} /\ OwnImports = {A, B, C, D, E}
    BY DEF FixedImports, OwnImports
  <1> HIDE DEF A, B, C, D, E
  <1>3. E = Import(<< <<"strconv">> >>)
    BY DEF E
  <1> QED BY <1>1, <1>2, <1>3 DEF OwnPackages

\* What a plain file imports.
LEMMA PlainImported ==
  ASSUME PlainFile
  PROVE  /\ FixedImports \subseteq out.imports
         /\ \A i \in DOMAIN compiled : compiled[i].strconv => Import(<< <<"strconv">> >>) \in out.imports
         /\ \A k \in DOMAIN requests : ToSet(requests[k].imports) \subseteq out.imports
         /\ \A imp \in out.imports :
              \/ imp \in FixedImports
              \/ imp = Import(<< <<"strconv">> >>) /\ \E i \in DOMAIN compiled : compiled[i].strconv
              \/ \E k \in DOMAIN requests : imp \in ToSet(requests[k].imports)
         /\ \A imp \in out.imports : imp \in OwnImports \/ imp \in AllImports
         /\ \A k \in DOMAIN requests : ToSet(requests[k].file.imports) \subseteq AllImports
         /\ \A imp \in Named(AllImports) : LocalName(imp) = << NameOf(imp) >>
PROOF
  <1> DEFINE E == Import(<< <<"strconv">> >>)
  <1>1. out.imports = buildImportBlock
    BY PlainWritten
  <1>2. out.imports = FixedImports
          \cup (IF \E i \in DOMAIN compiled : compiled[i].strconv THEN {E} ELSE {})
          \cup UNION {ToSet(requests[i].imports) : i \in DOMAIN requests}
    BY <1>1 DEF buildImportBlock
  <1>3. E \in OwnImports /\ FixedImports \subseteq OwnImports
    BY DEF OwnImports
  <1>4. \A k \in DOMAIN requests : ToSet(requests[k].imports) \subseteq ToSet(requests[k].file.imports)
    <2>1. GInv
      BY DEF PlainFile
    <2> QED BY <2>1, AllOfRequests, ImportsKept
  <1>5. \A k \in DOMAIN requests : ToSet(requests[k].file.imports) \subseteq AllImports
    BY DEF AllImports
  <1>6. ASSUME NEW imp \in Named(AllImports) PROVE LocalName(imp) = << NameOf(imp) >>
    <2>1. imp.alias = "" => defaultImportName(imp.path) = << PackageName[imp.path] >>
      BY DEF PlainFile, PlainImports
    <2> QED BY <2>1 DEF LocalName, NameOf
  <1> HIDE DEF E
  <1> QED BY <1>2, <1>3, <1>4, <1>5, <1>6 DEF E

\* Names of parameters are names of the declaration.
LEMMA ParamNamed ==
  ASSUME NEW fields, FieldList(fields), NEW k \in DOMAIN Params(fields)
  PROVE  \E i \in DOMAIN fields : Params(fields)[k].name \in ToSet(fields[i].names)
PROOF
  <1> DEFINE e == Params(fields)[k]
             g == Groups(fields)
  <1>1. Params(fields) \in Seq(ParamSet)
    BY ParamsAreGroups
  <1>2. In(e, Params(fields))
    BY <1>1, LenProperties DEF In
  <1>3. PICK i \in 1..Len(fields) : In(e, g[i])
    BY <1>2, ParamsElements
  <1>4. PICK j \in 1..Len(g[i]) : g[i][j] = e
    BY <1>3 DEF In
  <1>5. Len(g[i]) = Len(fields[i].names) /\ g[i][j].name = fields[i].names[j]
    BY <1>3, <1>4, GroupsTyped
  <1>6. fields[i].names \in Seq(STRING) /\ DOMAIN fields = 1..Len(fields)
    BY FieldTyped, FieldsTyped
  <1>7. fields[i].names[j] \in ToSet(fields[i].names)
    BY <1>4, <1>5, <1>6, LenProperties DEF ToSet
  <1>8. e.name = fields[i].names[j]
    BY <1>4, <1>5
  <1> QED BY <1>6, <1>7, <1>8

-----------------------------------------------------------------------------
(* Imports. *)

\* No two imports have the same name.
LEMMA ImportsDiffer ==
  ASSUME PlainFile
  PROVE  \A imp1, imp2 \in Named(out.imports) : NameOf(imp1) = NameOf(imp2) => imp1 = imp2
PROOF
  <1>1. /\ \A imp \in Named(AllImports) : NameOf(imp) \in OwnPackages => imp \in OwnImports
        /\ \A imp1, imp2 \in Named(AllImports) : NameOf(imp1) = NameOf(imp2) => imp1 = imp2
    BY DEF PlainFile, PlainImports
  <1>2. \A imp \in Named(out.imports) : imp \in OwnImports \/ imp \in Named(AllImports)
    BY PlainImported DEF Named
  <1>3. /\ \A imp \in OwnImports : NameOf(imp) \in OwnPackages
        /\ \A imp1, imp2 \in OwnImports : NameOf(imp1) = NameOf(imp2) => imp1 = imp2
    BY OwnNames
  <1> QED BY <1>1, <1>2, <1>3

\* The names a file uses.
LEMMA UsedParts ==
  ASSUME NEW f, NEW q
  PROVE  q \in UsedNames(f) <=>
           \/ q = "simplesql"
           \/ \E t \in PrintedTypes(f) : q \in Qualifiers(t)
           \/ \E i \in DOMAIN f.methods : q \in f.methods[i].packages
PROOF
  <1> DEFINE A == UNION {Qualifiers(t) : t \in PrintedTypes(f)}
             B == UNION {f.methods[i].packages : i \in DOMAIN f.methods}
  <1>1. q \in UsedNames(f) <=> q = "simplesql" \/ q \in A \/ q \in B
    BY DEF UsedNames
  <1>2. q \in A <=> \E t \in PrintedTypes(f) : q \in Qualifiers(t)
    OBVIOUS
  <1>3. q \in B <=> \E i \in DOMAIN f.methods : q \in f.methods[i].packages
    OBVIOUS
  <1> HIDE DEF A, B
  <1> QED BY <1>1, <1>2, <1>3

\* A package that a printed type mentions is imported.
LEMMA MentionedImported ==
  ASSUME PlainFile, NEW i \in DOMAIN AllQueried, NEW q, Mentions(AllQueried[i], q)
  PROVE  \E imp \in Named(out.imports) : NameOf(imp) = q
PROOF
  <1> DEFINE d == AllQueried[i]
             r == requests[compiled[i].request]
  <1>1. /\ d \in Good /\ Formatted(d) /\ PlainDeclaration(d)
        /\ compiled[i].request \in DOMAIN requests /\ Valid(r.file, d) /\ d \in ToSet(Queried(r))
    BY PlainWritten
  <1>2. IsRequest(r)
    BY <1>1, AllOfRequests DEF PlainFile
  <1>3. /\ ToSet(r.imports) \subseteq out.imports /\ ToSet(r.file.imports) \subseteq AllImports
        /\ \A imp \in Named(AllImports) : LocalName(imp) = << NameOf(imp) >>
    BY <1>1, PlainImported
  <1>4. Mentions(d, q)
    OBVIOUS
  <1> HIDE DEF d, r
  <1>5. PICK t \in PrintedOf(d) : q \in Qualifiers(t)
    BY <1>4 DEF Mentions
  <1>6. t \in DeclaredTypes(d)
    BY <1>1, PrintedSelects
  <1>7. PICK imp \in Named(ToSet(r.file.imports)) : NameOf(imp) = q
    BY <1>1, <1>5, <1>6 DEF Valid
  <1>8. PICK u \in UsedOf(d) : Contains(u, ".") /\ Qualifier(u) = <<q>>
    <2>1. Picks(d, q)
      BY <1>1, <1>4, PicksMentions
    <2> QED BY <2>1 DEF Picks
  <1>9. LocalName(imp) = <<q>> /\ imp \in ToSet(r.file.imports) /\ imp.alias \notin {"_", "."}
    BY <1>3, <1>7 DEF Named
  <1>10. imp \in ToSet(r.imports)
    BY <1>1, <1>2, <1>8, <1>9, ImportsKept
  <1> QED BY <1>3, <1>7, <1>9, <1>10 DEF Named

\* A package that a method mentions is imported.
LEMMA UsedImported ==
  ASSUME PlainFile, NEW q \in UsedNames(out)
  PROVE  \E imp \in Named(out.imports) : NameOf(imp) = q
PROOF
  <1>1. \A p \in OwnPackages \ {"strconv"} : \E imp \in Named(out.imports) : NameOf(imp) = p
    BY OwnNames, PlainImported DEF Named, OwnImports
  <1>2. CASE q = "simplesql"
    BY <1>1, <1>2 DEF OwnPackages
  <1>3. ASSUME NEW t \in PrintedTypes(out), q \in Qualifiers(t)
        PROVE  \E imp \in Named(out.imports) : NameOf(imp) = q
    <2>1. PICK i \in DOMAIN AllQueried : t \in PrintedOf(AllQueried[i])
      BY <1>3, PlainWritten
    <2>2. Mentions(AllQueried[i], q)
      BY <1>3, <2>1 DEF Mentions
    <2> QED BY <2>2, MentionedImported
  <1>4. ASSUME NEW i \in DOMAIN out.methods, q \in out.methods[i].packages
        PROVE  \E imp \in Named(out.imports) : NameOf(imp) = q
    <2>1. i \in DOMAIN compiled /\ q \in PackagesOf(compiled[i])
      BY <1>4, PlainWritten
    <2> DEFINE answers == compiled[i].strconv
    <2>2. q \in {"strings", "errors", "simplesql", "context"} \cup IF answers THEN {"strconv"} ELSE {}
      BY <2>1 DEF PackagesOf
    <2>5. compiled[i].strconv => Import(<< <<"strconv">> >>) \in out.imports
      BY <2>1, PlainImported
    <2> HIDE DEF answers
    <2>3. CASE q \in {"strings", "errors", "simplesql", "context"}
      BY <1>1, <2>3 DEF OwnPackages
    <2>4. ASSUME answers, q = "strconv"
          PROVE  \E imp \in Named(out.imports) : NameOf(imp) = q
      <3> DEFINE imp == Import(<< <<"strconv">> >>)
      <3>1. imp \in out.imports
        BY <2>4, <2>5 DEF answers
      <3>2. imp.alias = "" /\ NameOf(imp) = "strconv"
        BY OwnNames DEF OwnImports
      <3> HIDE DEF imp
      <3>3. imp.alias \notin {"_", "."}
        BY <3>2
      <3>4. imp \in Named(out.imports)
        BY <3>1, <3>3 DEF Named
      <3> QED BY <2>4, <3>2, <3>4
    <2> QED BY <2>2, <2>3, <2>4
  <1> QED BY <1>2, <1>3, <1>4, UsedParts

\* A package whose import a request keeps is mentioned.
LEMMA KeptUsed ==
  ASSUME PlainFile, NEW k \in DOMAIN requests, NEW imp \in ToSet(requests[k].imports),
         imp.alias \notin {"_", "."}
  PROVE  NameOf(imp) \in UsedNames(out)
PROOF
  <1> DEFINE r == requests[k]
             q == NameOf(imp)
  <1>1. IsRequest(r)
    BY AllOfRequests DEF PlainFile
  <1>2. ToSet(r.file.imports) \subseteq AllImports /\ \A i \in Named(AllImports) : LocalName(i) = << NameOf(i) >>
    BY PlainImported
  <1>3. \A d \in ToSet(Queried(r)) : \E i \in DOMAIN AllQueried : AllQueried[i] = d
    BY AllOfRequests DEF PlainFile
  <1>4. imp \in ToSet(r.imports)
    OBVIOUS
  <1> HIDE DEF r
  <1>5. /\ imp \in ToSet(r.file.imports)
        /\ \E d \in ToSet(Queried(r)) : \E u \in UsedOf(d) : Contains(u, ".") /\ LocalName(imp) = Qualifier(u)
    BY <1>1, <1>4, ImportsKept
  <1>6. PICK d \in ToSet(Queried(r)) : \E u \in UsedOf(d) : Contains(u, ".") /\ LocalName(imp) = Qualifier(u)
    BY <1>5
  <1>7. LocalName(imp) = <<q>>
    BY <1>2, <1>5 DEF Named
  <1>8. Picks(d, q)
    BY <1>6, <1>7 DEF Picks
  <1> HIDE DEF q
  <1>9. PICK i \in DOMAIN AllQueried : AllQueried[i] = d
    BY <1>3, <1>6
  <1>10. d \in Good /\ Formatted(d) /\ PlainDeclaration(d)
    BY <1>9, PlainWritten
  <1>11. Mentions(d, q)
    BY <1>8, <1>10, PicksMentions
  <1>12. PICK t \in PrintedOf(d) : q \in Qualifiers(t)
    BY <1>11 DEF Mentions
  <1>13. t \in PrintedTypes(out)
    BY <1>9, <1>12, PlainWritten
  <1>14. q \in UsedNames(out)
    BY <1>12, <1>13, UsedParts
  <1> QED BY <1>14 DEF q

\* Every method mentions strings, and context, in its body or in its type.
LEMMA MethodsUse ==
  ASSUME PlainFile, NEW i \in DOMAIN AllQueried
  PROVE  /\ {"strings", "context"} \subseteq UsedNames(out)
         /\ compiled[i].strconv => "strconv" \in UsedNames(out)
         /\ AllQueried[i].results # << >> => "errors" \in UsedNames(out)
PROOF
  <1> DEFINE d == AllQueried[i]
             c == compiled[i]
  <1>1. /\ i \in DOMAIN out.methods /\ out.methods[i].packages = PackagesOf(c)
        /\ d \in Good /\ c.ctx = extractContext(Params(d.params)).ctx /\ c.method = MethodOf(d)
        /\ PrintedOf(d) \subseteq PrintedTypes(out)
    BY PlainWritten
  <1>2. PackagesOf(c) \subseteq UsedNames(out)
    <2>1. \A p \in out.methods[i].packages : p \in UsedNames(out)
      BY <1>1, UsedParts
    <2> QED BY <1>1, <2>1
  <1> HIDE DEF d, c
  <1>3. "strings" \in PackagesOf(c) /\ (c.strconv => "strconv" \in PackagesOf(c))
    <2>1. "strings" \in PackagesOf(c)
      BY DEF PackagesOf
    <2>2. ASSUME c.strconv PROVE "strconv" \in PackagesOf(c)
      <3>1. {"strconv"} \subseteq PackagesOf(c)
        BY <2>2 DEF PackagesOf
      <3> QED BY <3>1
    <2> QED BY <2>1, <2>2
  <1>4. "context" \in UsedNames(out)
    <2> DEFINE ps == Params(d.params)
    <2>1. CASE ps # << >> /\ ps[1].type = ContextType
      <3>1. 1 \in DOMAIN ps
        <4>1. ps \in Seq(ParamSet)
          BY <1>1, GoodTyped, ParamsAreGroups
        <4> QED BY <2>1, <4>1
      <3>2. ContextType \in PrintedTypes(out)
        BY <1>1, <2>1, <3>1 DEF PrintedOf, ParamTypes
      <3>3. "context" \in Qualifiers(ContextType)
        <4>1. /\ 1 \in DOMAIN ContextType /\ 1 < Len(ContextType) /\ ContextType[1 + 1] = "."
              /\ ContextType[1] = "context"
          BY ContextWords DEF ContextType
        <4> QED BY <4>1 DEF Qualifiers
      <3> QED BY <3>2, <3>3, UsedParts
    <2>2. CASE ~(ps # << >> /\ ps[1].type = ContextType)
      <3>1. c.ctx = Background
        BY <1>1, <2>2 DEF extractContext, ContextType
      <3>2. "context" \in PackagesOf(c)
        BY <3>1 DEF PackagesOf
      <3> QED BY <1>2, <3>2
    <2> QED BY <2>1, <2>2
  <1>5. ASSUME d.results # << >> PROVE "errors" \in PackagesOf(c)
    <2>1. DOMAIN Results(c.method) = 1..Len(d.results)
      BY <1>1, ResultsArePrinted
    <2>2. Len(d.results) \in Nat /\ Len(d.results) # 0
      BY <1>1, <1>5, GoodTyped, FieldsTyped
    <2>3. Results(c.method) # << >>
      <3>1. 1 \in DOMAIN Results(c.method)
        BY <2>1, <2>2
      <3> QED BY <3>1
    <2>4. TemplateOf(c.method) # "execVoid"
      <3> SUFFICES ASSUME TemplateOf(c.method) = "execVoid" PROVE Results(c.method) = << >>
        BY <2>3
      <3> QED BY DEF Results
    <2> QED BY <2>4 DEF PackagesOf
  <1> QED BY <1>2, <1>3, <1>4, <1>5 DEF c, d

\* Exactly the packages that are used are imported.
LEMMA UsedAreImported ==
  ASSUME PlainFile, \E i \in DOMAIN AllQueried : AllQueried[i].results # << >>
  PROVE  UsedNames(out) = {NameOf(imp) : imp \in Named(out.imports)}
PROOF
  <1>1. \A q \in UsedNames(out) : \E imp \in Named(out.imports) : NameOf(imp) = q
    BY UsedImported
  <1>2. ASSUME NEW imp \in Named(out.imports) PROVE NameOf(imp) \in UsedNames(out)
    <2>1. PICK i \in DOMAIN AllQueried : AllQueried[i].results # << >>
      OBVIOUS
    <2>2. imp \in out.imports /\ imp.alias \notin {"_", "."}
      BY DEF Named
    <2>3. CASE imp \in FixedImports
      <3>1. {"strings", "context", "errors", "simplesql"} \subseteq UsedNames(out)
        <4>1. "simplesql" \in UsedNames(out)
          BY UsedParts
        <4> QED BY <2>1, <4>1, MethodsUse
      <3>2. NameOf(imp) \in OwnPackages /\ NameOf(imp) # "strconv"
        BY <2>3, OwnNames DEF OwnImports
      <3> QED BY <3>1, <3>2 DEF OwnPackages
    <2>4. ASSUME imp = Import(<< <<"strconv">> >>), NEW j \in DOMAIN compiled, compiled[j].strconv
          PROVE  NameOf(imp) \in UsedNames(out)
      <3>1. j \in DOMAIN AllQueried
        BY PlainWritten
      <3>2. "strconv" \in UsedNames(out)
        BY <2>4, <3>1, MethodsUse
      <3> QED BY <2>4, <3>2, OwnNames
    <2>5. ASSUME NEW k \in DOMAIN requests, imp \in ToSet(requests[k].imports)
          PROVE  NameOf(imp) \in UsedNames(out)
      BY <2>2, <2>5, KeptUsed
    <2> QED BY <2>2, <2>3, <2>4, <2>5, PlainImported
  <1> QED BY <1>1, <1>2

\* The names of the types are in scope, and the keys of maps can be compared.
LEMMA NamesInScope ==
  ASSUME PlainFile, NEW t \in PrintedTypes(out)
  PROVE  Unqualified(t) \subseteq InScope(out.pkg, out.imports) /\ Comparable(t)
PROOF
  <1>1. PICK i \in DOMAIN AllQueried : t \in PrintedOf(AllQueried[i])
    BY PlainWritten
  <1> DEFINE d == AllQueried[i]
             k == compiled[i].request
             f == requests[k].file
  <1>2. /\ d \in Good /\ Formatted(d) /\ PlainDeclaration(d) /\ k \in DOMAIN requests /\ Valid(f, d)
        /\ t \in PrintedOf(d)
    BY <1>1, PlainWritten
  <1>3. ToSet(f.imports) \subseteq AllImports
    BY <1>2, PlainImported
  <1>4. out.pkg = f.pkg
    <2>1. 1 \in DOMAIN requests
      <3>1. IsSeq(requests)
        BY DEF PlainFile, GInv, Requested
      <3> QED BY <1>2, <3>1, LenProperties DEF IsSeq
    <2> QED BY <1>2, <2>1, PlainWritten DEF PlainFile, PlainEntries
  <1> HIDE DEF d, k, f
  <1>5. t \in DeclaredTypes(d)
    BY <1>2, PrintedSelects
  <1>6. Unqualified(t) \subseteq InScope(f.pkg, ToSet(f.imports)) /\ Comparable(t)
    BY <1>2, <1>5 DEF Valid
  <1>7. Dotted(ToSet(f.imports)) = {}
    BY <1>3 DEF Dotted, PlainFile, PlainImports
  <1> QED BY <1>4, <1>6, <1>7 DEF InScope

\* The rows a query is scanned into are of a declared result's type.
LEMMA RowsDeclared ==
  ASSUME NEW d \in Good, Ordinary(d), Formatted(d),
         TemplateOf(MethodOf(d)) \in {"selectOne", "selectMany"}
  PROVE  1 \in DOMAIN d.results /\ Results(MethodOf(d))[1] = d.results[1].type
PROOF
  <1> DEFINE rs == Results(MethodOf(d))
  <1>1. \E u : rs = <<u, Error>>
    BY DEF Results
  <1>2. 1 \in DOMAIN rs
    BY <1>1
  <1>3. /\ DOMAIN rs = 1..Len(d.results)
        /\ \A i \in 1..Len(d.results) : rs[i] = PrintedType(d.results[i])
    BY ResultsArePrinted
  <1> HIDE DEF rs
  <1>4. DOMAIN d.results = 1..Len(d.results)
    BY GoodTyped, TypesDeclared
  <1>5. \A i \in 1..Len(d.results) : exprToString(d.results[i].type) = d.results[i].type
    BY OrdinaryTypes
  <1> QED BY <1>2, <1>3, <1>4, <1>5 DEF rs, PrintedType

\* The parameters of a declaration that the Go compiler accepts differ.
LEMMA ParamsDiffer ==
  ASSUME NEW d \in Good, NEW f, Valid(f, d)
  PROVE  OnceEach([k \in DOMAIN Params(d.params) |-> Params(d.params)[k].name])
PROOF
  <1> DEFINE names == NamesOf(d.params)
             rest == NamesOf(d.results)
  <1>1. names \in Seq(STRING) /\ rest \in Seq(STRING)
    BY GoodTyped, NamesTyped
  <1>2. OnceEach(names \o rest)
    BY DEF Valid
  <1>3. [k \in DOMAIN Params(d.params) |-> Params(d.params)[k].name] = names
    BY GoodTyped, ParamsNames
  <1> HIDE DEF names, rest
  <1>4. /\ DOMAIN names = 1..Len(names) /\ Len(names) \in Nat /\ Len(rest) \in Nat
        /\ DOMAIN (names \o rest) = 1..Len(names) + Len(rest)
        /\ \A i \in 1..Len(names) + Len(rest) :
             (names \o rest)[i] = IF i <= Len(names) THEN names[i] ELSE rest[i - Len(names)]
    BY <1>1, ConcatProperties, LenProperties
  <1>5. \A i \in 1..Len(names) : i \in DOMAIN (names \o rest) /\ (names \o rest)[i] = names[i]
    <2>1. \A i \in 1..Len(names) : i \in 1..Len(names) + Len(rest) /\ i <= Len(names)
      BY <1>4
    <2> QED BY <1>4, <2>1
  <1>6. OnceEach(names)
    BY <1>2, <1>4, <1>5 DEF OnceEach
  <1> QED BY <1>3, <1>6

\* No parameter is declared twice or hides what the body needs, the context has
\* a name, and the template names parameters only.
LEMMA MethodsBuild ==
  ASSUME PlainFile, NEW i \in DOMAIN out.methods
  PROVE  MethodBuilds(out.methods[i])
PROOF
  <1> DEFINE m == out.methods[i]
             d == AllQueried[i]
             f == requests[compiled[i].request].file
             ps == Params(d.params)
             names == [k \in DOMAIN m.params |-> m.params[k].name]
  <1>1. /\ d \in Good /\ PlainDeclaration(d) /\ Formatted(d) /\ Valid(f, d) /\ m.params = ps
        /\ m.results = Results(MethodOf(d)) /\ m.template = TemplateOf(MethodOf(d))
        /\ m.ctx = extractContext(ps).ctx /\ m.packages = PackagesOf(compiled[i])
        /\ m.foreign = ("foreign" \in d.sql)
    BY PlainWritten
  <1>2. FieldList(d.params)
    BY <1>1, GoodTyped
  <1> HIDE DEF m, d, f
  <1>3. ASSUME NEW k \in DOMAIN ps
        PROVE  /\ ps[k].name \notin Reserved
               /\ \A j \in DOMAIN d.results :
                    ps[k].name \notin Qualifiers(d.results[j].type) \cup Unqualified(d.results[j].type)
    <2>1. PICK j \in DOMAIN d.params : ps[k].name \in ToSet(d.params[j].names)
      BY <1>2, ParamNamed
    <2>2. /\ ToSet(d.params[j].names) \cap Reserved = {}
          /\ \A l \in DOMAIN d.results : \A n \in ToSet(d.params[j].names) :
               n \notin Qualifiers(d.results[l].type) \cup Unqualified(d.results[l].type)
      BY <1>1 DEF PlainDeclaration
    <2> QED BY <2>1, <2>2
  <1>4. m.packages \subseteq Reserved /\ BodyWords \subseteq Reserved /\ Locals(m.template) \subseteq Reserved
    <2>1. m.packages \subseteq OwnPackages
      BY <1>1 DEF PackagesOf, OwnPackages
    <2>2. OwnPackages \subseteq Reserved /\ BodyWords \subseteq Reserved
      BY DEF Reserved
    <2>3. Locals(m.template) \subseteq
            {"s", "_sb", "_args", "_query", "_db", "_rows", "_err", "_cols", "_dest", "_ptrs", "_result",
             "_res", "_id", "_n"}
      BY DEF Locals
    <2> QED BY <2>1, <2>2, <2>3 DEF Reserved
  <1>5. m.template \in {"selectOne", "selectMany"} =>
          1 \in DOMAIN d.results /\ m.results[1] = d.results[1].type
    BY <1>1, RowsDeclared DEF PlainDeclaration
  <1>6. ToSet(names) \cap (Locals(m.template) \cup Meant(m)) = {}
    <2>1. ToSet(names) = {ps[k].name : k \in DOMAIN ps}
      BY <1>1 DEF ToSet
    <2>2. ASSUME NEW k \in DOMAIN ps PROVE ps[k].name \notin Locals(m.template) \cup Meant(m)
      BY <1>3, <1>4, <1>5 DEF Meant
    <2> QED BY <2>1, <2>2
  <1>7. m.ctx # "_"
    <2>1. CASE ps # << >> /\ ps[1].type = ContextType
      <3>1. 1 \in DOMAIN ps
        <4>1. ps \in Seq(ParamSet)
          BY <1>2, ParamsAreGroups
        <4> QED BY <2>1, <4>1
      <3>2. m.ctx = ps[1].name
        BY <1>1, <2>1 DEF extractContext, ContextType
      <3> QED BY <1>3, <3>1, <3>2 DEF Reserved
    <2>2. CASE ~(ps # << >> /\ ps[1].type = ContextType)
      <3>1. m.ctx = Background
        BY <1>1, <2>2 DEF extractContext, ContextType
      <3> QED BY <3>1 DEF Background
    <2> QED BY <2>1, <2>2
  <1>8. OnceEach(names)
    BY <1>1, ParamsDiffer
  <1>9. ~m.foreign
    BY <1>1 DEF PlainDeclaration
  <1>10. MethodBuilds(m)
    BY <1>6, <1>7, <1>8, <1>9 DEF MethodBuilds
  <1> QED BY <1>10 DEF m

\* No name means two things in the file.
LEMMA NoClashes ==
  ASSUME PlainFile, 1 \in DOMAIN requests
  PROVE  NamesDiffer(out)
PROOF
  <1> DEFINE structs == {StructOf(requests[i]) : i \in DOMAIN requests}
             constructors == {NewOf[requests[i].iface] : i \in DOMAIN requests}
             own == Declares[requests[1].file.pkg]
  <1>1. /\ DOMAIN out.types = DOMAIN requests /\ out.pkg = requests[1].file.pkg
        /\ \A i \in DOMAIN requests : /\ out.types[i].struct = StructOf(requests[i])
                                      /\ out.types[i].iface = requests[i].iface
    BY PlainWritten
  <1>2. /\ {out.types[i].struct : i \in DOMAIN out.types} = structs
        /\ {NewOf[out.types[i].iface] : i \in DOMAIN out.types} = constructors
    BY <1>1
  <1>3. \A imp \in out.imports : imp.alias # "."
    <2>1. \A imp \in out.imports : imp \in OwnImports \/ imp \in AllImports
      BY PlainImported
    <2>2. \A imp \in OwnImports : imp.alias # "."
      BY OwnNames
    <2> QED BY <2>1, <2>2 DEF PlainFile, PlainImports
  <1>4. Dotted(out.imports) = {}
    BY <1>3 DEF Dotted
  <1>5. ImportNames(out.imports) \subseteq ImportNames(AllImports) \cup OwnPackages
    <2>1. \A imp \in Named(out.imports) : imp \in OwnImports \/ imp \in Named(AllImports)
      BY PlainImported DEF Named
    <2>2. \A imp \in OwnImports : NameOf(imp) \in OwnPackages
      BY OwnNames
    <2> QED BY <2>1, <2>2 DEF ImportNames
  <1>6. /\ Disjoint(<<structs, constructors, own, ImportNames(AllImports) \cup OwnPackages, FileWords>>)
        /\ (structs \cup constructors) \cap {"_", "init", "main"} = {}
        /\ \A i, j \in DOMAIN requests : i # j =>
             /\ NewOf[requests[i].iface] # NewOf[requests[j].iface]
             /\ StructOf(requests[i]) # StructOf(requests[j])
    BY DEF PlainFile, PlainEntries
  <1>7. \A imp1, imp2 \in Named(out.imports) : NameOf(imp1) = NameOf(imp2) => imp1 = imp2
    BY ImportsDiffer
  <1> HIDE DEF structs, constructors, own
  <1>8. Disjoint(<<structs, constructors, own, ImportNames(out.imports), Dotted(out.imports), FileWords>>)
    <2> DEFINE all == ImportNames(AllImports) \cup OwnPackages
               kept == ImportNames(out.imports)
               old == <<structs, constructors, own, all, FileWords>>
               new == <<structs, constructors, own, kept, Dotted(out.imports), FileWords>>
    <2>1. \A a, b \in 1..5 : a # b => old[a] \cap old[b] = {}
      <3>1. Disjoint(old)
        BY <1>6
      <3>2. DOMAIN old = 1..5
        OBVIOUS
      <3> HIDE DEF old
      <3> QED BY <3>1, <3>2 DEF Disjoint
    <2>2. DOMAIN new = 1..6 /\ new[5] = {}
      BY <1>4
    <2>3. \A a \in 1..4 : new[a] \subseteq old[a]
      <3>1. \A a \in 1..4 : a = 1 \/ a = 2 \/ a = 3 \/ a = 4
        OBVIOUS
      <3> HIDE DEF all, kept
      <3>2. kept \subseteq all
        BY <1>5 DEF all, kept
      <3> QED BY <3>1, <3>2
    <2>4. new[6] = old[5]
      OBVIOUS
    <2> HIDE DEF old, new
    <2>5. ASSUME NEW a \in 1..6, NEW b \in 1..6, a # b PROVE new[a] \cap new[b] = {}
      <3>1. CASE a = 5 \/ b = 5
        BY <2>2, <3>1
      <3>2. CASE a # 5 /\ b # 5
        <4>1. PICK k \in 1..5 : new[a] \subseteq old[k] /\ k = IF a = 6 THEN 5 ELSE a
          BY <2>3, <2>4, <3>2
        <4>2. PICK l \in 1..5 : new[b] \subseteq old[l] /\ l = IF b = 6 THEN 5 ELSE b
          BY <2>3, <2>4, <3>2
        <4>3. k # l
          BY <2>5, <3>2, <4>1, <4>2
        <4> QED BY <2>1, <4>1, <4>2, <4>3
      <3> QED BY <3>1, <3>2
    <2>6. Disjoint(new)
      BY <2>2, <2>5 DEF Disjoint
    <2> QED BY <2>6 DEF new
  <1>9. out.pkg = requests[1].file.pkg => Declares[out.pkg] = own
    BY DEF own
  <1>10. \A i, j \in DOMAIN out.types : i # j =>
           /\ out.types[i].struct # out.types[j].struct
           /\ NewOf[out.types[i].iface] # NewOf[out.types[j].iface]
    <2> SUFFICES ASSUME NEW i \in DOMAIN requests, NEW j \in DOMAIN requests, i # j
                 PROVE  /\ out.types[i].struct # out.types[j].struct
                        /\ NewOf[out.types[i].iface] # NewOf[out.types[j].iface]
      BY <1>1
    <2>1. /\ NewOf[out.types[i].iface] = NewOf[requests[i].iface]
          /\ NewOf[out.types[j].iface] = NewOf[requests[j].iface]
      BY <1>1
    <2>2. out.types[i].struct = StructOf(requests[i]) /\ out.types[j].struct = StructOf(requests[j])
      BY <1>1
    <2> QED BY <1>6, <2>1, <2>2
  <1> QED BY <1>1, <1>2, <1>3, <1>6, <1>7, <1>8, <1>9, <1>10 DEF NamesDiffer

\* A file builds whatever methods, results and dialects come together in it, if
\* its sources avoid what the generator does not look at and some method
\* answers something (parser.go:123-157, generator.go:166-183).
THEOREM PlainFilesAreBuilt == GoSpec => []PlainFilesBuild
PROOF
  <1>1. ASSUME GInv, NInv PROVE PlainFilesBuild
    <2> SUFFICES ASSUME state = "written", PlainImports, PlainEntries,
                        \A i \in DOMAIN AllQueried : PlainDeclaration(AllQueried[i]),
                        \E i \in DOMAIN AllQueried : AllQueried[i].results # << >>
                 PROVE  GoBuilds(out)
      BY DEF PlainFilesBuild
    <2>1. PlainFile
      BY <1>1 DEF PlainFile
    <2>2. NamesDiffer(out)
      <3>1. 1 \in DOMAIN requests
        <4>1. PICK i \in DOMAIN AllQueried : compiled[i].request \in DOMAIN requests
          BY <2>1, PlainWritten
        <4>2. IsSeq(requests)
          BY <1>1 DEF GInv, Requested
        <4> QED BY <4>1, <4>2, LenProperties DEF IsSeq
      <3> QED BY <2>1, <3>1, NoClashes
    <2>3. UsedNames(out) = ImportNames(out.imports)
      BY <2>1, UsedAreImported DEF ImportNames
    <2>4. \A imp \in out.imports : imp.alias # "."
      <3>1. \A imp \in out.imports : imp \in OwnImports \/ imp \in AllImports
        BY <2>1, PlainImported
      <3>2. \A imp \in OwnImports : imp.alias # "."
        BY OwnNames
      <3> QED BY <3>1, <3>2 DEF PlainImports
    <2>5. \A t \in PrintedTypes(out) : Unqualified(t) \subseteq InScope(out.pkg, out.imports) /\ Comparable(t)
      BY <2>1, NamesInScope
    <2>6. \A i \in DOMAIN out.methods : MethodBuilds(out.methods[i])
      BY <2>1, MethodsBuild
    <2>7. MethodsDiffer(out)
      <3>1. /\ DOMAIN out.methods = DOMAIN compiled
            /\ \A i \in DOMAIN compiled :
                 /\ out.methods[i].name = compiled[i].method.name /\ out.methods[i].name # "cm"
                 /\ out.methods[i].request = compiled[i].request
        BY <2>1, PlainWritten DEF PlainDeclaration
      <3> QED BY <1>1, <3>1 DEF NInv, Same, MethodsDiffer
    <2> QED BY <2>2, <2>3, <2>4, <2>5, <2>6, <2>7 DEF GoBuilds
  <1> QED BY <1>1, FileInvariance, MethodsAreDistinct, PTL
=============================================================================
