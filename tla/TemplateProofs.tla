--------------------------- MODULE TemplateProofs ---------------------------
(***************************************************************************)
(* What holds of every template of any length, for any parameters and      *)
(* conditions: the flag for strconv is right, on Postgres every            *)
(* placeholder names its own argument however the conditions fall out,     *)
(* exactly the well-formed templates compile, and the query and arguments  *)
(* of the generated method mean what the template means.                   *)
(*                                                                         *)
(* The inductive invariant has four parts. BInv adds to the types that the *)
(* statement which needs strconv is the one that raises the flag, and that *)
(* neither the compiler nor the body ever uses a "?" on Postgres. WInv     *)
(* says that the frames are the open blocks of the tokens read. CInv cuts  *)
(* the statements written into those of each token read. RInv says at      *)
(* which token the run of the body is, that the if statements around know  *)
(* whether their branch is taken, and that the query and the arguments are *)
(* what the tokens before it mean.                                         *)
(***************************************************************************)
EXTENDS GeneratedBody, SequenceLemmas, FiniteSetTheorems

Uses(op) == \E i \in DOMAIN body : body[i].op = op

FlagInv == needsStrconv <=> Uses("bind")
OnlyDollars == dialect = "postgres" => ~Uses("mark")

\* "$n" is the n-th argument, for every placeholder so far.
Numbered ==
  dialect = "postgres" =>
    \A i \in DOMAIN query : query[i].kind = "mark" =>
      query[i].pos \in DOMAIN args /\ args[query[i].pos] = query[i].of

Distinct ==
  dialect = "postgres" =>
    \A i, j \in DOMAIN query :
      query[i].kind = "mark" /\ query[j].kind = "mark" /\ query[i].pos = query[j].pos => i = j

BInv == BodyTypeOK /\ FlagInv /\ OnlyDollars /\ Numbered /\ Distinct

-----------------------------------------------------------------------------

\* Nothing is compiled or run at the start.
LEMMA InitBInv == BodyInit => BInv
<1> SUFFICES ASSUME BodyInit PROVE BInv
  OBVIOUS
<1>1. CompilerTypeOK
  <2>1. /\ seen \in Seq(Tokens) /\ text \in Seq(Words) /\ paramNames \in Seq(Identifiers)
        /\ frames \in Seq({"if", "else"}) /\ body \in Seq(Stmts)
    BY EmptySeq DEF BodyInit, CompilerInit
  <2>2. QED
    BY <2>1 DEF BodyInit, CompilerInit, CompilerTypeOK
<1>2. Len(body) = 0 /\ DOMAIN body = {} /\ DOMAIN query = {}
  BY DEF BodyInit, CompilerInit
<1>3. BodyTypeOK
  BY <1>1, <1>2 DEF BodyInit, BodyTypeOK
<1>4. FlagInv /\ OnlyDollars /\ Numbered /\ Distinct
  BY <1>2 DEF BodyInit, CompilerInit, FlagInv, OnlyDollars, Numbered, Distinct, Uses
<1>5. QED
  BY <1>3, <1>4 DEF BInv

\* The constructors build tokens.
LEMMA TokensAreTokens ==
  /\ \A x \in Texts : TextTok(x) \in Tokens
  /\ \A e \in Exprs : IfTok(e) \in Tokens /\ ElseIfTok(e) \in Tokens
  /\ ElseTok \in Tokens /\ EndTok \in Tokens
  /\ \A n \in Identifiers : SubstTok(n) \in Tokens
  BY DEF Tokens

\* What a statement can speak of.
LEMMA NamesAreNames ==
  Identifiers \subseteq Names /\ Exprs \subseteq Names /\ Words \subseteq Names
  BY DEF Names

\* A text is a sequence of words.
LEMMA WordsOfTexts ==
  ASSUME NEW x \in Texts
  PROVE  x \in Seq(Words)
<1>1. x \in Seq(STRING)
  BY TextsAssumption
<1>2. ToSet(x) \in {ToSet(y) : y \in Texts}
  OBVIOUS
<1>3. \A i \in DOMAIN x : x[i] \in Words
  BY <1>2 DEF Words, ToSet
<1>4. QED
  BY <1>1, <1>3

\* A statement has the operation it was built with.
LEMMA Statements ==
  ASSUME NEW op \in Ops, NEW of \in Names
  PROVE  Stmt(op, of) \in Stmts /\ Stmt(op, of).op = op
  BY DEF Stmt, Stmts

\* Statements appended to a body add what they use.
LEMMA AppendUses ==
  ASSUME body \in Seq(Stmts), NEW s \in Stmts, body' = Append(body, s), NEW op
  PROVE  body' \in Seq(Stmts) /\ (Uses(op)' <=> Uses(op) \/ s.op = op)
<1>1. body' \in Seq(Stmts) /\ Len(body') = Len(body) + 1 /\ Len(body) \in Nat
  OBVIOUS
<1>2. body'[Len(body) + 1] = s /\ \A i \in 1..Len(body) : body'[i] = body[i]
  OBVIOUS
<1>3. DOMAIN body = 1..Len(body) /\ DOMAIN body' = 1..(Len(body) + 1)
  BY <1>1
<1>4. QED
  BY <1>1, <1>2, <1>3 DEF Uses

\* The same for several statements at once.
LEMMA ConcatUses ==
  ASSUME body \in Seq(Stmts), NEW s \in Seq(Stmts), body' = body \o s, NEW op
  PROVE  /\ body' \in Seq(Stmts) /\ Len(body') >= Len(body)
         /\ Uses(op)' <=> Uses(op) \/ \E i \in DOMAIN s : s[i].op = op
<1>1. /\ body' \in Seq(Stmts) /\ Len(body') = Len(body) + Len(s)
      /\ Len(body) \in Nat /\ Len(s) \in Nat
  OBVIOUS
<1>2. /\ \A i \in 1..Len(body) : body'[i] = body[i]
      /\ \A i \in 1..Len(s) : body'[Len(body) + i] = s[i]
  OBVIOUS
<1>3. /\ DOMAIN body = 1..Len(body) /\ DOMAIN s = 1..Len(s)
      /\ DOMAIN body' = 1..(Len(body) + Len(s))
  BY <1>1
<1>4. ASSUME Uses(op)'
      PROVE  Uses(op) \/ \E i \in DOMAIN s : s[i].op = op
  <2>1. PICK i \in 1..(Len(body) + Len(s)) : body'[i].op = op
    BY <1>3, <1>4 DEF Uses
  <2>2. CASE i <= Len(body)
    BY <1>1, <1>2, <1>3, <2>1, <2>2 DEF Uses
  <2>3. CASE i > Len(body)
    <3>1. i - Len(body) \in 1..Len(s) /\ i = Len(body) + (i - Len(body))
      BY <1>1, <2>1, <2>3
    <3>2. s[i - Len(body)].op = op
      BY <1>2, <2>1, <3>1
    <3>3. QED
      BY <1>3, <3>1, <3>2
  <2>4. QED
    BY <1>1, <2>1, <2>2, <2>3
<1>5. ASSUME Uses(op)
      PROVE  Uses(op)'
  BY <1>1, <1>2, <1>3, <1>5 DEF Uses
<1>6. ASSUME NEW i \in DOMAIN s, s[i].op = op
      PROVE  Uses(op)'
  <2>1. Len(body) + i \in DOMAIN body' /\ body'[Len(body) + i].op = op
    BY <1>1, <1>2, <1>3, <1>6
  <2>2. QED
    BY <2>1 DEF Uses
<1>7. QED
  BY <1>1, <1>4, <1>5, <1>6

-----------------------------------------------------------------------------
(* The compiler. *)

\* A token is read.
LEMMA ReadTypes ==
  ASSUME CompilerTypeOK, NEW t \in Tokens, Read(t)
  PROVE  /\ seen' \in Seq(Tokens) /\ paramNames' \in Seq(Identifiers)
         /\ dialect' = dialect /\ reportsId' = reportsId
         /\ dialect' \in Dialects /\ reportsId' \in IdMethods
  BY DEF CompilerTypeOK, Read

\* The compiler works before the body runs: a body that only grows keeps what
\* is said of the call.
LEMMA BodyGrows ==
  ASSUME BInv, UNCHANGED bodyVars, dialect' = dialect, CompilerTypeOK',
         Len(body') >= Len(body), FlagInv', OnlyDollars'
  PROVE  BInv'
<1>1. Len(body) \in Nat /\ Len(body') \in Nat
  BY DEF BInv, BodyTypeOK, CompilerTypeOK
<1>2. BodyTypeOK'
  BY <1>1 DEF BInv, BodyTypeOK, bodyVars
<1>3. Numbered' /\ Distinct'
  BY DEF BInv, Numbered, Distinct, bodyVars
<1>4. QED
  BY <1>2, <1>3 DEF BInv

\* A step that writes nothing.
LEMMA BodyStays ==
  ASSUME BInv, UNCHANGED bodyVars, dialect' = dialect, CompilerTypeOK',
         body' = body, needsStrconv' = needsStrconv
  PROVE  BInv'
<1>1. FlagInv' /\ OnlyDollars' /\ Len(body') >= Len(body)
  BY DEF BInv, BodyTypeOK, CompilerTypeOK, FlagInv, OnlyDollars, Uses
<1>2. QED
  BY <1>1, BodyGrows

\* A statement that is no placeholder is added.
LEMMA BodyAppends ==
  ASSUME BInv, UNCHANGED bodyVars, dialect' = dialect, CompilerTypeOK',
         NEW s \in Stmts, s.op \notin {"bind", "mark"}, body' = Append(body, s),
         needsStrconv' = needsStrconv
  PROVE  BInv'
<1>1. body \in Seq(Stmts)
  BY DEF BInv, BodyTypeOK, CompilerTypeOK
<1>2. (Uses("bind")' <=> Uses("bind")) /\ (Uses("mark")' <=> Uses("mark"))
  BY <1>1, AppendUses
<1>3. Len(body') >= Len(body)
  BY <1>1
<1>4. FlagInv' /\ OnlyDollars'
  BY <1>2 DEF BInv, FlagInv, OnlyDollars
<1>5. QED
  BY <1>3, <1>4, BodyGrows

\* Texts are taken up, and templates rejected, without a word written.
LEMMA TokenSteps ==
  ASSUME BInv, UNCHANGED bodyVars,
         \/ \E x \in Texts : Text(x)
         \/ \E n \in Identifiers : BadSubst(n)
         \/ \E t \in Tokens : Stray(t)
         \/ Unfinished
  PROVE  BInv'
<1>1. ASSUME NEW x \in Texts, Text(x)
      PROVE  CompilerTypeOK' /\ body' = body /\ needsStrconv' = needsStrconv /\ dialect' = dialect
  BY <1>1, ReadTypes, TokensAreTokens, WordsOfTexts
     DEF BInv, BodyTypeOK, CompilerTypeOK, Text
<1>2. ASSUME NEW n \in Identifiers, BadSubst(n)
      PROVE  CompilerTypeOK' /\ body' = body /\ needsStrconv' = needsStrconv /\ dialect' = dialect
  BY <1>2, ReadTypes, TokensAreTokens DEF BInv, BodyTypeOK, CompilerTypeOK, BadSubst
<1>3. ASSUME NEW t \in Tokens, Stray(t)
      PROVE  CompilerTypeOK' /\ body' = body /\ needsStrconv' = needsStrconv /\ dialect' = dialect
  BY <1>3, ReadTypes DEF BInv, BodyTypeOK, CompilerTypeOK, Stray
<1>4. ASSUME Unfinished
      PROVE  CompilerTypeOK' /\ body' = body /\ needsStrconv' = needsStrconv /\ dialect' = dialect
  BY <1>4 DEF BInv, BodyTypeOK, CompilerTypeOK, Unfinished
<1>5. QED
  BY <1>1, <1>2, <1>3, <1>4, BodyStays

\* The lines of an if statement, and a substitution.
LEMMA LineSteps ==
  ASSUME BInv, UNCHANGED bodyVars,
         \/ \E n \in Identifiers : Subst(n)
         \/ \E e \in Exprs : If(e) \/ ElseIf(e)
         \/ Else \/ End
  PROVE  BInv'
<1> DEFINE Adds == \E s \in Stmts : s.op \notin {"bind", "mark"} /\ body' = Append(body, s)
           Rest == dialect' = dialect /\ needsStrconv' = needsStrconv
<1>1. "" \in Names /\ {"if", "elseif", "else", "end", "subst", "substptr"} \subseteq Ops
  <2>1. "" \in Names
    BY DEF Names
  <2>2. {"if", "elseif", "else", "end", "subst", "substptr"} \subseteq Ops
    BY DEF Ops
  <2>3. QED
    BY <2>1, <2>2
<1>2. ASSUME NEW s \in Stmts, body' = Append(body, s)
      PROVE  body' \in Seq(Stmts)
  BY <1>2 DEF BInv, BodyTypeOK, CompilerTypeOK
<1>3. ASSUME NEW n \in Identifiers, Subst(n)
      PROVE  CompilerTypeOK' /\ Adds /\ Rest
  <2>1. PICK op \in {"subst", "substptr"} : body' = Append(body, Stmt(op, n))
    BY <1>3 DEF Subst
  <2>2. Stmt(op, n) \in Stmts /\ Stmt(op, n).op = op
    BY <1>1, Statements, NamesAreNames
  <2>3. Adds
    BY <2>1, <2>2
  <2>4. CompilerTypeOK' /\ Rest
    BY <1>2, <1>3, <2>1, <2>2, ReadTypes, TokensAreTokens
       DEF BInv, BodyTypeOK, CompilerTypeOK, Subst
  <2>5. QED
    BY <2>3, <2>4
<1>4. ASSUME NEW e \in Exprs, If(e)
      PROVE  CompilerTypeOK' /\ Adds /\ Rest
  <2>1. Stmt("if", e) \in Stmts /\ Stmt("if", e).op = "if"
    BY <1>1, Statements, NamesAreNames
  <2>2. frames' \in Seq({"if", "else"})
    BY <1>4 DEF If, BInv, BodyTypeOK, CompilerTypeOK
  <2>3. QED
    BY <1>2, <1>4, <2>1, <2>2, ReadTypes, TokensAreTokens
       DEF BInv, BodyTypeOK, CompilerTypeOK, If
<1>5. ASSUME NEW e \in Exprs, ElseIf(e)
      PROVE  CompilerTypeOK' /\ Adds /\ Rest
  <2>1. Stmt("elseif", e) \in Stmts /\ Stmt("elseif", e).op = "elseif"
    BY <1>1, Statements, NamesAreNames
  <2>2. QED
    BY <1>2, <1>5, <2>1, ReadTypes, TokensAreTokens
       DEF BInv, BodyTypeOK, CompilerTypeOK, ElseIf
<1>6. ASSUME frames # << >>
      PROVE  Front(frames) \in Seq({"if", "else"})
  BY <1>6 DEF BInv, BodyTypeOK, CompilerTypeOK, Front
<1>7. ASSUME Else
      PROVE  CompilerTypeOK' /\ Adds /\ Rest
  <2>1. Stmt("else", "") \in Stmts /\ Stmt("else", "").op = "else"
    BY <1>1, Statements
  <2>2. frames' \in Seq({"if", "else"})
    <3>1. frames # << >> /\ frames' = Append(Front(frames), "else")
      BY <1>7 DEF Else, InThen
    <3>2. Front(frames) \in Seq({"if", "else"}) /\ "else" \in {"if", "else"}
      BY <3>1, <1>6
    <3>3. QED
      BY <3>1, <3>2, AppendProperties
  <2>3. QED
    BY <1>2, <1>7, <2>1, <2>2, ReadTypes, TokensAreTokens
       DEF BInv, BodyTypeOK, CompilerTypeOK, Else
<1>8. ASSUME End
      PROVE  CompilerTypeOK' /\ Adds /\ Rest
  <2>1. Stmt("end", "") \in Stmts /\ Stmt("end", "").op = "end"
    BY <1>1, Statements
  <2>2. QED
    BY <1>2, <1>6, <1>8, <2>1, ReadTypes, TokensAreTokens
       DEF BInv, BodyTypeOK, CompilerTypeOK, End
<1>9. CompilerTypeOK' /\ Adds /\ Rest
  BY <1>3, <1>4, <1>5, <1>7, <1>8
<1>10. QED
  BY <1>9, BodyAppends

\* What all the steps within a text have in common.
LEMMA EmitStep ==
  ASSUME BInv, UNCHANGED bodyVars, NEW n \in {0, 1, 2}, n <= Len(text), NEW s \in Seq(Stmts),
         Emit(n, s), paramNames' \in Seq(Identifiers), needsStrconv' \in BOOLEAN,
         needsStrconv' <=> needsStrconv \/ \E i \in DOMAIN s : s[i].op = "bind",
         dialect = "postgres" => \A i \in DOMAIN s : s[i].op # "mark"
  PROVE  BInv'
<1>1. body \in Seq(Stmts) /\ text \in Seq(Words)
  BY DEF BInv, BodyTypeOK, CompilerTypeOK
<1>2. body' = body \o s /\ dialect' = dialect
  BY DEF Emit
<1>3. /\ body' \in Seq(Stmts) /\ Len(body') >= Len(body)
      /\ Uses("bind")' <=> Uses("bind") \/ \E i \in DOMAIN s : s[i].op = "bind"
      /\ Uses("mark")' <=> Uses("mark") \/ \E i \in DOMAIN s : s[i].op = "mark"
  <2>1. /\ body' \in Seq(Stmts) /\ Len(body') >= Len(body)
        /\ Uses("bind")' <=> Uses("bind") \/ \E i \in DOMAIN s : s[i].op = "bind"
    BY <1>1, <1>2, ConcatUses, Zenon
  <2>2. Uses("mark")' <=> Uses("mark") \/ \E i \in DOMAIN s : s[i].op = "mark"
    BY <1>1, <1>2, ConcatUses, Zenon
  <2>3. QED
    BY <2>1, <2>2
<1>4. text' \in Seq(Words)
  BY <1>1 DEF Emit
<1>5. CompilerTypeOK'
  BY <1>3, <1>4 DEF BInv, BodyTypeOK, CompilerTypeOK, Emit
<1>6. FlagInv' /\ OnlyDollars'
  BY <1>2, <1>3 DEF BInv, FlagInv, OnlyDollars
<1>7. QED
  BY <1>2, <1>3, <1>5, <1>6, BodyGrows

\* A word, a "$n" or a "?" of a text.
LEMMA TextSteps ==
  ASSUME BInv, UNCHANGED bodyVars, EmitWords \/ EmitDollar \/ EmitMark
  PROVE  BInv'
<1>1. /\ text \in Seq(Words) /\ paramNames \in Seq(Identifiers) /\ needsStrconv \in BOOLEAN
      /\ {"write", "mark", "bind"} \subseteq Ops
  BY DEF BInv, BodyTypeOK, CompilerTypeOK, Ops
<1>2. CASE EmitWords
  <2>1. CASE IsCast
    <3> DEFINE s == <<Stmt("write", ":"), Stmt("write", ":")>>
    <3>1. Stmt("write", ":") \in Stmts /\ Stmt("write", ":").op = "write"
      BY <1>1, Statements DEF Names
    <3>2. s \in Seq(Stmts) /\ \A i \in DOMAIN s : s[i].op = "write"
      BY <3>1
    <3>3. Emit(2, s) /\ 2 <= Len(text) /\ UNCHANGED <<paramNames, needsStrconv>>
      BY <1>1, <1>2, <2>1 DEF EmitWords, IsCast
    <3> HIDE DEF s
    <3>4. QED
      BY <1>1, <3>2, <3>3, EmitStep
  <2>2. CASE ~IsCast
    <3> DEFINE s == <<Stmt("write", text[1])>>
    <3>1. text[1] \in Words /\ 1 <= Len(text)
      BY <1>1, <1>2 DEF EmitWords
    <3>2. Stmt("write", text[1]) \in Stmts /\ Stmt("write", text[1]).op = "write"
      BY <1>1, <3>1, Statements, NamesAreNames
    <3>3. s \in Seq(Stmts) /\ \A i \in DOMAIN s : s[i].op = "write"
      BY <3>2
    <3>4. Emit(1, s) /\ UNCHANGED <<paramNames, needsStrconv>>
      BY <1>2, <2>2 DEF EmitWords
    <3> HIDE DEF s
    <3>5. QED
      BY <1>1, <3>1, <3>3, <3>4, EmitStep
  <2>3. QED
    BY <2>1, <2>2
<1>3. CASE EmitDollar
  <2> DEFINE s == <<Stmt("bind", text[2])>>
  <2>1. text[2] \in Identifiers /\ 2 <= Len(text)
    BY <1>1, <1>3 DEF EmitDollar, IsParam
  <2>2. Stmt("bind", text[2]) \in Stmts /\ Stmt("bind", text[2]).op = "bind"
    BY <1>1, <2>1, Statements, NamesAreNames
  <2>3. s \in Seq(Stmts) /\ DOMAIN s = {1} /\ \A i \in DOMAIN s : s[i].op = "bind"
    BY <2>2
  <2>4. Emit(2, s) /\ UNCHANGED paramNames /\ needsStrconv' = TRUE
    BY <1>3 DEF EmitDollar
  <2> HIDE DEF s
  <2>5. QED
    BY <1>1, <2>1, <2>3, <2>4, EmitStep
<1>4. CASE EmitMark
  <2> DEFINE s == <<Stmt("mark", text[2])>>
  <2>1. text[2] \in Identifiers /\ 2 <= Len(text)
    BY <1>1, <1>4 DEF EmitMark, IsParam
  <2>2. Stmt("mark", text[2]) \in Stmts /\ Stmt("mark", text[2]).op = "mark"
    BY <1>1, <2>1, Statements, NamesAreNames
  <2>3. s \in Seq(Stmts) /\ \A i \in DOMAIN s : s[i].op = "mark"
    BY <2>2
  <2>4. /\ Emit(2, s) /\ UNCHANGED needsStrconv /\ dialect # "postgres"
        /\ paramNames' = Append(paramNames, text[2])
    BY <1>4 DEF EmitMark
  <2>5. paramNames' \in Seq(Identifiers)
    BY <1>1, <2>1, <2>4
  <2> HIDE DEF s
  <2>6. QED
    BY <1>1, <2>1, <2>3, <2>4, <2>5, EmitStep
<1>5. QED
  BY <1>2, <1>3, <1>4

\* The arguments that follow the literal of a text.
LEMMA ArgsStep ==
  ASSUME BInv, UNCHANGED bodyVars, EmitArgs
  PROVE  BInv'
<1> DEFINE s == [i \in DOMAIN paramNames |-> Stmt("arg", paramNames[i])]
<1>1. paramNames \in Seq(Identifiers) /\ body \in Seq(Stmts) /\ "arg" \in Ops
  BY DEF BInv, BodyTypeOK, CompilerTypeOK, Ops
<1>2. \A i \in DOMAIN paramNames : Stmt("arg", paramNames[i]) \in Stmts
                                  /\ Stmt("arg", paramNames[i]).op = "arg"
  BY <1>1, Statements, NamesAreNames
<1>3. s \in Seq(Stmts) /\ \A i \in DOMAIN s : s[i].op = "arg"
  BY <1>1, <1>2
<1>4. body' = body \o s
  BY DEF EmitArgs
<1> HIDE DEF s
<1>5. /\ body' \in Seq(Stmts) /\ Len(body') >= Len(body)
      /\ (Uses("bind")' <=> Uses("bind")) /\ (Uses("mark")' <=> Uses("mark"))
  <2>1. /\ body' \in Seq(Stmts) /\ Len(body') >= Len(body)
        /\ Uses("bind")' <=> Uses("bind") \/ \E i \in DOMAIN s : s[i].op = "bind"
    BY <1>1, <1>3, <1>4, ConcatUses, Zenon
  <2>2. Uses("mark")' <=> Uses("mark") \/ \E i \in DOMAIN s : s[i].op = "mark"
    BY <1>1, <1>3, <1>4, ConcatUses, Zenon
  <2>3. QED
    BY <1>3, <2>1, <2>2
<1>6. CompilerTypeOK'
  BY <1>5, EmptySeq DEF EmitArgs, BInv, BodyTypeOK, CompilerTypeOK
<1>7. FlagInv' /\ OnlyDollars' /\ dialect' = dialect
  BY <1>5 DEF BInv, FlagInv, OnlyDollars, EmitArgs
<1>8. QED
  BY <1>5, <1>6, <1>7, BodyGrows

\* The end of the template, with or without a RETURNING clause.
LEMMA FinishStep ==
  ASSUME BInv, UNCHANGED bodyVars, Finish
  PROVE  BInv'
<1>1. dialect' = dialect /\ needsStrconv' = needsStrconv
  BY DEF Finish
<1>2. CASE body' = body
  <2>1. CompilerTypeOK'
    BY <1>2 DEF Finish, BInv, BodyTypeOK, CompilerTypeOK
  <2>2. QED
    BY <1>1, <1>2, <2>1, BodyStays
<1>3. CASE body' = Append(body, Stmt("write", Clause))
  <2>1. Stmt("write", Clause) \in Stmts /\ Stmt("write", Clause).op = "write"
    <3>1. "write" \in Ops /\ Clause \in Names
      BY DEF Ops, Names
    <3>2. QED
      BY <3>1, Statements
  <2>2. CompilerTypeOK'
    BY <1>3, <2>1 DEF Finish, BInv, BodyTypeOK, CompilerTypeOK
  <2>3. QED
    BY <1>1, <1>3, <2>1, <2>2, BodyAppends
<1>4. QED
  BY <1>2, <1>3 DEF Finish

\* Every step of the compiler keeps the invariant.
LEMMA CompilerKeeps ==
  ASSUME BInv, CompilerNext, UNCHANGED bodyVars
  PROVE  BInv'
  BY TokenSteps, LineSteps, TextSteps, ArgsStep, FinishStep DEF CompilerNext

-----------------------------------------------------------------------------
(* The body. *)

\* A statement runs: it is one of the body's.
LEMMA StatementRuns ==
  ASSUME BInv, NEW op, Next1(op)
  PROVE  /\ UNCHANGED compilerVars /\ CompilerTypeOK' /\ FlagInv' /\ OnlyDollars'
         /\ at' \in 0..(Len(body') + 1) /\ holds' \subseteq Exprs /\ nils' \subseteq PtrParams
         /\ This \in Names /\ Uses(op)
<1>1. UNCHANGED compilerVars /\ holds' = holds /\ nils' = nils /\ at' = at + 1
  BY DEF Next1
<1>2. body \in Seq(Stmts) /\ at \in DOMAIN body /\ body[at].op = op
  BY DEF Next1, BInv, BodyTypeOK, CompilerTypeOK
<1>3. body[at] \in Stmts /\ at \in 1..Len(body) /\ Len(body) \in Nat
  BY <1>2
<1>4. This \in Names /\ Uses(op)
  BY <1>2, <1>3 DEF This, Stmts, Uses
<1>5. CompilerTypeOK' /\ FlagInv' /\ OnlyDollars'
  BY <1>1 DEF BInv, BodyTypeOK, CompilerTypeOK, FlagInv, OnlyDollars, Uses, compilerVars
<1>6. body' = body /\ holds' \subseteq Exprs /\ nils' \subseteq PtrParams
  BY <1>1 DEF compilerVars, BInv, BodyTypeOK
<1>7. QED
  BY <1>1, <1>3, <1>4, <1>5, <1>6

\* Control only: neither the query nor the arguments change.
LEMMA ControlKeeps ==
  ASSUME BInv, NEW op, Next1(op), query' = query, args' = args,
         blocks' \in Seq({"on", "seek", "off"})
  PROVE  BInv'
<1>1. dialect' = dialect
  BY StatementRuns DEF compilerVars
<1>2. BodyTypeOK'
  BY StatementRuns DEF BInv, BodyTypeOK
<1>3. Numbered' /\ Distinct'
  BY <1>1 DEF BInv, Numbered, Distinct
<1>4. QED
  BY <1>2, <1>3, StatementRuns DEF BInv

\* Something that is no placeholder, or any placeholder but Postgres's, is written.
LEMMA OutputKeeps ==
  ASSUME BInv, NEW op, Next1(op), NEW item \in Items, query' = Append(query, item),
         blocks' = blocks, args' = args, item.kind = "mark" => dialect # "postgres"
  PROVE  BInv'
<1>1. dialect' = dialect
  BY StatementRuns DEF compilerVars
<1>2. query \in Seq(Items)
  BY DEF BInv, BodyTypeOK
<1>3. /\ query' \in Seq(Items) /\ Len(query) \in Nat /\ DOMAIN query = 1..Len(query)
      /\ DOMAIN query' = 1..(Len(query) + 1) /\ query'[Len(query) + 1] = item
      /\ \A i \in 1..Len(query) : query'[i] = query[i]
  BY <1>2
<1>4. BodyTypeOK'
  BY <1>3, StatementRuns DEF BInv, BodyTypeOK
<1>5. ASSUME dialect = "postgres", NEW i \in DOMAIN query', query'[i].kind = "mark"
      PROVE  i \in DOMAIN query /\ query'[i] = query[i]
  BY <1>3, <1>5
<1>6. Numbered' /\ Distinct'
  BY <1>1, <1>5 DEF BInv, Numbered, Distinct
<1>7. QED
  BY <1>4, <1>6, StatementRuns DEF BInv

\* An argument is appended; the placeholders keep theirs.
LEMMA ArgKeeps ==
  ASSUME BInv, Arg
  PROVE  BInv'
<1>1. dialect' = dialect /\ This \in Names /\ Next1("arg")
  BY StatementRuns DEF Arg, compilerVars
<1>2. args \in Seq(Names) /\ args' = Append(args, This)
  BY DEF BInv, BodyTypeOK, Arg
<1>3. /\ args' \in Seq(Names) /\ Len(args) \in Nat /\ DOMAIN args = 1..Len(args)
      /\ DOMAIN args' = 1..(Len(args) + 1) /\ \A i \in 1..Len(args) : args'[i] = args[i]
  BY <1>1, <1>2
<1>4. query' = query /\ blocks' = blocks
  BY DEF Arg
<1>5. BodyTypeOK'
  BY <1>1, <1>3, <1>4, StatementRuns DEF BInv, BodyTypeOK
<1>6. Numbered' /\ Distinct'
  BY <1>1, <1>3, <1>4 DEF BInv, Numbered, Distinct
<1>7. QED
  BY <1>1, <1>5, <1>6, StatementRuns DEF BInv

\* "$n" and its argument: n is beyond all arguments so far.
LEMMA BindKeeps ==
  ASSUME BInv, Bind
  PROVE  BInv'
<1> DEFINE n == Len(args) + 1
           k == Len(query) + 1
<1>1. dialect' = dialect /\ This \in Names /\ Next1("bind")
  BY StatementRuns DEF Bind, compilerVars
<1>2. /\ args \in Seq(Names) /\ args' = Append(args, This) /\ blocks' = blocks
      /\ query \in Seq(Items) /\ query' = Append(query, Item("mark", This, n))
  BY DEF BInv, BodyTypeOK, Bind, Output
<1>3. /\ args' \in Seq(Names) /\ Len(args) \in Nat /\ DOMAIN args = 1..Len(args)
      /\ DOMAIN args' = 1..n /\ args'[n] = This /\ \A i \in 1..Len(args) : args'[i] = args[i]
  BY <1>1, <1>2
<1>4. Item("mark", This, n) \in Items
  BY <1>1, <1>3 DEF Item, Items
<1>5. /\ query' \in Seq(Items) /\ Len(query) \in Nat /\ DOMAIN query = 1..Len(query)
      /\ DOMAIN query' = 1..k /\ query'[k] = Item("mark", This, n)
      /\ \A i \in 1..Len(query) : query'[i] = query[i]
  BY <1>2, <1>4
<1>6. query'[k].pos = n /\ query'[k].of = This
  BY <1>5 DEF Item
<1>7. BodyTypeOK'
  BY <1>1, <1>2, <1>3, <1>5, StatementRuns DEF BInv, BodyTypeOK
<1>8. ASSUME dialect = "postgres", NEW i \in 1..Len(query), query[i].kind = "mark"
      PROVE  query[i].pos \in 1..Len(args) /\ args[query[i].pos] = query[i].of
  BY <1>3, <1>5, <1>8 DEF BInv, Numbered
<1>9. Numbered'
  <2>1. ASSUME dialect = "postgres", NEW i \in 1..k, query'[i].kind = "mark"
        PROVE  query'[i].pos \in 1..n /\ args'[query'[i].pos] = query'[i].of
    <3>1. CASE i = k
      BY <1>3, <1>6, <3>1
    <3>2. CASE i \in 1..Len(query)
      BY <1>3, <1>5, <1>8, <2>1, <3>2
    <3>3. QED
      BY <1>5, <3>1, <3>2
  <2>2. QED
    BY <1>1, <1>3, <1>5, <2>1 DEF Numbered
<1>10. Distinct'
  <2>1. ASSUME dialect = "postgres", NEW i \in 1..k, NEW j \in 1..k,
               query'[i].kind = "mark", query'[j].kind = "mark", query'[i].pos = query'[j].pos
        PROVE  i = j
    <3>1. CASE i \in 1..Len(query) /\ j \in 1..Len(query)
      BY <1>5, <2>1, <3>1 DEF BInv, Distinct
    <3>2. CASE i = k /\ j \in 1..Len(query)
      BY <1>3, <1>5, <1>6, <1>8, <2>1, <3>2
    <3>3. CASE j = k /\ i \in 1..Len(query)
      BY <1>3, <1>5, <1>6, <1>8, <2>1, <3>3
    <3>4. QED
      BY <1>5, <3>1, <3>2, <3>3
  <2>2. QED
    BY <1>1, <1>5, <2>1 DEF Distinct
<1>11. QED
  BY <1>1, <1>7, <1>9, <1>10, StatementRuns DEF BInv

\* Leaving the innermost if statement; there may be none.
LEMMA FrontOfBlocks ==
  ASSUME NEW S, NEW s \in Seq(S)
  PROVE  Front(s) \in Seq(S)
<1>1. CASE s = << >>
  <2>1. Len(s) = 0
    BY <1>1
  <2>2. Front(s) = << >>
    BY <1>1, <2>1 DEF Front
  <2>3. QED
    BY <2>2
<1>2. CASE s # << >>
  BY <1>2 DEF Front
<1>3. QED
  BY <1>1, <1>2

\* Every step keeps the invariant.
LEMMA BodyKeeps ==
  ASSUME BInv, BodyNext
  PROVE  BInv'
<1> DEFINE States == {"on", "seek", "off"}
<1>1. blocks \in Seq(States) /\ Front(blocks) \in Seq(States)
  BY FrontOfBlocks DEF BInv, BodyTypeOK
<1>2. ASSUME NEW op, NEW after \in States, Branch(op, after)
      PROVE  BInv'
  <2>1. blocks' \in Seq(States) /\ Next1(op) /\ query' = query /\ args' = args
    BY <1>1, <1>2 DEF Branch
  <2>2. QED
    BY <2>1, ControlKeeps
<1>3. CASE CompilerNext /\ UNCHANGED bodyVars
  BY <1>3, CompilerKeeps
<1>4. CASE Call
  <2>1. UNCHANGED compilerVars /\ query' = query /\ args' = args /\ blocks' = blocks
    BY <1>4 DEF Call
  <2>2. holds' \subseteq Exprs /\ nils' \subseteq PtrParams /\ at' \in 0..(Len(body) + 1)
    BY <1>4 DEF Call, Conditions, NilTests, BInv, BodyTypeOK, CompilerTypeOK
  <2>3. QED
    BY <2>1, <2>2 DEF BInv, BodyTypeOK, CompilerTypeOK, FlagInv, OnlyDollars, Uses,
                      Numbered, Distinct, compilerVars
<1>5. CASE \E op \in Ops : Skip(op)
  BY <1>1, <1>5, ControlKeeps DEF Skip
<1>6. CASE Write
  <2>1. Next1("write") /\ This \in Names
    BY <1>6, StatementRuns DEF Write
  <2>2. Item("word", This, 0) \in Items /\ Item("word", This, 0).kind # "mark"
    BY <2>1 DEF Item, Items
  <2>3. QED
    BY <1>6, <2>1, <2>2, OutputKeeps DEF Write, Output
<1>7. CASE Mark
  <2>1. Next1("mark") /\ This \in Names /\ dialect # "postgres"
    BY <1>7, StatementRuns DEF Mark, BInv, OnlyDollars
  <2>2. Item("mark", This, 0) \in Items
    BY <2>1 DEF Item, Items
  <2>3. QED
    BY <1>7, <2>1, <2>2, OutputKeeps DEF Mark, Output
<1>8. CASE Substitute
  <2>1. Next1("subst") /\ This \in Names
    BY <1>8, StatementRuns DEF Substitute
  <2>2. Item("value", This, 0) \in Items /\ Item("value", This, 0).kind # "mark"
    BY <2>1 DEF Item, Items
  <2>3. QED
    BY <1>8, <2>1, <2>2, OutputKeeps DEF Substitute, Output
<1>9. CASE SubstituteUnlessNil
  <2>1. Next1("substptr") /\ This \in Names /\ args' = args
    BY <1>9, StatementRuns DEF SubstituteUnlessNil
  <2>2. Item("value", This, 0) \in Items /\ Item("value", This, 0).kind # "mark"
    BY <2>1 DEF Item, Items
  <2>3. CASE This \in nils
    BY <1>1, <1>9, <2>1, <2>3, ControlKeeps DEF SubstituteUnlessNil
  <2>4. CASE This \notin nils
    BY <1>9, <2>1, <2>2, <2>4, OutputKeeps DEF SubstituteUnlessNil, Output
  <2>5. QED
    BY <2>3, <2>4
<1>10. CASE IfBegins
  <2>1. blocks' \in Seq(States) /\ Next1("if") /\ query' = query /\ args' = args
    BY <1>1, <1>10 DEF IfBegins
  <2>2. QED
    BY <2>1, ControlKeeps
<1>11. CASE ElseIfBegins
  <2>1. PICK after \in States : Branch("elseif", after)
    BY <1>11 DEF ElseIfBegins
  <2>2. QED
    BY <1>2, <2>1
<1>12. CASE ElseBegins
  <2>1. PICK after \in States : Branch("else", after)
    BY <1>12 DEF ElseBegins
  <2>2. QED
    BY <1>2, <2>1
<1>13. CASE BlockEnds
  BY <1>1, <1>13, ControlKeeps DEF BlockEnds
<1>14. QED
  BY <1>3, <1>4, <1>5, <1>6, <1>7, <1>8, <1>9, <1>10, <1>11, <1>12, <1>13,
     ArgKeeps, BindKeeps DEF BodyNext

-----------------------------------------------------------------------------

\* The inductive invariant holds in every reachable state.
THEOREM BodyInvariance == BodySpec => []BInv
<1>1. BInv /\ [BodyNext]_allVars => BInv'
  <2>1. CASE BodyNext
    BY <2>1, BodyKeeps
  <2>2. CASE UNCHANGED allVars
    BY <2>2 DEF allVars, compilerVars, bodyVars, BInv, BodyTypeOK, CompilerTypeOK, FlagInv,
                OnlyDollars, Numbered, Distinct, Uses
  <2>3. QED
    BY <2>1, <2>2
<1>2. QED
  BY InitBInv, <1>1, PTL DEF BodySpec

\* Every reachable state is well typed, and so is every body ever compiled.
THEOREM BodyTyping == BodySpec => []BodyTypeOK
<1>1. BInv => BodyTypeOK
  BY DEF BInv
<1>2. QED
  BY <1>1, BodyInvariance, PTL

\* strconv is imported exactly when some branch of the body uses it
\* (compiler.go:205), for templates of any length and depth.
THEOREM StrconvFlag == BodySpec => []StrconvIffUsed
<1>1. BInv => StrconvIffUsed
  BY DEF BInv, FlagInv, Uses, StrconvIffUsed
<1>2. QED
  BY <1>1, BodyInvariance, PTL

\* On Postgres "$n" is the n-th argument and the one the template bound there,
\* whichever branches were skipped before (compiler.go:205-207).
THEOREM DollarNumbering == BodySpec => []DollarsNameTheirArgs
<1>1. BInv => DollarsNameTheirArgs
  BY DEF BInv, Numbered, Distinct, DollarsNameTheirArgs
<1>2. QED
  BY <1>1, BodyInvariance, PTL

-----------------------------------------------------------------------------
(* Blocks. *)

\* How many tokens of a kind there are up to token i.
CountTo(ts, i, kind) == Cardinality({j \in 1..i : ts[j].kind = kind})

\* Counting goes on with the next token.
LEMMA CountNext ==
  ASSUME NEW ts, NEW i \in Nat, NEW kind
  PROVE  /\ CountTo(ts, i, kind) \in Nat /\ CountTo(ts, 0, kind) = 0
         /\ CountTo(ts, i + 1, kind) =
              CountTo(ts, i, kind) + (IF ts[i + 1].kind = kind THEN 1 ELSE 0)
PROOF
  <1> DEFINE S(n) == {j \in 1..n : ts[j].kind = kind}
  <1>1. \A n \in Nat : IsFiniteSet(S(n))
    <2> TAKE n \in Nat
    <2>1. IsFiniteSet(1..n)
      BY FS_Interval
    <2> QED BY <2>1, FS_Subset
  <1>2. S(0) = {}
    OBVIOUS
  <1>3. i + 1 \notin S(i)
    OBVIOUS
  <1>4. CASE ts[i + 1].kind = kind
    <2>1. S(i + 1) = S(i) \cup {i + 1}
      BY <1>4
    <2> HIDE DEF S
    <2>2. Cardinality(S(i + 1)) = Cardinality(S(i)) + 1
      BY <1>1, <1>3, <2>1, FS_AddElement
    <2> QED BY <1>1, <1>2, <1>4, <2>2, FS_EmptySet, FS_CardinalityType DEF CountTo, S
  <1>5. CASE ts[i + 1].kind # kind
    <2>1. S(i + 1) = S(i)
      BY <1>5
    <2> HIDE DEF S
    <2>2. Cardinality(S(i + 1)) = Cardinality(S(i))
      BY <2>1
    <2> QED BY <1>1, <1>2, <1>5, <2>2, FS_EmptySet, FS_CardinalityType DEF CountTo, S
  <1> QED BY <1>4, <1>5

\* The depth changes with the tokens that open or close a block.
LEMMA DepthNext ==
  ASSUME NEW ts, NEW i \in Nat
  PROVE  /\ Depth(ts, i) \in Int /\ Depth(ts, 0) = 0
         /\ Depth(ts, i + 1) = Depth(ts, i) + (IF ts[i + 1].kind = "if" THEN 1
                                               ELSE IF ts[i + 1].kind = "end" THEN -1 ELSE 0)
PROOF
  <1>1. \A n : Depth(ts, n) = CountTo(ts, n, "if") - CountTo(ts, n, "end")
    BY DEF Depth, CountTo
  <1>2. \A kind \in {"if", "end"} :
          /\ CountTo(ts, 0, kind) = 0 /\ CountTo(ts, i, kind) \in Nat
          /\ CountTo(ts, i + 1, kind) = CountTo(ts, i, kind) + (IF ts[i + 1].kind = kind THEN 1 ELSE 0)
    BY CountNext
  <1>3. \A a, b \in Nat : a - b \in Int /\ (a + 1) - b = (a - b) + 1 /\ a - (b + 1) = (a - b) + (-1)
    OBVIOUS
  <1>4. Depth(ts, i) \in Int /\ Depth(ts, 0) = 0
    BY <1>1, <1>2, <1>3
  <1>5. CASE ts[i + 1].kind = "if"
    <2>1. Depth(ts, i + 1) = (CountTo(ts, i, "if") + 1) - CountTo(ts, i, "end")
      BY <1>1, <1>2, <1>5
    <2> QED BY <1>1, <1>2, <1>3, <1>4, <1>5, <2>1
  <1>6. CASE ts[i + 1].kind = "end"
    <2>1. Depth(ts, i + 1) = CountTo(ts, i, "if") - (CountTo(ts, i, "end") + 1)
      BY <1>1, <1>2, <1>6
    <2> QED BY <1>1, <1>2, <1>3, <1>4, <1>6, <2>1
  <1>7. CASE ts[i + 1].kind \notin {"if", "end"}
    <2>1. Depth(ts, i + 1) = CountTo(ts, i, "if") - CountTo(ts, i, "end")
      BY <1>1, <1>2, <1>7
    <2> QED BY <1>1, <1>4, <1>7, <2>1
  <1> QED BY <1>4, <1>5, <1>6, <1>7

\* The tokens that follow do not change the depth of those before.
LEMMA DepthOfPrefix ==
  ASSUME NEW s \in Seq(Tokens), NEW t \in Tokens
  PROVE  /\ \A i \in 0..Len(s) : Depth(Append(s, t), i) = Depth(s, i)
         /\ Depth(Append(s, t), Len(s) + 1) =
              Depth(s, Len(s)) + (IF t.kind = "if" THEN 1 ELSE IF t.kind = "end" THEN -1 ELSE 0)
PROOF
  <1> DEFINE z == Append(s, t)
  <1>1. /\ Len(s) \in Nat /\ z[Len(s) + 1] = t
        /\ \A i \in 1..Len(s) : z[i] = s[i]
    BY AppendProperties, LenProperties
  <1> HIDE DEF z
  <1>2. ASSUME NEW i \in 0..Len(s) PROVE Depth(z, i) = Depth(s, i)
    <2>1. \A kind : {j \in 1..i : z[j].kind = kind} = {j \in 1..i : s[j].kind = kind}
      BY <1>1
    <2> QED BY <2>1 DEF Depth
  <1>3. Depth(z, Len(s) + 1) =
          Depth(z, Len(s)) + (IF t.kind = "if" THEN 1 ELSE IF t.kind = "end" THEN -1 ELSE 0)
    BY <1>1, DepthNext
  <1> QED BY <1>1, <1>2, <1>3 DEF z

\* A branch goes on while its block does.
LEMMA HeadsNext ==
  ASSUME NEW s \in Seq(Tokens), NEW t \in Tokens, NEW h \in 1..Len(s), NEW d \in Int
  PROVE  /\ \A i \in 1..Len(s) : h <= i => (Heads(Append(s, t), h, i, d) <=> Heads(s, h, i, d))
         /\ Heads(Append(s, t), h, Len(s) + 1, d) <=>
              Heads(s, h, Len(s), d) /\ Depth(Append(s, t), Len(s) + 1) >= d
PROOF
  <1> DEFINE z == Append(s, t)
  <1>1. Len(s) \in Nat /\ z[h] = s[h]
    BY AppendProperties, LenProperties
  <1>2. \A k \in 1..Len(s) : Depth(z, k) = Depth(s, k)
    BY <1>1, DepthOfPrefix
  <1> HIDE DEF z
  <1>3. \A i \in 1..Len(s) : h <= i => (Heads(z, h, i, d) <=> Heads(s, h, i, d))
    <2> SUFFICES ASSUME NEW i \in 1..Len(s), h <= i PROVE Heads(z, h, i, d) <=> Heads(s, h, i, d)
      OBVIOUS
    <2>1. \A k \in h..i : k \in 1..Len(s)
      BY <1>1
    <2> QED BY <1>1, <1>2, <2>1 DEF Heads
  <1>4. Heads(z, h, Len(s) + 1, d) <=> Heads(z, h, Len(s), d) /\ Depth(z, Len(s) + 1) >= d
    <2>1. h..(Len(s) + 1) = (h..Len(s)) \cup {Len(s) + 1}
      BY <1>1
    <2> QED BY <2>1 DEF Heads
  <1>5. Heads(z, h, Len(s), d) <=> Heads(s, h, Len(s), d)
    BY <1>1, <1>3
  <1> QED BY <1>3, <1>4, <1>5 DEF z

\* The tokens read so far nest well, and the open blocks are the frames.
Nested(s, f) ==
  /\ Len(f) = Depth(s, Len(s))
  /\ \A i \in 1..Len(s) : Depth(s, i) >= 0
  /\ \A i \in 1..Len(s) :
       s[i].kind \in {"elseif", "else"} =>
         /\ Depth(s, i) > 0
         /\ ~\E h \in 1..(i - 1) : s[h].kind = "else" /\ Heads(s, h, i, Depth(s, i))
  /\ \A d \in 1..Len(f) :
       f[d] = "else" <=> \E h \in 1..Len(s) : s[h].kind = "else" /\ Heads(s, h, Len(s), d)

\* One more token, and the frames that the compiler then has.
LEMMA NestedNext ==
  ASSUME NEW s \in Seq(Tokens), NEW f \in Seq({"if", "else"}), Nested(s, f),
         NEW t \in Tokens, NEW g \in Seq({"if", "else"}),
         Len(g) = Depth(Append(s, t), Len(s) + 1),
         t.kind \in {"elseif", "else"} => f # << >> /\ f[Len(f)] = "if" /\ Len(g) = Len(f),
         \A d \in 1..Len(g) :
           g[d] = "else" <=> (d <= Len(f) /\ f[d] = "else") \/ (t.kind = "else" /\ d = Len(g))
  PROVE  Nested(Append(s, t), g)
PROOF
  <1> DEFINE z == Append(s, t)
             n == Len(s)
  <1>1. /\ n \in Nat /\ Len(z) = n + 1 /\ z[n + 1] = t /\ \A i \in 1..n : z[i] = s[i]
        /\ Len(f) \in Nat /\ Len(g) \in Nat
    BY AppendProperties, LenProperties
  <1>2. Len(g) = Depth(z, n + 1) /\ \A i \in 1..n : Depth(z, i) = Depth(s, i)
    BY <1>1, DepthOfPrefix
  <1>3. Len(f) = Depth(s, n)
    BY DEF Nested
  <1>4. \A h \in 1..n, i \in 1..n, d \in Int :
          h <= i => (Heads(z, h, i, d) <=> Heads(s, h, i, d))
    BY HeadsNext
  <1>5. \A h \in 1..n, d \in Int :
          Heads(z, h, n + 1, d) <=> Heads(s, h, n, d) /\ Len(g) >= d
    BY <1>2, HeadsNext
  <1>6. \A h \in 1..n, d \in Int : Heads(s, h, n, d) => d <= Len(f)
    BY <1>1, <1>3 DEF Heads
  <1>7. \A i \in 1..n : Depth(s, i) \in Int /\ Depth(s, i) >= 0
    <2>1. \A j \in Nat : Depth(s, j) \in Int
      BY DepthNext
    <2>2. \A j \in 1..n : j \in Nat
      BY <1>1
    <2>3. \A j \in 1..n : Depth(s, j) >= 0
      BY DEF Nested
    <2> QED BY <2>1, <2>2, <2>3
  <1> HIDE DEF z
  <1>8. \A i \in 1..Len(z) : Depth(z, i) >= 0
    BY <1>1, <1>2, <1>7
  <1>9. ASSUME NEW i \in 1..Len(z), z[i].kind \in {"elseif", "else"}
        PROVE  /\ Depth(z, i) > 0
               /\ ~\E h \in 1..(i - 1) : z[h].kind = "else" /\ Heads(z, h, i, Depth(z, i))
    <2>1. CASE i \in 1..n
      <3>1. z[i] = s[i] /\ Depth(z, i) = Depth(s, i) /\ Depth(s, i) \in Int
        BY <1>1, <1>2, <1>7, <2>1
      <3>2. \A h \in 1..(i - 1) :
              h \in 1..n /\ z[h] = s[h] /\ (Heads(z, h, i, Depth(s, i)) <=> Heads(s, h, i, Depth(s, i)))
        BY <1>1, <1>4, <2>1, <3>1
      <3> QED BY <1>9, <2>1, <3>1, <3>2 DEF Nested
    <2>2. CASE i = n + 1
      <3>1. f # << >> /\ f[Len(f)] = "if" /\ Len(g) = Len(f) /\ Len(f) \in 1..Len(f)
        BY <1>1, <1>9, <2>2, EmptySeq, LenProperties
      <3>2. \A h \in 1..n : ~(s[h].kind = "else" /\ Heads(s, h, n, Len(f)))
        BY <3>1 DEF Nested
      <3>3. \A h \in 1..(i - 1) : ~(z[h].kind = "else" /\ Heads(z, h, i, Depth(z, i)))
        BY <1>1, <1>2, <1>5, <2>2, <3>1, <3>2
      <3> QED BY <1>1, <1>2, <2>2, <3>1, <3>3
    <2> QED BY <1>1, <2>1, <2>2
  <1>10. ASSUME NEW d \in 1..Len(g)
         PROVE  g[d] = "else"
                  <=> \E h \in 1..Len(z) : z[h].kind = "else" /\ Heads(z, h, Len(z), d)
    <2>1. (d <= Len(f) /\ f[d] = "else")
            <=> \E h \in 1..n : s[h].kind = "else" /\ Heads(s, h, n, d)
      BY <1>1, <1>6 DEF Nested
    <2>2. (\E h \in 1..n : s[h].kind = "else" /\ Heads(s, h, n, d))
            <=> \E h \in 1..n : z[h].kind = "else" /\ Heads(z, h, n + 1, d)
      <3>1. \A h \in 1..n : z[h] = s[h] /\ (Heads(z, h, n + 1, d) <=> Heads(s, h, n, d))
        BY <1>1, <1>5
      <3> QED BY <3>1
    <2>3. (z[n + 1].kind = "else" /\ Heads(z, n + 1, n + 1, d)) <=> t.kind = "else" /\ d = Len(g)
      BY <1>1, <1>2 DEF Heads
    <2>4. 1..Len(z) = 1..n \cup {n + 1}
      BY <1>1
    <2>5. (\E h \in 1..Len(z) : z[h].kind = "else" /\ Heads(z, h, n + 1, d))
            <=> \/ \E h \in 1..n : z[h].kind = "else" /\ Heads(z, h, n + 1, d)
                \/ z[n + 1].kind = "else" /\ Heads(z, n + 1, n + 1, d)
      BY <2>4
    <2> QED BY <1>1, <2>1, <2>2, <2>3, <2>5
  <1>11. Len(g) = Depth(z, Len(z))
    BY <1>1, <1>2
  <1>12. Nested(z, g)
    BY <1>8, <1>9, <1>10, <1>11 DEF Nested
  <1> QED BY <1>12 DEF z

\* A token no block expects is a mistake for good.
LEMMA StrayIsWrong ==
  ASSUME NEW s \in Seq(Tokens), NEW f \in Seq({"if", "else"}), Nested(s, f), NEW t \in Tokens,
         \/ t.kind = "end" /\ f = << >>
         \/ t.kind \in {"else", "elseif"} /\ ~(f # << >> /\ Last(f) = "if")
  PROVE  ~WellBegun(Append(s, t))
PROOF
  <1> DEFINE z == Append(s, t)
             n == Len(s)
  <1>1. /\ n \in Nat /\ Len(z) = n + 1 /\ z[n + 1] = t /\ \A i \in 1..n : z[i] = s[i]
        /\ DOMAIN z = 1..(n + 1) /\ Len(f) \in Nat
    BY AppendProperties, LenProperties
  <1>2. Len(f) = Depth(s, n)
    BY DEF Nested
  <1>3. Depth(z, n + 1) = Len(f) + (IF t.kind = "if" THEN 1 ELSE IF t.kind = "end" THEN -1 ELSE 0)
    BY <1>2, DepthOfPrefix
  <1>4. n + 1 \in DOMAIN z
    BY <1>1
  <1>5. \A h \in 1..n, d \in Int :
          Heads(z, h, n + 1, d) <=> Heads(s, h, n, d) /\ Depth(z, n + 1) >= d
    BY HeadsNext
  <1> HIDE DEF z
  <1>6. CASE f = << >>
    <2>1. Len(f) = 0
      BY <1>6
    <2>2. t.kind = "end" => ~(Depth(z, n + 1) >= 0)
      BY <1>3, <2>1
    <2>3. t.kind \in {"else", "elseif"} => ~(Depth(z, n + 1) > 0)
      BY <1>3, <2>1
    <2> QED BY <1>1, <1>4, <2>2, <2>3 DEF WellFormed, WellBegun, Nests, z
  <1>7. CASE f # << >>
    <2>1. t.kind \in {"else", "elseif"} /\ Last(f) # "if"
      BY <1>7
    <2>2. Len(f) \in 1..Len(f) /\ f[Len(f)] = "else"
      BY <1>7, <2>1, EmptySeq, LenProperties, ElementOfSeq DEF Last
    <2>3. PICK h \in 1..n : s[h].kind = "else" /\ Heads(s, h, n, Len(f))
      BY <2>2 DEF Nested
    <2>4. Depth(z, n + 1) = Len(f)
      BY <1>1, <1>3, <2>1
    <2>5. h \in 1..((n + 1) - 1) /\ z[h].kind = "else" /\ Heads(z, h, n + 1, Depth(z, n + 1))
      BY <1>1, <1>5, <2>3, <2>4
    <2> QED BY <1>1, <1>4, <2>1, <2>5 DEF WellFormed, WellBegun, Nests, z
  <1> QED BY <1>6, <1>7

\* What the compiler knows while it compiles.
Compiling == outcome = "compiling" => Nested(seen, frames) /\ Substitutable(seen)

WInv == Compiling /\ AcceptsWellFormed

\* A token that is no unknown or unwritable name keeps the substitutions right.
LEMMA SubstitutableNext ==
  ASSUME NEW s \in Seq(Tokens), NEW t \in Tokens
  PROVE  Substitutable(Append(s, t))
           <=> Substitutable(s) /\ (t.kind = "subst" => t.arg \in StringParams \cup PtrParams)
PROOF
  <1> DEFINE z == Append(s, t)
             n == Len(s)
  <1>1. /\ n \in Nat /\ z[n + 1] = t /\ \A i \in 1..n : z[i] = s[i]
        /\ DOMAIN z = 1..(n + 1) /\ DOMAIN s = 1..n
    BY AppendProperties, LenProperties
  <1> HIDE DEF z
  <1>2. DOMAIN z = DOMAIN s \cup {n + 1} /\ \A i \in DOMAIN s : z[i] = s[i]
    BY <1>1
  <1>3. Substitutable(z)
          <=> Substitutable(s) /\ (t.kind = "subst" => t.arg \in StringParams \cup PtrParams)
    BY <1>1, <1>2 DEF Substitutable
  <1> QED BY <1>3 DEF z

\* Every step that reads a token and goes on.
LEMMA ReadOn ==
  ASSUME BInv, WInv, outcome = "compiling", outcome' = "compiling",
         NEW t \in Tokens, seen' = Append(seen, t), frames' \in Seq({"if", "else"}),
         t.kind = "subst" => t.arg \in StringParams \cup PtrParams,
         Len(frames') = Len(frames) + (IF t.kind = "if" THEN 1 ELSE IF t.kind = "end" THEN -1 ELSE 0),
         t.kind \in {"elseif", "else"} => InThen,
         \A d \in 1..Len(frames') :
           frames'[d] = "else" <=>
             (d <= Len(frames) /\ frames[d] = "else") \/ (t.kind = "else" /\ d = Len(frames'))
  PROVE  WInv'
PROOF
  <1>1. seen \in Seq(Tokens) /\ frames \in Seq({"if", "else"}) /\ Nested(seen, frames)
    BY DEF BInv, BodyTypeOK, CompilerTypeOK, WInv, Compiling
  <1>2. Len(frames) \in Nat /\ Len(seen) \in Nat
    BY <1>1, LenProperties
  <1>3. Len(frames') = Depth(Append(seen, t), Len(seen) + 1)
    BY <1>1, DepthOfPrefix DEF Nested
  <1>4. t.kind \in {"elseif", "else"} =>
          frames # << >> /\ frames[Len(frames)] = "if" /\ Len(frames') = Len(frames)
    BY <1>2 DEF InThen, Last
  <1>5. Nested(Append(seen, t), frames')
    BY <1>1, <1>3, <1>4, NestedNext
  <1>6. Substitutable(seen')
    BY <1>1, SubstitutableNext DEF WInv, Compiling
  <1> QED BY <1>5, <1>6 DEF WInv, Compiling, AcceptsWellFormed, Nested, Substitutable

\* A step that neither reads a token nor opens or closes a block.
LEMMA NothingRead ==
  ASSUME WInv, seen' = seen, frames' = frames, outcome' = outcome
  PROVE  WInv'
  BY DEF WInv, Compiling, AcceptsWellFormed, Nested, Substitutable, WellFormed, WellBegun, Nests

\* Every step of the compiler keeps it.
LEMMA CompilerKeepsNesting ==
  ASSUME BInv, WInv, CompilerNext
  PROVE  WInv'
PROOF
  <1> USE DEF BetweenTokens
  <1>1. seen \in Seq(Tokens) /\ frames \in Seq({"if", "else"})
    BY DEF BInv, BodyTypeOK, CompilerTypeOK
  <1>2. Len(frames) \in Nat /\ (frames # << >> => Len(frames) > 0)
    BY <1>1, EmptySeq, LenProperties
  <1>3. ASSUME NEW x \in Texts, Text(x)
        PROVE  WInv'
    <2>1. TextTok(x) \in Tokens /\ TextTok(x).kind = "text"
      BY TokensAreTokens DEF TextTok, Tok
    <2>2. /\ outcome = "compiling" /\ outcome' = "compiling"
          /\ seen' = Append(seen, TextTok(x)) /\ frames' = frames
      BY <1>3 DEF Text, Read
    <2> QED BY <1>1, <1>2, <2>1, <2>2, ReadOn
  <1>4. ASSUME NEW m \in Identifiers, Subst(m)
        PROVE  WInv'
    <2>1. SubstTok(m) \in Tokens /\ SubstTok(m).kind = "subst" /\ SubstTok(m).arg = m
      BY TokensAreTokens DEF SubstTok, Tok
    <2>2. /\ outcome = "compiling" /\ outcome' = "compiling"
          /\ seen' = Append(seen, SubstTok(m)) /\ frames' = frames
          /\ m \in StringParams \cup PtrParams
      BY <1>4 DEF Subst, Read
    <2> QED BY <1>1, <1>2, <2>1, <2>2, ReadOn
  <1>5. ASSUME NEW m \in Identifiers, BadSubst(m)
        PROVE  WInv'
    <2>1. SubstTok(m) \in Tokens /\ SubstTok(m).kind = "subst" /\ SubstTok(m).arg = m
      BY TokensAreTokens DEF SubstTok, Tok
    <2>2. outcome' = "rejected" /\ seen' = Append(seen, SubstTok(m)) /\ m \in Undeclared \cup OtherParams
      BY <1>5 DEF BadSubst, Read
    <2>3. m \notin StringParams \cup PtrParams
      BY <2>2, ParamsAssumption DEF Params
    <2>4. ~Substitutable(seen')
      BY <1>1, <2>1, <2>2, <2>3, SubstitutableNext
    <2> QED BY <2>2, <2>4 DEF WInv, Compiling, AcceptsWellFormed, WellFormed, WellBegun, Nests, Substitutable
  <1>6. ASSUME NEW e \in Exprs, If(e)
        PROVE  WInv'
    <2>1. IfTok(e) \in Tokens /\ IfTok(e).kind = "if"
      BY TokensAreTokens DEF IfTok, Tok
    <2>2. /\ outcome = "compiling" /\ outcome' = "compiling"
          /\ seen' = Append(seen, IfTok(e)) /\ frames' = Append(frames, "if")
      BY <1>6 DEF If, Read
    <2>3. /\ frames' \in Seq({"if", "else"}) /\ Len(frames') = Len(frames) + 1
          /\ frames'[Len(frames) + 1] = "if"
          /\ \A d \in 1..Len(frames) : frames'[d] = frames[d]
      BY <1>1, <2>2, AppendProperties
    <2>4. \A d \in 1..Len(frames') : frames'[d] = "else" <=> (d <= Len(frames) /\ frames[d] = "else")
      BY <1>2, <2>3
    <2> QED BY <1>1, <1>2, <2>1, <2>2, <2>3, <2>4, ReadOn
  <1>7. ASSUME NEW e \in Exprs, ElseIf(e)
        PROVE  WInv'
    <2>1. ElseIfTok(e) \in Tokens /\ ElseIfTok(e).kind = "elseif"
      BY TokensAreTokens DEF ElseIfTok, Tok
    <2>2. /\ outcome = "compiling" /\ outcome' = "compiling" /\ InThen
          /\ seen' = Append(seen, ElseIfTok(e)) /\ frames' = frames
      BY <1>7 DEF ElseIf, Read
    <2> QED BY <1>1, <1>2, <2>1, <2>2, ReadOn
  <1>8. ASSUME frames # << >>
        PROVE  /\ Front(frames) \in Seq({"if", "else"}) /\ Len(Front(frames)) = Len(frames) - 1
               /\ \A d \in 1..(Len(frames) - 1) : Front(frames)[d] = frames[d]
    BY <1>1, <1>8, FrontIsShorter
  <1>9. ASSUME Else
        PROVE  WInv'
    <2>1. ElseTok \in Tokens /\ ElseTok.kind = "else"
      BY TokensAreTokens DEF ElseTok, Tok
    <2>2. /\ outcome = "compiling" /\ outcome' = "compiling" /\ InThen /\ frames # << >>
          /\ seen' = Append(seen, ElseTok) /\ frames' = Append(Front(frames), "else")
      BY <1>9 DEF Else, Read, InThen
    <2>3. /\ frames' \in Seq({"if", "else"}) /\ Len(frames') = Len(frames)
          /\ frames'[Len(frames)] = "else"
          /\ \A d \in 1..(Len(frames) - 1) : frames'[d] = frames[d]
      BY <1>2, <1>8, <2>2, AppendProperties
    <2>4. frames[Len(frames)] = "if"
      BY <2>2 DEF InThen, Last
    <2>5. \A d \in 1..Len(frames') :
            frames'[d] = "else" <=> (d <= Len(frames) /\ frames[d] = "else") \/ d = Len(frames')
      BY <1>2, <2>3, <2>4
    <2> QED BY <1>1, <1>2, <2>1, <2>2, <2>3, <2>5, ReadOn
  <1>10. ASSUME End
         PROVE  WInv'
    <2>1. EndTok \in Tokens /\ EndTok.kind = "end"
      BY TokensAreTokens DEF EndTok, Tok
    <2>2. /\ outcome = "compiling" /\ outcome' = "compiling" /\ frames # << >>
          /\ seen' = Append(seen, EndTok) /\ frames' = Front(frames)
      BY <1>10 DEF End, Read
    <2>3. \A d \in 1..Len(frames') : frames'[d] = "else" <=> (d <= Len(frames) /\ frames[d] = "else")
      BY <1>2, <1>8, <2>2
    <2> QED BY <1>1, <1>2, <1>8, <2>1, <2>2, <2>3, ReadOn
  <1>11. ASSUME NEW t \in Tokens, Stray(t)
         PROVE  WInv'
    <2>1. /\ outcome = "compiling" /\ outcome' = "rejected" /\ seen' = Append(seen, t)
          /\ \/ t.kind = "end" /\ frames = << >>
             \/ t.kind \in {"else", "elseif"} /\ ~(frames # << >> /\ Last(frames) = "if")
      BY <1>11 DEF Stray, Read, InThen
    <2>2. ~WellBegun(seen')
      BY <1>1, <2>1, StrayIsWrong DEF WInv, Compiling
    <2> QED BY <2>1, <2>2 DEF WInv, Compiling, AcceptsWellFormed, WellFormed, WellBegun, Nests
  <1>12. ASSUME Unfinished
         PROVE  WInv'
    <2>1. outcome = "compiling" /\ outcome' = "unfinished" /\ seen' = seen /\ frames # << >>
      BY <1>12 DEF Unfinished
    <2>2. Depth(seen, Len(seen)) # 0
      BY <1>2, <2>1 DEF WInv, Compiling, Nested
    <2>3. ~WellFormed(seen')
      BY <2>1, <2>2 DEF WellFormed, WellBegun, Nests
    <2> QED BY <2>1, <2>3 DEF WInv, Compiling, AcceptsWellFormed, WellFormed, WellBegun, Nests
  <1>13. ASSUME Finish
         PROVE  WInv'
    <2>1. outcome = "compiling" /\ outcome' = "compiled" /\ seen' = seen /\ frames = << >>
      BY <1>13 DEF Finish
    <2>2. Depth(seen, Len(seen)) = 0 /\ DOMAIN seen = 1..Len(seen)
      BY <1>1, <2>1, LenProperties DEF WInv, Compiling, Nested
    <2>3. WellFormed(seen')
      BY <2>1, <2>2 DEF WInv, Compiling, Nested, WellFormed, WellBegun, Nests
    <2> QED BY <2>1, <2>3 DEF WInv, Compiling, AcceptsWellFormed
  <1>14. ASSUME EmitWords \/ EmitDollar \/ EmitMark \/ EmitArgs
         PROVE  WInv'
    <2>1. seen' = seen /\ frames' = frames /\ outcome' = outcome
      BY <1>14 DEF EmitWords, EmitDollar, EmitMark, EmitArgs, Emit
    <2> QED BY <2>1, NothingRead
  <1> QED BY <1>3, <1>4, <1>5, <1>6, <1>7, <1>9, <1>10, <1>11, <1>12, <1>13, <1>14 DEF CompilerNext

\* The frames of the compiler are the open blocks of what it has read.
THEOREM NestingInvariance == BodySpec => []WInv
<1>1. BodyInit => WInv
  <2> SUFFICES ASSUME BodyInit PROVE WInv
    OBVIOUS
  <2>1. seen = << >> /\ frames = << >> /\ outcome = "compiling" /\ Len(seen) = 0 /\ Len(frames) = 0
    BY DEF BodyInit, CompilerInit
  <2>2. Depth(seen, 0) = 0
    BY DepthNext
  <2>3. 1..0 = {} /\ DOMAIN seen = {}
    BY <2>1
  <2> QED BY <2>1, <2>2, <2>3 DEF WInv, Compiling, AcceptsWellFormed, Nested, Substitutable
<1>2. BInv /\ WInv /\ [BodyNext]_allVars => WInv'
  <2> SUFFICES ASSUME BInv, WInv, [BodyNext]_allVars PROVE WInv'
    OBVIOUS
  <2>1. CASE CompilerNext
    BY <2>1, CompilerKeepsNesting
  <2>2. CASE UNCHANGED compilerVars
    BY <2>2, NothingRead DEF compilerVars
  <2>3. CompilerNext \/ UNCHANGED compilerVars
    BY DEF BodyNext, allVars, Call, Skip, Write, Mark, Arg, Bind, Substitute, SubstituteUnlessNil,
           IfBegins, ElseIfBegins, ElseBegins, Branch, BlockEnds, Next1
  <2> QED BY <2>1, <2>2, <2>3
<1> QED
  BY <1>1, <1>2, BodyInvariance, PTL DEF BodySpec

\* The beginning of a well-formed template is well begun.
LEMMA BeginningIsWellBegun ==
  ASSUME NEW s \in Seq(Tokens), NEW more \in Seq(Tokens), WellFormed(s \o more)
  PROVE  WellBegun(s)
PROOF
  <1>1. PICK z : z = s \o more
    OBVIOUS
  <1>2. /\ Len(s) \in Nat /\ DOMAIN s = 1..Len(s) /\ DOMAIN s \subseteq DOMAIN z
        /\ \A i \in 1..Len(s) : z[i] = s[i]
    BY <1>1, ConcatProperties, LenProperties
  <1>3. WellFormed(z)
    BY <1>1
  <1>4. \A i \in 1..Len(s) : Depth(z, i) = Depth(s, i)
    <2> SUFFICES ASSUME NEW i \in 1..Len(s) PROVE Depth(z, i) = Depth(s, i)
      OBVIOUS
    <2>1. \A j \in 1..i : z[j] = s[j]
      BY <1>2
    <2>2. /\ {j \in 1..i : z[j].kind = "if"} = {j \in 1..i : s[j].kind = "if"}
          /\ {j \in 1..i : z[j].kind = "end"} = {j \in 1..i : s[j].kind = "end"}
      BY <2>1
    <2> QED BY <2>2 DEF Depth
  <1>5. ASSUME NEW i \in 1..Len(s), NEW h \in 1..(i - 1), NEW d
        PROVE  Heads(z, h, i, d) <=> Heads(s, h, i, d)
    <2>1. h \in 1..Len(s) /\ \A k \in h..i : k \in 1..Len(s)
      BY <1>2
    <2> QED BY <1>2, <1>4, <2>1 DEF Heads
  <1>6. ASSUME NEW i \in DOMAIN s, s[i].kind \in {"elseif", "else"}
        PROVE  /\ Depth(s, i) > 0
               /\ ~\E h \in 1..(i - 1) : s[h].kind = "else" /\ Heads(s, h, i, Depth(s, i))
    <2>1. i \in 1..Len(s) /\ i \in DOMAIN z /\ z[i] = s[i] /\ Depth(z, i) = Depth(s, i)
      BY <1>2, <1>4
    <2>2. /\ Depth(z, i) > 0
          /\ ~\E h \in 1..(i - 1) : z[h].kind = "else" /\ Heads(z, h, i, Depth(z, i))
      BY <1>3, <1>6, <2>1 DEF WellFormed, WellBegun, Nests
    <2>3. \A h \in 1..(i - 1) : z[h] = s[h]
      BY <1>2, <2>1
    <2> QED BY <1>5, <2>1, <2>2, <2>3
  <1>7. \A i \in DOMAIN s : Depth(s, i) >= 0
    BY <1>2, <1>3, <1>4 DEF WellFormed, WellBegun, Nests
  <1>8. Substitutable(s)
    BY <1>2, <1>3 DEF WellFormed, WellBegun, Substitutable
  <1> QED BY <1>6, <1>7, <1>8 DEF WellBegun, Nests

\* A template rejected at a token is not well formed however it goes on.
RejectsForGood == outcome = "rejected" => \A more \in Seq(Tokens) : ~WellFormed(seen \o more)

\* CompileBody accepts exactly the well-formed templates (walk, emitIfChain,
\* emitDirect), of any length and nesting: what it compiles is well formed, what
\* ends too early is not, and what it rejects at a token could not become so.
THEOREM AcceptsExactly == BodySpec => [](AcceptsWellFormed /\ RejectsForGood)
<1>1. BInv /\ WInv => AcceptsWellFormed /\ RejectsForGood
  <2> SUFFICES ASSUME BInv, WInv PROVE AcceptsWellFormed /\ RejectsForGood
    OBVIOUS
  <2>1. AcceptsWellFormed
    BY DEF WInv
  <2>2. seen \in Seq(Tokens)
    BY DEF BInv, BodyTypeOK, CompilerTypeOK
  <2>3. outcome = "rejected" => ~WellBegun(seen)
    BY <2>1 DEF AcceptsWellFormed
  <2> QED BY <2>1, <2>2, <2>3, BeginningIsWellBegun DEF RejectsForGood
<1> QED
  BY <1>1, BodyInvariance, NestingInvariance, PTL

-----------------------------------------------------------------------------
(* The meaning of a text, symbol by symbol. *)

\* n colons stand right before symbol i.
Colons(x, i, n) ==
  /\ n \in 0..(i - 1)
  /\ \A k \in (i - n)..(i - 1) : x[k] = ":"
  /\ n < i - 1 => x[i - n - 1] # ":"

\* There is one such number only.
LEMMA ColonsAre ==
  ASSUME NEW x, NEW i \in Nat \ {0}, NEW n, Colons(x, i, n)
  PROVE  ColonsBefore(x, i) = n
PROOF
  <1>1. ASSUME NEW a, NEW b, Colons(x, i, a), Colons(x, i, b), a < b
        PROVE  FALSE
    <2>1. a \in 0..(i - 1) /\ b \in 0..(i - 1)
      BY <1>1 DEF Colons
    <2>2. a < i - 1 /\ i - a - 1 \in (i - b)..(i - 1)
      BY <1>1, <2>1
    <2> QED BY <1>1, <2>2 DEF Colons
  <1>2. \A m : Colons(x, i, m) => m = n
    <2> SUFFICES ASSUME NEW m, Colons(x, i, m) PROVE m = n
      OBVIOUS
    <2>1. m \in 0..(i - 1) /\ n \in 0..(i - 1)
      BY DEF Colons
    <2>2. m < n \/ n < m \/ m = n
      BY <2>1
    <2> QED BY <1>1, <2>2
  <1>3. ColonsBefore(x, i) = CHOOSE m : m \in 0..(i - 1) /\ Colons(x, i, m)
    BY DEF ColonsBefore, Colons
  <1>4. n \in 0..(i - 1)
    BY DEF Colons
  <1> QED BY <1>2, <1>3, <1>4

\* Counting the colons goes on with the next symbol.
LEMMA ColonsNext ==
  ASSUME NEW x, NEW i \in Nat \ {0}
  PROVE  /\ ColonsBefore(x, 1) = 0 /\ ColonsBefore(x, i) \in Nat
         /\ ColonsBefore(x, i + 1) = IF x[i] = ":" THEN ColonsBefore(x, i) + 1 ELSE 0
PROOF
  <1> DEFINE P == {k \in Nat : \E n \in Nat : Colons(x, k + 1, n)}
  <1>1. Colons(x, 1, 0)
    BY DEF Colons
  <1>2. ASSUME NEW k \in Nat, NEW n \in Nat, Colons(x, k + 1, n)
        PROVE  Colons(x, k + 1 + 1, IF x[k + 1] = ":" THEN n + 1 ELSE 0)
    <2>1. CASE x[k + 1] = ":"
      <3>1. n + 1 \in 0..(k + 1 + 1 - 1)
        BY <1>2 DEF Colons
      <3>2. \A j \in (k + 1 + 1 - (n + 1))..(k + 1 + 1 - 1) : j = k + 1 \/ j \in (k + 1 - n)..(k + 1 - 1)
        OBVIOUS
      <3>3. \A j \in (k + 1 + 1 - (n + 1))..(k + 1 + 1 - 1) : x[j] = ":"
        BY <1>2, <2>1, <3>2 DEF Colons
      <3>4. n + 1 < k + 1 + 1 - 1 => n < k + 1 - 1 /\ k + 1 + 1 - (n + 1) - 1 = k + 1 - n - 1
        OBVIOUS
      <3>5. n + 1 < k + 1 + 1 - 1 => x[k + 1 + 1 - (n + 1) - 1] # ":"
        BY <1>2, <3>4 DEF Colons
      <3> QED BY <2>1, <3>1, <3>3, <3>5 DEF Colons
    <2>2. CASE x[k + 1] # ":"
      <3>1. 0 \in 0..(k + 1 + 1 - 1) /\ (k + 1 + 1 - 0)..(k + 1 + 1 - 1) = {} /\ k + 1 + 1 - 0 - 1 = k + 1
        OBVIOUS
      <3> QED BY <2>2, <3>1 DEF Colons
    <2> QED BY <2>1, <2>2
  <1>3. 0 \in P
    BY <1>1
  <1>4. ASSUME NEW k \in Nat, k \in P PROVE k + 1 \in P
    <2>1. PICK n \in Nat : Colons(x, k + 1, n)
      BY <1>4
    <2> QED BY <1>2, <2>1
  <1>5. PICK k \in Nat : i = k + 1
    <2>1. i - 1 \in Nat /\ i = (i - 1) + 1
      OBVIOUS
    <2> QED BY <2>1
  <1>6. k \in P
    <2> HIDE DEF P
    <2> QED BY <1>3, <1>4, Induction
  <1>7. PICK n \in Nat : Colons(x, k + 1, n)
    BY <1>6
  <1>8. ColonsBefore(x, i) = n
    BY <1>5, <1>7, ColonsAre
  <1>9. ColonsBefore(x, i + 1) = IF x[k + 1] = ":" THEN n + 1 ELSE 0
    BY <1>2, <1>5, <1>7, ColonsAre
  <1>10. ColonsBefore(x, 1) = 0
    BY <1>1, ColonsAre
  <1> QED BY <1>5, <1>8, <1>9, <1>10

\* What queries are made of.
Pieces == [kind : {"word", "value", "param"}, of : Names]

\* What symbol i of a text means.
PieceOf(x, i) ==
  IF BoundAt(x, i) THEN <<Bound(x[i])>>
  ELSE IF BoundAt(x, i + 1) THEN << >>
  ELSE <<Word(x[i])>>

\* What the first n symbols mean.
MeansTo(x, n) == Joined([i \in 1..Len(x) |-> PieceOf(x, i)], n)

\* The pieces of a meaning.
LEMMA PiecesArePieces ==
  ASSUME NEW of \in Names
  PROVE  /\ Word(of) \in Pieces /\ Value(of) \in Pieces /\ Bound(of) \in Pieces
         /\ <<Word(of)>> \in Seq(Pieces) /\ <<Value(of)>> \in Seq(Pieces) /\ <<Bound(of)>> \in Seq(Pieces)
PROOF
  <1>1. Word(of) \in Pieces /\ Value(of) \in Pieces /\ Bound(of) \in Pieces
    BY DEF Word, Value, Bound, Pieces
  <1> QED BY <1>1

\* What one symbol of a text means is a sequence of pieces.
LEMMA PieceTyped ==
  ASSUME NEW x \in Seq(Words), NEW i \in 1..Len(x)
  PROVE  PieceOf(x, i) \in Seq(Pieces)
PROOF
  <1>1. x[i] \in Names
    BY ElementOfSeq, NamesAreNames
  <1>2. << >> \in Seq(Pieces)
    BY EmptySeq
  <1> QED BY <1>1, <1>2, PiecesArePieces DEF PieceOf

\* The meaning of the first n symbols, symbol by symbol; all of them are the
\* text.
LEMMA MeansTyped ==
  ASSUME NEW x \in Seq(Words), NEW n \in 0..Len(x)
  PROVE  /\ MeansTo(x, n) \in Seq(Pieces) /\ MeansTo(x, 0) = << >>
         /\ n < Len(x) => MeansTo(x, n + 1) = MeansTo(x, n) \o PieceOf(x, n + 1)
         /\ MeansTo(x, Len(x)) = MeaningOfText(x)
PROOF
  <1> DEFINE f == [i \in 1..Len(x) |-> PieceOf(x, i)]
  <1>1. Len(x) \in Nat /\ n \in Nat /\ n <= Len(x) /\ DOMAIN x = 1..Len(x)
    BY LenProperties
  <1>2. \A i \in 1..Len(x) : f[i] = PieceOf(x, i)
    OBVIOUS
  <1>3. \A i \in 1..Len(x) : f[i] \in Seq(Pieces)
    BY <1>2, PieceTyped
  <1>4. f = [i \in 1..Len(x) |-> f[i]]
    OBVIOUS
  <1>5. MeaningOfText(x) = FlattenSeq(f)
    BY <1>1 DEF MeaningOfText, PieceOf
  <1> HIDE DEF f
  <1>6. Joined(f, n) \in Seq(Pieces) /\ Joined(f, 0) = << >>
    <2>1. \A i \in 1..n : f[i] \in Seq(Pieces)
      BY <1>1, <1>3
    <2> QED BY <1>1, <2>1, JoinedTyped, JoinedNone
  <1>7. ASSUME n < Len(x) PROVE Joined(f, n + 1) = Joined(f, n) \o PieceOf(x, n + 1)
    <2>1. \A i \in 1..n + 1 : i \in 1..Len(x) /\ f[i] \in Seq(Pieces)
      BY <1>1, <1>3, <1>7
    <2>2. Joined(f, n + 1) = Joined(f, n) \o f[n + 1]
      BY <1>1, <2>1, JoinedNext
    <2>3. n + 1 \in 1..Len(x)
      BY <1>1, <1>7
    <2> QED BY <1>2, <2>2, <2>3
  <1>8. Joined(f, Len(x)) = FlattenSeq(f)
    BY <1>4 DEF Joined
  <1> QED BY <1>5, <1>6, <1>7, <1>8 DEF MeansTo, f

\* The compiler stands at the beginning of a run of symbols that are read
\* together: no colon is left over that would bind the next symbol.
Aligned(x, n) ==
  n < Len(x) /\ x[n + 1] \in Identifiers \cup {":"} => ColonsBefore(x, n + 1) % 2 = 0

\* The colons before a symbol and whether it is bound.
LEMMA BoundNext ==
  ASSUME NEW x \in Seq(Words), NEW i \in 1..Len(x)
  PROVE  /\ BoundAt(x, i) <=> x[i] \in Identifiers /\ ColonsBefore(x, i) % 2 = 1
         /\ BoundAt(x, i + 1) <=>
              i < Len(x) /\ x[i] = ":" /\ x[i + 1] \in Identifiers /\ ColonsBefore(x, i) % 2 = 0
         /\ ColonsBefore(x, i) \in Nat
PROOF
  <1>1. Len(x) \in Nat /\ DOMAIN x = 1..Len(x) /\ i \in Nat \ {0} /\ i + 1 \in Nat
        /\ (i + 1 \in 1..Len(x) <=> i < Len(x))
    BY LenProperties
  <1>2. ColonsBefore(x, i) \in Nat /\ ColonsBefore(x, i + 1) = IF x[i] = ":" THEN ColonsBefore(x, i) + 1 ELSE 0
    BY <1>1, ColonsNext
  <1>3. \A n \in Nat : ((n + 1) % 2 = 1 <=> n % 2 = 0) /\ 0 % 2 # 1
    OBVIOUS
  <1>4. ColonsBefore(x, i + 1) % 2 = 1 <=> x[i] = ":" /\ ColonsBefore(x, i) % 2 = 0
    BY <1>2, <1>3
  <1> QED BY <1>1, <1>2, <1>4 DEF BoundAt

\* A parameter with its colon.
LEMMA ParamMeans ==
  ASSUME NEW x \in Seq(Words), NEW n \in Nat, n + 2 <= Len(x), Aligned(x, n),
         x[n + 1] = ":", x[n + 2] \in Identifiers
  PROVE  MeansTo(x, n + 2) = Append(MeansTo(x, n), Bound(x[n + 2])) /\ Aligned(x, n + 2)
PROOF
  <1>1. Len(x) \in Nat /\ n + 1 \in 1..Len(x) /\ n + 2 \in 1..Len(x) /\ n < Len(x) /\ n + 1 < Len(x)
        /\ n + 1 + 1 = n + 2 /\ n \in 0..Len(x) /\ n + 1 \in 0..Len(x) /\ n + 2 \in Nat \ {0}
    BY LenProperties
  <1>2. ":" \notin Identifiers /\ x[n + 2] # ":"
    BY ParamsAssumption
  <1>3. ColonsBefore(x, n + 1) % 2 = 0
    BY <1>1 DEF Aligned
  <1>4. ~BoundAt(x, n + 1) /\ BoundAt(x, n + 2)
    <2>1. BoundAt(x, n + 1 + 1) <=>
              n + 1 < Len(x) /\ x[n + 1] = ":" /\ x[n + 1 + 1] \in Identifiers /\ ColonsBefore(x, n + 1) % 2 = 0
      BY <1>1, BoundNext
    <2>2. BoundAt(x, n + 1) => x[n + 1] \in Identifiers
      BY DEF BoundAt
    <2> QED BY <1>1, <1>2, <1>3, <2>1, <2>2
  <1>5. PieceOf(x, n + 1) = << >> /\ PieceOf(x, n + 2) = <<Bound(x[n + 2])>>
    BY <1>1, <1>4 DEF PieceOf
  <1>6. PICK m \in Seq(Pieces) : m = MeansTo(x, n)
    BY <1>1, MeansTyped
  <1>7. MeansTo(x, n + 1) = m
    <2>1. MeansTo(x, n + 1) = m \o << >>
      BY <1>1, <1>5, <1>6, MeansTyped
    <2> QED BY <2>1, ConcatEmptySeq
  <1>8. MeansTo(x, n + 2) = m \o <<Bound(x[n + 2])>>
    <2>1. MeansTo(x, n + 1 + 1) = MeansTo(x, n + 1) \o PieceOf(x, n + 1 + 1)
      BY <1>1, MeansTyped
    <2> QED BY <1>1, <1>5, <1>7, <2>1
  <1>9. Bound(x[n + 2]) \in Pieces
    <2>1. x[n + 2] \in Names
      BY NamesAreNames
    <2> QED BY <2>1, PiecesArePieces
  <1>10. m \o <<Bound(x[n + 2])>> = Append(m, Bound(x[n + 2]))
    BY <1>9, AppendIsConcat
  <1>11. Aligned(x, n + 2)
    <2>1. ColonsBefore(x, n + 2 + 1) = 0
      BY <1>1, <1>2, ColonsNext
    <2> QED BY <2>1 DEF Aligned
  <1> QED BY <1>6, <1>8, <1>10, <1>11

\* Two colons.
LEMMA CastMeans ==
  ASSUME NEW x \in Seq(Words), NEW n \in Nat, n + 2 <= Len(x), Aligned(x, n),
         x[n + 1] = ":", x[n + 2] = ":"
  PROVE  /\ MeansTo(x, n + 2) = Append(Append(MeansTo(x, n), Word(":")), Word(":"))
         /\ Aligned(x, n + 2)
PROOF
  <1>1. Len(x) \in Nat /\ n + 1 \in 1..Len(x) /\ n + 2 \in 1..Len(x) /\ n < Len(x) /\ n + 1 < Len(x)
        /\ n + 1 + 1 = n + 2 /\ n \in 0..Len(x) /\ n + 1 \in 0..Len(x) /\ n + 2 \in Nat \ {0} /\ n + 1 \in Nat \ {0}
    BY LenProperties
  <1>2. ":" \notin Identifiers
    BY ParamsAssumption
  <1>3. ColonsBefore(x, n + 1) % 2 = 0 /\ ColonsBefore(x, n + 1) \in Nat
    BY <1>1, ColonsNext DEF Aligned
  <1>31. ColonsBefore(x, n + 2) = ColonsBefore(x, n + 1) + 1
    BY <1>1, ColonsNext
  <1>32. ColonsBefore(x, n + 2 + 1) = ColonsBefore(x, n + 1) + 2 /\ ColonsBefore(x, n + 2) % 2 = 1
         /\ (ColonsBefore(x, n + 1) + 2) % 2 = 0
    <2>1. ColonsBefore(x, n + 2 + 1) = ColonsBefore(x, n + 2) + 1
      BY <1>1, ColonsNext
    <2>2. \A k \in Nat : (k % 2 = 0 => (k + 1) % 2 = 1 /\ (k + 2) % 2 = 0) /\ k + 1 + 1 = k + 2
      OBVIOUS
    <2> QED BY <1>3, <1>31, <2>1, <2>2
  <1>4. ~BoundAt(x, n + 1) /\ ~BoundAt(x, n + 2) /\ ~BoundAt(x, n + 2 + 1)
    <2>1. BoundAt(x, n + 2 + 1) => ColonsBefore(x, n + 2) % 2 = 0
      BY <1>1, BoundNext
    <2>2. \A i : BoundAt(x, i) => x[i] \in Identifiers
      BY DEF BoundAt
    <2> QED BY <1>2, <1>32, <2>1, <2>2
  <1>5. PieceOf(x, n + 1) = <<Word(":")>> /\ PieceOf(x, n + 2) = <<Word(":")>>
    BY <1>1, <1>4 DEF PieceOf
  <1>6. PICK m \in Seq(Pieces) : m = MeansTo(x, n)
    BY <1>1, MeansTyped
  <1>9. PICK w \in Pieces : w = Word(":")
    <2>1. ":" \in Names
      BY DEF Names
    <2> QED BY <2>1, PiecesArePieces
  <1>7. MeansTo(x, n + 1) = Append(m, w)
    <2>1. MeansTo(x, n + 1) = m \o <<w>>
      BY <1>1, <1>5, <1>6, <1>9, MeansTyped
    <2> QED BY <2>1, AppendIsConcat
  <1>8. MeansTo(x, n + 2) = Append(Append(m, w), w)
    <2>1. MeansTo(x, n + 1 + 1) = MeansTo(x, n + 1) \o PieceOf(x, n + 1 + 1)
      BY <1>1, MeansTyped
    <2>2. PICK k \in Seq(Pieces) : k = Append(m, w)
      BY AppendProperties
    <2>3. MeansTo(x, n + 2) = k \o <<w>>
      BY <1>1, <1>5, <1>7, <1>9, <2>1, <2>2
    <2> QED BY <2>2, <2>3, AppendIsConcat
  <1>11. Aligned(x, n + 2)
    BY <1>32 DEF Aligned
  <1> QED BY <1>6, <1>8, <1>9, <1>11

\* A symbol of its own.
LEMMA WordMeans ==
  ASSUME NEW x \in Seq(Words), NEW n \in Nat, n + 1 <= Len(x), Aligned(x, n),
         x[n + 1] = ":" /\ n + 2 <= Len(x) => x[n + 2] \notin Identifiers \cup {":"}
  PROVE  MeansTo(x, n + 1) = Append(MeansTo(x, n), Word(x[n + 1])) /\ Aligned(x, n + 1)
PROOF
  <1>1. Len(x) \in Nat /\ n + 1 \in 1..Len(x) /\ n < Len(x) /\ n + 1 + 1 = n + 2 /\ n \in 0..Len(x)
        /\ n + 1 \in Nat \ {0} /\ (n + 1 < Len(x) <=> n + 2 <= Len(x))
    BY LenProperties
  <1>3. x[n + 1] \in Identifiers \cup {":"} => ColonsBefore(x, n + 1) % 2 = 0
    BY <1>1 DEF Aligned
  <1>31. 0 % 2 = 0
    OBVIOUS
  <1>4. ~BoundAt(x, n + 1) /\ ~BoundAt(x, n + 1 + 1)
    <2>1. /\ BoundAt(x, n + 1) <=> x[n + 1] \in Identifiers /\ ColonsBefore(x, n + 1) % 2 = 1
          /\ BoundAt(x, n + 1 + 1) <=>
              n + 1 < Len(x) /\ x[n + 1] = ":" /\ x[n + 1 + 1] \in Identifiers /\ ColonsBefore(x, n + 1) % 2 = 0
      BY <1>1, BoundNext
    <2>2. ColonsBefore(x, n + 1) % 2 = 0 => ColonsBefore(x, n + 1) % 2 # 1
      OBVIOUS
    <2> QED BY <1>1, <1>3, <2>1, <2>2
  <1>5. PieceOf(x, n + 1) = <<Word(x[n + 1])>>
    BY <1>4 DEF PieceOf
  <1>6. PICK m \in Seq(Pieces) : m = MeansTo(x, n)
    BY <1>1, MeansTyped
  <1>9. PICK w \in Pieces : w = Word(x[n + 1])
    <2>1. x[n + 1] \in Names
      BY <1>1, ElementOfSeq, NamesAreNames
    <2> QED BY <2>1, PiecesArePieces
  <1>7. MeansTo(x, n + 1) = Append(m, w)
    <2>1. MeansTo(x, n + 1) = m \o <<w>>
      BY <1>1, <1>5, <1>6, <1>9, MeansTyped
    <2> QED BY <2>1, AppendIsConcat
  <1>8. Aligned(x, n + 1)
    <2>1. ColonsBefore(x, n + 1 + 1) = IF x[n + 1] = ":" THEN ColonsBefore(x, n + 1) + 1 ELSE 0
      BY <1>1, ColonsNext
    <2>2. CASE x[n + 1] = ":"
      BY <1>1, <2>2 DEF Aligned
    <2>3. CASE x[n + 1] # ":"
      BY <1>31, <2>1, <2>3 DEF Aligned
    <2> QED BY <2>2, <2>3
  <1> QED BY <1>6, <1>7, <1>8, <1>9

-----------------------------------------------------------------------------
(* What statements do. *)

\* What a statement of a text writes, and the argument it gives.
SaysOf ==
  [st \in Stmts |-> IF st.op = "write" THEN <<Word(st.of)>>
                    ELSE IF st.op \in {"mark", "bind"} THEN <<Bound(st.of)>> ELSE << >>]
GivesOf == [st \in Stmts |-> IF st.op \in {"arg", "bind"} THEN <<st.of>> ELSE << >>]

\* The arguments that a query asks for.
AskedOf == [p \in Pieces |-> IF p.kind = "param" THEN <<p.of>> ELSE << >>]
Asked(m) == Each(m, AskedOf)

\* What single statements and pieces stand for has its type.
LEMMA WhatIsSaid ==
  /\ SaysOf \in [Stmts -> Seq(Pieces)] /\ GivesOf \in [Stmts -> Seq(Names)]
  /\ AskedOf \in [Pieces -> Seq(Names)]
PROOF
  <1>1. ASSUME NEW st \in Stmts PROVE SaysOf[st] \in Seq(Pieces) /\ GivesOf[st] \in Seq(Names)
    <2>1. st.of \in Names
      BY DEF Stmts
    <2>2. <<Word(st.of)>> \in Seq(Pieces) /\ <<Bound(st.of)>> \in Seq(Pieces) /\ << >> \in Seq(Pieces)
      BY <2>1, PiecesArePieces, EmptySeq
    <2>3. <<st.of>> \in Seq(Names) /\ << >> \in Seq(Names)
      BY <2>1
    <2> QED BY <2>2, <2>3 DEF SaysOf, GivesOf
  <1>2. ASSUME NEW p \in Pieces PROVE AskedOf[p] \in Seq(Names)
    <2>1. p.of \in Names
      BY DEF Pieces
    <2>3. <<p.of>> \in Seq(Names) /\ << >> \in Seq(Names)
      BY <2>1
    <2> QED BY <2>3 DEF AskedOf
  <1>3. SaysOf = [st \in Stmts |-> SaysOf[st]] /\ GivesOf = [st \in Stmts |-> GivesOf[st]]
        /\ AskedOf = [p \in Pieces |-> AskedOf[p]]
    BY DEF SaysOf, GivesOf, AskedOf
  <1> QED BY <1>1, <1>2, <1>3

\* The arguments that are asked for are names.
LEMMA AskedTyped ==
  ASSUME NEW m \in Seq(Pieces)
  PROVE  Asked(m) \in Seq(Names)
PROOF
  BY WhatIsSaid, EachTyped DEF Asked

\* Nothing asks for nothing.
LEMMA AskedNone == Asked(<< >>) = << >>
PROOF
  BY EachNone DEF Asked

\* Only a bound parameter asks for an argument, for itself.
LEMMA AskedAppend ==
  ASSUME NEW m \in Seq(Pieces), NEW p \in Pieces
  PROVE  Asked(Append(m, p)) = IF p.kind = "param" THEN Append(Asked(m), p.of) ELSE Asked(m)
PROOF
  <1>1. Each(Append(m, p), AskedOf) = Each(m, AskedOf) \o AskedOf[p]
    BY WhatIsSaid, EachAppend
  <1>2. AskedOf[p] = IF p.kind = "param" THEN <<p.of>> ELSE << >>
    BY DEF AskedOf
  <1>3. PICK a \in Seq(Names) : a = Asked(m)
    BY AskedTyped
  <1>4. a \o << >> = a
    BY ConcatEmptySeq
  <1>5. p.of \in Names
    BY DEF Pieces
  <1>6. a \o <<p.of>> = Append(a, p.of)
    BY <1>5, AppendIsConcat
  <1> QED BY <1>1, <1>2, <1>3, <1>4, <1>6 DEF Asked

\* The arguments of two queries.
AskedApart(m, z) == Asked(m \o z) = Asked(m) \o Asked(z)

\* A query asks for the arguments of its first part, then of its second.
LEMMA AskedConcat ==
  ASSUME NEW m \in Seq(Pieces), NEW z \in Seq(Pieces)
  PROVE  AskedApart(m, z)
PROOF
  <1>1. Splits(m, z, AskedOf)
    BY WhatIsSaid, EachConcat
  <1> QED BY <1>1 DEF Splits, AskedApart, Asked

\* Single statements of a text.
LEMMA StatementsSay ==
  ASSUME NEW of \in Names
  PROVE  /\ \A op \in {"write", "mark", "bind", "arg"} :
              Stmt(op, of) \in Stmts /\ Stmt(op, of).op = op /\ Stmt(op, of).of = of
         /\ SaysOf[Stmt("write", of)] = <<Word(of)>> /\ GivesOf[Stmt("write", of)] = << >>
         /\ SaysOf[Stmt("mark", of)] = <<Bound(of)>> /\ GivesOf[Stmt("mark", of)] = << >>
         /\ SaysOf[Stmt("bind", of)] = <<Bound(of)>> /\ GivesOf[Stmt("bind", of)] = <<of>>
         /\ SaysOf[Stmt("arg", of)] = << >> /\ GivesOf[Stmt("arg", of)] = <<of>>
         /\ AskedOf[Word(of)] = << >> /\ AskedOf[Bound(of)] = <<of>> /\ AskedOf[Value(of)] = << >>
PROOF
  <1>1. \A op \in {"write", "mark", "bind", "arg"} :
              Stmt(op, of) \in Stmts /\ Stmt(op, of).op = op /\ Stmt(op, of).of = of
    BY DEF Stmt, Stmts, Ops
  <1>2. /\ Word(of) \in Pieces /\ Word(of).kind = "word" /\ Word(of).of = of
        /\ Value(of) \in Pieces /\ Value(of).kind = "value"
        /\ Bound(of) \in Pieces /\ Bound(of).kind = "param" /\ Bound(of).of = of
    BY PiecesArePieces DEF Word, Bound, Value
  <1>3. AskedOf[Word(of)] = << >> /\ AskedOf[Bound(of)] = <<of>> /\ AskedOf[Value(of)] = << >>
    BY <1>2 DEF AskedOf
  <1>4. SaysOf[Stmt("write", of)] = <<Word(of)>> /\ GivesOf[Stmt("write", of)] = << >>
    BY <1>1 DEF SaysOf, GivesOf
  <1>5. SaysOf[Stmt("mark", of)] = <<Bound(of)>> /\ GivesOf[Stmt("mark", of)] = << >>
    BY <1>1 DEF SaysOf, GivesOf
  <1>6. SaysOf[Stmt("bind", of)] = <<Bound(of)>> /\ GivesOf[Stmt("bind", of)] = <<of>>
    BY <1>1 DEF SaysOf, GivesOf
  <1>7. SaysOf[Stmt("arg", of)] = << >> /\ GivesOf[Stmt("arg", of)] = <<of>>
    BY <1>1 DEF SaysOf, GivesOf
  <1> QED BY <1>1, <1>3, <1>4, <1>5, <1>6, <1>7

-----------------------------------------------------------------------------
(* What the compiler has written. *)

TextOps == {"write", "mark", "bind", "arg"}
OfText(v) == v # << >> /\ \A j \in 1..Len(v) : v[j].op \in TextOps

\* The statement of a token that is no text.
LineOf(t) ==
  Stmt(IF t.kind = "subst" THEN (IF t.arg \in PtrParams THEN "substptr" ELSE "subst") ELSE t.kind, t.arg)

\* The statements of ss after the a-th, up to the b-th, stand for token t.
CodeOf(t, ss, a, b) ==
  IF t.kind = "text"
  THEN /\ \A j \in a + 1..b : ss[j].op \in TextOps
       /\ Each(Slice(ss, a, b), SaysOf) = MeaningOfText(t.text)
       /\ Each(Slice(ss, a, b), GivesOf) = Asked(MeaningOfText(t.text))
  ELSE b = a + 1 /\ ss[b] = LineOf(t)

\* The statements that end with the e[i]-th stand for the first i tokens.
Codes(e, m, ts, ss) ==
  /\ e \in [0..m -> 0..Len(ss)] /\ e[0] = 0
  /\ \A i \in 1..m : e[i - 1] < e[i] /\ CodeOf(ts[i], ss, e[i - 1], e[i])

Longer(ss, zz) == Len(ss) <= Len(zz) /\ \A j \in 1..Len(ss) : zz[j] = ss[j]

\* A token keeps its statements when more are written.
LEMMA CodeStays ==
  ASSUME NEW ss \in Seq(Stmts), NEW zz \in Seq(Stmts), Longer(ss, zz), NEW t,
         NEW a \in Nat, NEW b \in 0..Len(ss), a < b, CodeOf(t, ss, a, b)
  PROVE  CodeOf(t, zz, a, b)
PROOF
  <1>1. Len(ss) \in Nat /\ a \in 0..Len(ss) /\ b \in a..Len(ss) /\ b \in 1..Len(ss)
        /\ \A j \in a + 1..b : j \in 1..Len(ss)
    BY LenProperties
  <1>2. Slice(zz, a, b) = Slice(ss, a, b)
    BY <1>1, PartSame DEF Longer
  <1> QED BY <1>1, <1>2 DEF CodeOf, Longer

\* What has been written goes on standing for what has been read.
LEMMA CodesStay ==
  ASSUME NEW ss \in Seq(Stmts), NEW zz \in Seq(Stmts), Longer(ss, zz),
         NEW m \in Nat, NEW ts, NEW us, \A i \in 1..m : us[i] = ts[i],
         NEW e, Codes(e, m, ts, ss)
  PROVE  Codes(e, m, us, zz)
PROOF
  <1>1. Len(ss) \in Nat /\ Len(zz) \in Nat /\ Len(ss) <= Len(zz)
    BY LenProperties DEF Longer
  <1>2. 0..Len(ss) \subseteq 0..Len(zz)
    BY <1>1
  <1>3. e \in [0..m -> 0..Len(ss)] /\ e[0] = 0
    BY DEF Codes
  <1>31. e \in [0..m -> 0..Len(zz)]
    BY <1>2, <1>3
  <1>4. ASSUME NEW i \in 1..m
        PROVE  e[i - 1] < e[i] /\ CodeOf(us[i], zz, e[i - 1], e[i])
    <2>1. i - 1 \in 0..m /\ i \in 0..m
      OBVIOUS
    <2>2. e[i - 1] \in 0..Len(ss) /\ e[i] \in 0..Len(ss)
      BY <1>3, <2>1
    <2>3. e[i - 1] < e[i] /\ CodeOf(ts[i], ss, e[i - 1], e[i])
      BY DEF Codes
    <2>4. PICK a \in Nat : a = e[i - 1]
      BY <1>1, <2>2
    <2>5. PICK b \in 0..Len(ss) : b = e[i]
      BY <2>2
    <2>6. CodeOf(ts[i], zz, a, b)
      BY <2>3, <2>4, <2>5, CodeStays
    <2> QED BY <2>3, <2>4, <2>5, <2>6
  <1> QED BY <1>3, <1>31, <1>4 DEF Codes

\* One token more.
LEMMA CodesNext ==
  ASSUME NEW ss, NEW m \in Nat, NEW ts, NEW e, Codes(e, m, ts, ss), Len(ss) \in Nat,
         NEW b \in 0..Len(ss), e[m] < b, CodeOf(ts[m + 1], ss, e[m], b)
  PROVE  \E f : Codes(f, m + 1, ts, ss) /\ f[m + 1] = b
PROOF
  <1> DEFINE f == [i \in 0..m + 1 |-> IF i <= m THEN e[i] ELSE b]
  <1>1. e \in [0..m -> 0..Len(ss)] /\ e[0] = 0
    BY DEF Codes
  <1>2. f \in [0..m + 1 -> 0..Len(ss)]
    <2>1. \A i \in 0..m + 1 : i <= m => i \in 0..m
      OBVIOUS
    <2> QED BY <1>1, <2>1
  <1>3. f[0] = 0 /\ f[m + 1] = b /\ \A i \in 0..m : f[i] = e[i]
    BY <1>1
  <1> HIDE DEF f
  <1>4. ASSUME NEW i \in 1..m + 1
        PROVE  f[i - 1] < f[i] /\ CodeOf(ts[i], ss, f[i - 1], f[i])
    <2>1. CASE i \in 1..m
      <3>1. i - 1 \in 0..m /\ i \in 0..m
        BY <2>1
      <3>2. f[i - 1] = e[i - 1] /\ f[i] = e[i]
        BY <1>3, <3>1
      <3>3. e[i - 1] < e[i] /\ CodeOf(ts[i], ss, e[i - 1], e[i])
        BY <2>1 DEF Codes
      <3> QED BY <3>2, <3>3
    <2>2. CASE i = m + 1
      <3>1. i - 1 = m /\ m \in 0..m
        BY <2>2
      <3>2. f[i - 1] = e[m] /\ f[i] = b
        BY <1>3, <2>2, <3>1
      <3> QED BY <2>2, <3>2
    <2> QED BY <2>1, <2>2
  <1>5. Codes(f, m + 1, ts, ss)
    BY <1>2, <1>3, <1>4 DEF Codes
  <1> QED BY <1>3, <1>5

\* The compiler is in the middle of a text x: k of its symbols are dealt with.
Emitting(x, k, rest, names, ss, a) ==
  /\ k \in 0..Len(x) /\ rest = Slice(x, k, Len(x)) /\ Aligned(x, k)
  /\ a \in 0..Len(ss) /\ (k > 0 => a < Len(ss))
  /\ \A j \in a + 1..Len(ss) : ss[j].op \in TextOps
  /\ Each(Slice(ss, a, Len(ss)), SaysOf) = MeansTo(x, k)
  /\ Each(Slice(ss, a, Len(ss)), GivesOf) \o names = Asked(MeansTo(x, k))

\* The beginning of a text.
LEMMA EmittingBegins ==
  ASSUME NEW x \in Seq(Words), NEW ss \in Seq(Stmts)
  PROVE  Emitting(x, 0, x, << >>, ss, Len(ss))
PROOF
  <1>1. Len(x) \in Nat /\ Len(ss) \in Nat /\ 0 \in 0..Len(x) /\ Len(ss) \in 0..Len(ss)
        /\ Len(ss) \in Len(ss)..Len(ss) /\ Len(ss) + 1..Len(ss) = {}
    BY LenProperties
  <1>2. Slice(x, 0, Len(x)) = x
    <2>1. 0 + 1 = 1
      OBVIOUS
    <2> QED BY <2>1, SubSeqFull DEF Slice
  <1>3. Aligned(x, 0)
    <2>1. ColonsBefore(x, 0 + 1) % 2 = 0
      <3>1. ColonsBefore(x, 1) = 0 /\ 0 % 2 = 0 /\ 0 + 1 = 1
        BY ColonsNext
      <3> QED BY <3>1
    <2> QED BY <2>1 DEF Aligned
  <1>4. Slice(ss, Len(ss), Len(ss)) = << >>
    BY <1>1, PartTyped
  <1>5. MeansTo(x, 0) = << >>
    BY <1>1, MeansTyped
  <1>6. << >> \o << >> = << >>
    OBVIOUS
  <1> QED BY <1>1, <1>2, <1>3, <1>4, <1>5, <1>6, EachNone, AskedNone DEF Emitting

\* The rest of a rest.
LEMMA RestOfText ==
  ASSUME NEW x \in Seq(Words), NEW k \in 0..Len(x), NEW n \in Nat, k + n <= Len(x)
  PROVE  LET r == Slice(x, k, Len(x))
         IN  /\ SubSeq(r, n + 1, Len(r)) = Slice(x, k + n, Len(x))
             /\ Len(r) = Len(x) - k /\ \A i \in 1..Len(r) : r[i] = x[k + i]
PROOF
  <1>1. Len(x) \in Nat /\ k \in Nat /\ Len(x) \in k..Len(x)
    BY LenProperties
  <1>2. PICK r \in Seq(Words) : r = Slice(x, k, Len(x)) /\ IsPart(r, x, k, Len(x))
    BY <1>1, PartIs
  <1>3. Len(r) = Len(x) - k /\ \A i \in 1..Len(x) - k : r[i] = x[k + i]
    BY <1>2 DEF IsPart
  <1>4. n \in 0..Len(r) /\ Len(r) \in n..Len(r) /\ k + n \in 0..Len(x) /\ Len(x) \in k + n..Len(x)
    BY <1>1, <1>3
  <1>5. PICK b \in Seq(Words) : b = Slice(r, n, Len(r)) /\ IsPart(b, r, n, Len(r))
    BY <1>4, PartIs
  <1>6. PICK c \in Seq(Words) : c = Slice(x, k + n, Len(x)) /\ IsPart(c, x, k + n, Len(x))
    BY <1>4, PartIs
  <1>7. Len(b) = Len(r) - n /\ Len(c) = Len(x) - (k + n) /\ Len(b) = Len(c)
    <2>1. Len(b) = Len(r) - n /\ Len(c) = Len(x) - (k + n)
      BY <1>5, <1>6 DEF IsPart
    <2> QED BY <1>1, <1>3, <2>1
  <1>8. ASSUME NEW i \in 1..Len(b) PROVE b[i] = c[i]
    <2>1. i \in 1..Len(r) - n /\ i \in 1..Len(x) - (k + n) /\ n + i \in 1..Len(x) - k /\ k + (n + i) = k + n + i
      BY <1>1, <1>3, <1>7
    <2>2. b[i] = r[n + i] /\ c[i] = x[k + n + i] /\ r[n + i] = x[k + (n + i)]
      BY <1>3, <1>5, <1>6, <2>1 DEF IsPart
    <2> QED BY <2>1, <2>2
  <1>9. b = c
    BY <1>7, <1>8, SeqEqual
  <1> QED BY <1>2, <1>3, <1>5, <1>6, <1>9 DEF Slice

\* Symbols k + 1 to k + n mean what the statements v say.
Say(v, x, k, n) == MeansTo(x, k + n) = MeansTo(x, k) \o Each(v, SaysOf)

\* The arguments names, and those for what v says, are given by v, or are new.
Settle(v, names, new) == names \o Asked(Each(v, SaysOf)) = Each(v, GivesOf) \o new

\* Statements that say what the next symbols mean, and give the arguments that
\* those ask for, now or later.
LEMMA EmittingNext ==
  ASSUME NEW x \in Seq(Words), NEW k, NEW rest, NEW names \in Seq(Names), NEW ss \in Seq(Stmts), NEW a,
         Emitting(x, k, rest, names, ss, a),
         NEW n \in Nat, k + n <= Len(x), NEW v \in Seq(Stmts), NEW new \in Seq(Names),
         Aligned(x, k + n), OfText(v), Say(v, x, k, n), Settle(v, names, new)
  PROVE  Emitting(x, k + n, SubSeq(rest, n + 1, Len(rest)), new, ss \o v, a)
PROOF
  <1>1. /\ k \in 0..Len(x) /\ rest = Slice(x, k, Len(x)) /\ a \in 0..Len(ss)
        /\ \A j \in a + 1..Len(ss) : ss[j].op \in TextOps
        /\ Each(Slice(ss, a, Len(ss)), SaysOf) = MeansTo(x, k)
        /\ Each(Slice(ss, a, Len(ss)), GivesOf) \o names = Asked(MeansTo(x, k))
    BY DEF Emitting
  <1>0. v # << >> /\ \A j \in 1..Len(v) : v[j].op \in TextOps
    BY DEF OfText
  <1>2. Len(x) \in Nat /\ Len(ss) \in Nat /\ Len(v) \in Nat /\ Len(v) > 0 /\ k \in Nat /\ k + n \in 0..Len(x)
    BY <1>0, <1>1, LenProperties, EmptySeq
  <1>3. SubSeq(rest, n + 1, Len(rest)) = Slice(x, k + n, Len(x))
    BY <1>1, RestOfText
  <1>4. PICK z \in Seq(Stmts) : z = ss \o v
    BY ConcatProperties
  <1>5. /\ Len(z) = Len(ss) + Len(v)
        /\ \A i \in 1..(Len(ss) + Len(v)) : z[i] = IF i <= Len(ss) THEN ss[i] ELSE v[i - Len(ss)]
    BY <1>4, ConcatProperties
  <1>6. a \in 0..Len(z) /\ a < Len(z)
    BY <1>1, <1>2, <1>5
  <1>7. ASSUME NEW j \in a + 1..Len(z) PROVE z[j].op \in TextOps
    <2>1. CASE j <= Len(ss)
      <3>1. j \in 1..(Len(ss) + Len(v)) /\ j \in a + 1..Len(ss)
        BY <1>1, <1>2, <1>5, <2>1
      <3> QED BY <1>1, <1>5, <2>1, <3>1
    <2>2. CASE ~(j <= Len(ss))
      <3>1. j - Len(ss) \in 1..Len(v) /\ j \in 1..(Len(ss) + Len(v))
        BY <1>1, <1>2, <1>5, <2>2
      <3> QED BY <1>0, <1>5, <2>2, <3>1
    <2> QED BY <2>1, <2>2
  <1>8. PICK p \in Seq(Stmts) : p = Slice(ss, a, Len(ss))
    <2>1. Len(ss) \in a..Len(ss)
      BY <1>1, <1>2
    <2> QED BY <1>1, <2>1, PartTyped
  <1>9. Slice(z, a, Len(z)) = p \o v
    BY <1>1, <1>4, <1>8, PartConcat
  <1>10. Each(p \o v, SaysOf) = MeansTo(x, k + n)
    <2>1. Splits(p, v, SaysOf)
      BY WhatIsSaid, EachConcat
    <2> QED BY <1>1, <1>8, <2>1 DEF Splits, Say
  <1>11. PICK g \in Seq(Names) : g = Each(p, GivesOf)
    BY WhatIsSaid, EachTyped
  <1>12. PICK h \in Seq(Names) : h = Each(v, GivesOf)
    BY WhatIsSaid, EachTyped
  <1>13. PICK w \in Seq(Pieces) : w = Each(v, SaysOf)
    BY WhatIsSaid, EachTyped
  <1>14. PICK m \in Seq(Pieces) : m = MeansTo(x, k)
    BY <1>1, MeansTyped
  <1>15. PICK q \in Seq(Names) : q = Asked(w)
    BY AskedTyped
  <1>16. Each(p \o v, GivesOf) = g \o h
    <2>1. Splits(p, v, GivesOf)
      BY WhatIsSaid, EachConcat
    <2> QED BY <1>11, <1>12, <2>1 DEF Splits
  <1>17. (g \o h) \o new = Asked(MeansTo(x, k + n))
    <2>1. Associates(g, h, new) /\ Associates(g, names, q)
      BY AllAssociate
    <2>2. names \o q = h \o new
      BY <1>12, <1>13, <1>15 DEF Settle
    <2>3. g \o names = Asked(m)
      BY <1>1, <1>8, <1>11, <1>14
    <2>4. AskedApart(m, w)
      BY AskedConcat
    <2>5. MeansTo(x, k + n) = m \o w
      BY <1>13, <1>14 DEF Say
    <2>6. (g \o h) \o new = (g \o names) \o q
      BY <2>1, <2>2 DEF Associates
    <2> QED BY <1>15, <2>3, <2>4, <2>5, <2>6 DEF AskedApart
  <1>18. Each(Slice(z, a, Len(z)), SaysOf) = MeansTo(x, k + n)
    BY <1>9, <1>10
  <1>19. Each(Slice(z, a, Len(z)), GivesOf) \o new = Asked(MeansTo(x, k + n))
    BY <1>9, <1>16, <1>17
  <1>20. Emitting(x, k + n, SubSeq(rest, n + 1, Len(rest)), new, z, a)
    BY <1>2, <1>3, <1>6, <1>7, <1>18, <1>19 DEF Emitting
  <1> QED BY <1>4, <1>20

\* All symbols are dealt with and all arguments given.
LEMMA EmittingEnds ==
  ASSUME NEW x \in Seq(Words), x # << >>, NEW k, NEW ss \in Seq(Stmts), NEW a,
         Emitting(x, k, << >>, << >>, ss, a), NEW t, t.kind = "text", t.text = x
  PROVE  CodeOf(t, ss, a, Len(ss)) /\ a < Len(ss) /\ a \in 0..Len(ss) /\ Len(ss) \in 0..Len(ss)
PROOF
  <1>1. Len(x) \in Nat /\ Len(x) > 0 /\ k \in 0..Len(x) /\ << >> = Slice(x, k, Len(x)) /\ Len(ss) \in Nat
    BY LenProperties, EmptySeq DEF Emitting
  <1>2. k = Len(x)
    <2>1. Len(Slice(x, k, Len(x))) = Len(x) - k
      <3>1. Len(x) \in k..Len(x)
        BY <1>1
      <3> QED BY <1>1, <3>1, PartTyped
    <2>2. Len(<< >>) = 0
      OBVIOUS
    <2> QED BY <1>1, <2>1, <2>2
  <1>3. a \in 0..Len(ss) /\ a < Len(ss) /\ Len(ss) \in a..Len(ss)
    BY <1>1, <1>2 DEF Emitting
  <1>4. MeansTo(x, k) = MeaningOfText(x)
    BY <1>1, <1>2, MeansTyped
  <1>5. PICK p \in Seq(Stmts) : p = Slice(ss, a, Len(ss))
    BY <1>3, PartTyped
  <1>6. PICK g \in Seq(Names) : g = Each(p, GivesOf)
    BY WhatIsSaid, EachTyped
  <1>7. g \o << >> = g
    BY ConcatEmptySeq
  <1>8. /\ \A j \in a + 1..Len(ss) : ss[j].op \in TextOps
        /\ Each(p, SaysOf) = MeaningOfText(x) /\ g = Asked(MeaningOfText(x))
    BY <1>4, <1>5, <1>6, <1>7 DEF Emitting
  <1> QED BY <1>1, <1>3, <1>5, <1>6, <1>8 DEF CodeOf

\* Sequences of one and of two.
LEMMA OfOne ==
  ASSUME NEW S, NEW s \in Seq(S), Len(s) = 1
  PROVE  s[1] \in S /\ s = Append(<< >>, s[1])
PROOF
  <1>1. 1 \in 1..Len(s) /\ \A i \in 1..1 : i = 1
    OBVIOUS
  <1>2. PICK x \in S : x = s[1]
    BY <1>1
  <1>0. << >> \in Seq(S) /\ Len(<< >>) = 0
    OBVIOUS
  <1>30. Append(<< >>, x) \in Seq(S) /\ Len(Append(<< >>, x)) = 1 /\ Append(<< >>, x)[1] = x
    BY <1>0, AppendProperties
  <1>3. PICK o \in Seq(S) : o = Append(<< >>, x)
    BY <1>30
  <1>4. Len(o) = 1 /\ o[1] = x
    BY <1>3, <1>30
  <1>5. s = o
    BY <1>1, <1>2, <1>4, SeqEqual
  <1> QED BY <1>2, <1>3, <1>5

\* A sequence of two elements is those two.
LEMMA OfTwo ==
  ASSUME NEW S, NEW s \in Seq(S), Len(s) = 2
  PROVE  s[2] \in S /\ \E o \in Seq(S) : Len(o) = 1 /\ o[1] = s[1] /\ s = Append(o, s[2])
PROOF
  <1>1. 1 \in 1..Len(s)
    OBVIOUS
  <1>12. 2 \in 1..Len(s)
    OBVIOUS
  <1>11. \A i \in 1..Len(s) : i = 1 \/ i = 2
    OBVIOUS
  <1>2. PICK x \in S : x = s[1]
    BY <1>1
  <1>3. PICK y \in S : y = s[2]
    BY <1>12
  <1>4. PICK o \in Seq(S) : o = <<x>> /\ Len(o) = 1 /\ o[1] = x
    <2>1. <<x>> \in Seq(S) /\ Len(<<x>>) = 1 /\ <<x>>[1] = x
      OBVIOUS
    <2> QED BY <2>1
  <1>6. Len(o) = 1 /\ o[1] = x
    BY <1>4
  <1>70. Append(o, y) \in Seq(S) /\ Len(Append(o, y)) = 2 /\ Append(o, y)[2] = y /\ Append(o, y)[1] = x
    <2>1. /\ Append(o, y) \in Seq(S) /\ Len(Append(o, y)) = Len(o) + 1 /\ Append(o, y)[Len(o) + 1] = y
          /\ \A i \in 1..Len(o) : Append(o, y)[i] = o[i]
      BY AppendProperties
    <2>2. 1 \in 1..Len(o) /\ Len(o) + 1 = 2
      BY <1>6
    <2> QED BY <1>6, <2>1, <2>2
  <1>7. PICK z \in Seq(S) : z = Append(o, y)
    BY <1>70
  <1>8. Len(z) = 2 /\ z[1] = x /\ z[2] = y
    BY <1>7, <1>70
  <1>9. s = z
    BY <1>11, <1>2, <1>3, <1>8, SeqEqual
  <1> QED BY <1>2, <1>3, <1>6, <1>7, <1>9

\* Two elements appended are two sequences of one.
LEMMA AppendTwice ==
  ASSUME NEW S, NEW p \in S, NEW m \in Seq(S)
  PROVE  Append(Append(m, p), p) = m \o (<<p>> \o <<p>>)
PROOF
  <1>1. PICK o \in Seq(S) : o = <<p>>
    <2>1. <<p>> \in Seq(S)
      OBVIOUS
    <2> QED BY <2>1
  <1>2. PICK a \in Seq(S) : a = Append(m, p)
    <2>1. Append(m, p) \in Seq(S)
      BY AppendProperties
    <2> QED BY <2>1
  <1>3. a = m \o o
    BY <1>1, <1>2, AppendIsConcat
  <1>4. Append(a, p) = a \o o
    BY <1>1, AppendIsConcat
  <1>5. Associates(m, o, o)
    BY AllAssociate
  <1> QED BY <1>1, <1>2, <1>3, <1>4, <1>5 DEF Associates

\* What h makes of one element, and of two.
LEMMA EachOfOne ==
  ASSUME NEW S, NEW T, NEW s \in Seq(S), Len(s) = 1, NEW h \in [S -> Seq(T)]
  PROVE  Each(s, h) = h[s[1]]
PROOF
  <1>1. PICK e \in Seq(S) : e = << >>
    BY EmptySeq
  <1>2. PICK x \in S : x = s[1] /\ s = Append(e, x)
    BY <1>1, OfOne
  <1>4. Each(Append(e, x), h) = Each(e, h) \o h[x]
    BY EachAppend
  <1>5. PICK v \in Seq(T) : v = h[x]
    OBVIOUS
  <1>6. << >> \o v = v
    BY ConcatEmptySeq
  <1>7. Each(e, h) = << >>
    <2>1. Each(<< >>, h) = << >>
      BY EachNone
    <2> QED BY <1>1, <2>1
  <1> QED BY <1>2, <1>4, <1>5, <1>6, <1>7

\* Two elements stand for what the first and then the second stands for.
LEMMA EachOfTwo ==
  ASSUME NEW S, NEW T, NEW s \in Seq(S), Len(s) = 2, NEW h \in [S -> Seq(T)]
  PROVE  Each(s, h) = h[s[1]] \o h[s[2]]
PROOF
  <1>1. PICK y \in S : y = s[2]
    BY OfTwo
  <1>2. PICK o \in Seq(S) : Len(o) = 1 /\ o[1] = s[1] /\ s = Append(o, y)
    BY <1>1, OfTwo
  <1>3. Each(Append(o, y), h) = Each(o, h) \o h[y]
    BY EachAppend
  <1>4. Each(o, h) = h[o[1]]
    BY <1>2, EachOfOne
  <1> QED BY <1>1, <1>2, <1>3, <1>4

\* What one statement of a text says and gives.
LEMMA OneSays ==
  ASSUME NEW v \in Seq(Stmts), Len(v) = 1
  PROVE  Each(v, SaysOf) = SaysOf[v[1]] /\ Each(v, GivesOf) = GivesOf[v[1]]
PROOF
  <1>1. Each(v, SaysOf) = SaysOf[v[1]]
    BY WhatIsSaid, EachOfOne
  <1>2. Each(v, GivesOf) = GivesOf[v[1]]
    BY WhatIsSaid, EachOfOne
  <1> QED BY <1>1, <1>2

\* What two statements say, and the arguments they give.
LEMMA TwoSay ==
  ASSUME NEW v \in Seq(Stmts), Len(v) = 2
  PROVE  /\ Each(v, SaysOf) = SaysOf[v[1]] \o SaysOf[v[2]]
         /\ Each(v, GivesOf) = GivesOf[v[1]] \o GivesOf[v[2]]
PROOF
  <1>1. Each(v, SaysOf) = SaysOf[v[1]] \o SaysOf[v[2]]
    <2>1. SaysOf \in [Stmts -> Seq(Pieces)]
      BY WhatIsSaid
    <2> QED BY <2>1, EachOfTwo
  <1>2. Each(v, GivesOf) = GivesOf[v[1]] \o GivesOf[v[2]]
    <2>1. GivesOf \in [Stmts -> Seq(Names)]
      BY WhatIsSaid
    <2> QED BY <2>1, EachOfTwo
  <1> QED BY <1>1, <1>2

\* The next n symbols of a rest mean what the statements v say.
MeansNext(rest, n, v) ==
  \A x \in Seq(Words), k \in Nat :
    k + Len(rest) = Len(x) /\ (\A i \in 1..Len(rest) : rest[i] = x[k + i]) /\ Aligned(x, k) =>
      Say(v, x, k, n) /\ Aligned(x, k + n)

\* A word.
LEMMA WordNext ==
  ASSUME NEW rest \in Seq(Words), rest # << >>,
         ~(Len(rest) > 1 /\ rest[1] = ":" /\ rest[2] \in Identifiers \cup {":"})
  PROVE  LET v == <<Stmt("write", rest[1])>>
         IN  v \in Seq(Stmts) /\ OfText(v) /\ MeansNext(rest, 1, v) /\ Each(v, SaysOf) = <<Word(rest[1])>>
             /\ Each(v, GivesOf) = << >>
PROOF
  <1>1. Len(rest) \in Nat /\ Len(rest) > 0
    BY LenProperties, EmptySeq
  <1>2. PICK w \in Names : w = rest[1] /\ w \in Words
    BY <1>1, NamesAreNames
  <1>3. PICK st \in Stmts : st = Stmt("write", w) /\ st.op = "write"
    BY StatementsSay
  <1>4. <<st>> \in Seq(Stmts) /\ Len(<<st>>) = 1 /\ <<st>>[1] = st /\ <<st>> # << >>
    OBVIOUS
  <1>5. OfText(<<st>>)
    <2>1. \A j \in 1..1 : j = 1
      OBVIOUS
    <2> QED BY <1>3, <1>4, <2>1 DEF OfText, TextOps
  <1>6. Each(<<st>>, SaysOf) = <<Word(w)>> /\ Each(<<st>>, GivesOf) = << >>
    <2>1. PICK v \in Seq(Stmts) : v = <<st>> /\ Len(v) = 1 /\ v[1] = st
      BY <1>4
    <2>2. Each(v, SaysOf) = SaysOf[v[1]]
      BY <2>1, OneSays
    <2>3. Each(v, GivesOf) = GivesOf[v[1]]
      BY <2>1, OneSays
    <2>4. SaysOf[st] = <<Word(w)>> /\ GivesOf[st] = << >>
      BY <1>3, StatementsSay
    <2> QED BY <2>1, <2>2, <2>3, <2>4
  <1>7. ASSUME NEW x \in Seq(Words), NEW k \in Nat, k + Len(rest) = Len(x),
               \A i \in 1..Len(rest) : rest[i] = x[k + i], Aligned(x, k)
        PROVE  MeansTo(x, k + 1) = MeansTo(x, k) \o <<Word(w)>> /\ Aligned(x, k + 1)
    <2>1. k + 1 <= Len(x) /\ 1 \in 1..Len(rest) /\ k \in 0..Len(x)
      BY <1>1, <1>7
    <2>2. x[k + 1] = w
      BY <1>2, <1>7, <2>1
    <2>3. x[k + 1] = ":" /\ k + 2 <= Len(x) => x[k + 2] \notin Identifiers \cup {":"}
      <3> SUFFICES ASSUME x[k + 1] = ":", k + 2 <= Len(x) PROVE x[k + 2] \notin Identifiers \cup {":"}
        OBVIOUS
      <3>1. Len(rest) > 1 /\ 2 \in 1..Len(rest)
        BY <1>1, <1>7
      <3>2. rest[2] = x[k + 2]
        BY <1>7, <3>1
      <3> QED BY <1>2, <2>2, <3>1, <3>2
    <2>4. MeansTo(x, k + 1) = Append(MeansTo(x, k), Word(w)) /\ Aligned(x, k + 1)
      BY <1>7, <2>1, <2>2, <2>3, WordMeans
    <2>5. PICK m \in Seq(Pieces) : m = MeansTo(x, k)
      BY <2>1, MeansTyped
    <2>6. Append(m, Word(w)) = m \o <<Word(w)>>
      BY PiecesArePieces, AppendIsConcat
    <2> QED BY <2>4, <2>5, <2>6
  <1>8. MeansNext(rest, 1, <<st>>)
    BY <1>6, <1>7 DEF MeansNext, Say
  <1> QED BY <1>2, <1>3, <1>4, <1>5, <1>6, <1>8

\* A type cast.
LEMMA CastNext ==
  ASSUME NEW rest \in Seq(Words), Len(rest) > 1, rest[1] = ":", rest[2] = ":"
  PROVE  LET v == <<Stmt("write", ":"), Stmt("write", ":")>>
         IN  v \in Seq(Stmts) /\ OfText(v) /\ MeansNext(rest, 2, v) /\ Each(v, SaysOf) = <<Word(":")>> \o <<Word(":")>>
             /\ Each(v, GivesOf) = << >>
PROOF
  <1>1. Len(rest) \in Nat /\ 1 \in 1..Len(rest) /\ 2 \in 1..Len(rest)
    BY LenProperties
  <1>2. PICK w \in Names : w = ":"
    BY DEF Names
  <1>3. PICK st \in Stmts : st = Stmt("write", w) /\ st.op = "write"
    BY StatementsSay
  <1>4. /\ <<st, st>> \in Seq(Stmts) /\ Len(<<st, st>>) = 2 /\ <<st, st>> # << >>
        /\ <<st, st>>[1] = st /\ <<st, st>>[2] = st
    OBVIOUS
  <1>5. OfText(<<st, st>>)
    <2>1. \A j \in 1..Len(<<st, st>>) : j = 1 \/ j = 2
      BY <1>4
    <2> QED BY <1>3, <1>4, <2>1 DEF OfText, TextOps
  <1>6. PICK p \in Pieces : p = Word(w)
    BY PiecesArePieces
  <1>7. << >> \o << >> = << >>
    OBVIOUS
  <1>8. Each(<<st, st>>, SaysOf) = <<p>> \o <<p>> /\ Each(<<st, st>>, GivesOf) = << >>
    <2>1. PICK v \in Seq(Stmts) : v = <<st, st>> /\ Len(v) = 2 /\ v[1] = st /\ v[2] = st
      BY <1>4
    <2>2. Each(v, SaysOf) = SaysOf[v[1]] \o SaysOf[v[2]]
      BY <2>1, TwoSay
    <2>3. Each(v, GivesOf) = GivesOf[v[1]] \o GivesOf[v[2]]
      BY <2>1, TwoSay
    <2>4. SaysOf[st] = <<p>> /\ GivesOf[st] = << >>
      BY <1>3, <1>6, StatementsSay
    <2> QED BY <1>7, <2>1, <2>2, <2>3, <2>4
  <1>9. ASSUME NEW x \in Seq(Words), NEW k \in Nat, k + Len(rest) = Len(x),
               \A i \in 1..Len(rest) : rest[i] = x[k + i], Aligned(x, k)
        PROVE  MeansTo(x, k + 2) = MeansTo(x, k) \o (<<p>> \o <<p>>) /\ Aligned(x, k + 2)
    <2>1. k + 2 <= Len(x) /\ k \in 0..Len(x)
      BY <1>1, <1>9
    <2>2. x[k + 1] = ":" /\ x[k + 2] = ":"
      BY <1>1, <1>9
    <2>3. MeansTo(x, k + 2) = Append(Append(MeansTo(x, k), p), p) /\ Aligned(x, k + 2)
      BY <1>2, <1>6, <1>9, <2>1, <2>2, CastMeans
    <2>4. PICK m \in Seq(Pieces) : m = MeansTo(x, k)
      BY <2>1, MeansTyped
    <2>5. Append(Append(m, p), p) = m \o (<<p>> \o <<p>>)
      BY AppendTwice
    <2> QED BY <2>3, <2>4, <2>5
  <1>10. MeansNext(rest, 2, <<st, st>>)
    BY <1>8, <1>9 DEF MeansNext, Say
  <1> QED BY <1>2, <1>3, <1>4, <1>5, <1>6, <1>8, <1>10

\* A parameter, bound by one statement.
LEMMA ParamNext ==
  ASSUME NEW rest \in Seq(Words), Len(rest) > 1, rest[1] = ":", rest[2] \in Identifiers,
         NEW op \in {"mark", "bind"}
  PROVE  LET v == <<Stmt(op, rest[2])>>
         IN  v \in Seq(Stmts) /\ OfText(v) /\ MeansNext(rest, 2, v) /\ Each(v, SaysOf) = <<Bound(rest[2])>>
             /\ Each(v, GivesOf) = IF op = "bind" THEN <<rest[2]>> ELSE << >>
PROOF
  <1>1. Len(rest) \in Nat /\ 1 \in 1..Len(rest) /\ 2 \in 1..Len(rest)
    BY LenProperties
  <1>2. PICK w \in Names : w = rest[2]
    BY NamesAreNames
  <1>3. PICK st \in Stmts : st = Stmt(op, w) /\ st.op = op
    BY StatementsSay
  <1>4. <<st>> \in Seq(Stmts) /\ Len(<<st>>) = 1 /\ <<st>>[1] = st /\ <<st>> # << >>
    OBVIOUS
  <1>5. OfText(<<st>>)
    <2>1. \A j \in 1..1 : j = 1
      OBVIOUS
    <2> QED BY <1>3, <1>4, <2>1 DEF OfText, TextOps
  <1>6. SaysOf[st] = <<Bound(w)>> /\ GivesOf[st] = IF op = "bind" THEN <<w>> ELSE << >>
    <2>1. CASE op = "mark"
      BY <1>3, <2>1, StatementsSay
    <2>2. CASE op = "bind"
      BY <1>3, <2>2, StatementsSay
    <2> QED BY <2>1, <2>2
  <1>7. /\ Each(<<st>>, SaysOf) = <<Bound(w)>>
        /\ Each(<<st>>, GivesOf) = IF op = "bind" THEN <<w>> ELSE << >>
    <2>1. PICK v \in Seq(Stmts) : v = <<st>> /\ Len(v) = 1 /\ v[1] = st
      BY <1>4
    <2>2. Each(v, SaysOf) = SaysOf[v[1]]
      BY <2>1, OneSays
    <2>3. Each(v, GivesOf) = GivesOf[v[1]]
      BY <2>1, OneSays
    <2> QED BY <1>6, <2>1, <2>2, <2>3
  <1>8. ASSUME NEW x \in Seq(Words), NEW k \in Nat, k + Len(rest) = Len(x),
               \A i \in 1..Len(rest) : rest[i] = x[k + i], Aligned(x, k)
        PROVE  MeansTo(x, k + 2) = MeansTo(x, k) \o <<Bound(w)>> /\ Aligned(x, k + 2)
    <2>1. k + 2 <= Len(x) /\ k \in 0..Len(x)
      BY <1>1, <1>8
    <2>2. x[k + 1] = ":" /\ x[k + 2] = w /\ w \in Identifiers
      BY <1>1, <1>2, <1>8
    <2>3. MeansTo(x, k + 2) = Append(MeansTo(x, k), Bound(w)) /\ Aligned(x, k + 2)
      BY <1>8, <2>1, <2>2, ParamMeans
    <2>4. PICK m \in Seq(Pieces) : m = MeansTo(x, k)
      BY <2>1, MeansTyped
    <2>5. Append(m, Bound(w)) = m \o <<Bound(w)>>
      BY PiecesArePieces, AppendIsConcat
    <2> QED BY <2>3, <2>4, <2>5
  <1>9. MeansNext(rest, 2, <<st>>)
    BY <1>7, <1>8 DEF MeansNext, Say
  <1> QED BY <1>2, <1>3, <1>4, <1>5, <1>7, <1>9

\* Statements that say nothing, and statements that give one argument each.
LEMMA SayNothing ==
  ASSUME NEW v \in Seq(Stmts), \A i \in 1..Len(v) : SaysOf[v[i]] = << >>
  PROVE  Each(v, SaysOf) = << >>
PROOF
  BY WhatIsSaid, EachNothing

\* One statement per name gives the names.
LEMMA GiveOneEach ==
  ASSUME NEW v \in Seq(Stmts), NEW w \in Seq(Names), Len(w) = Len(v),
         \A i \in 1..Len(v) : GivesOf[v[i]] = <<w[i]>>
  PROVE  Each(v, GivesOf) = w
PROOF
  <1>1. GivesOf \in [Stmts -> Seq(Names)]
    BY WhatIsSaid
  <1>2. Singly(v, GivesOf, w)
    BY DEF Singly
  <1> QED BY <1>1, <1>2, EachSingle

\* The arguments after a text.
LEMMA ArgsNext ==
  ASSUME NEW names \in Seq(Names), names # << >>
  PROVE  LET v == [i \in DOMAIN names |-> Stmt("arg", names[i])]
         IN  v \in Seq(Stmts) /\ OfText(v) /\ MeansNext(<< >>, 0, v) /\ Each(v, SaysOf) = << >>
             /\ Each(v, GivesOf) = names
PROOF
  <1>1. Len(names) \in Nat /\ Len(names) > 0 /\ DOMAIN names = 1..Len(names)
    BY LenProperties, EmptySeq
  <1>2. \A i \in 1..Len(names) : names[i] \in Names
    BY <1>1
  <1>3. \A i \in 1..Len(names) : Stmt("arg", names[i]) \in Stmts
    BY <1>2, StatementsSay
  <1>4. PICK v \in Seq(Stmts) : v = [i \in 1..Len(names) |-> Stmt("arg", names[i])]
    BY <1>1, <1>3, SeqOfFunction
  <1>5. Len(v) = Len(names) /\ \A i \in 1..Len(names) : v[i] = Stmt("arg", names[i])
    <2>1. Len(v) = Len(names)
      BY <1>1, <1>4
    <2> QED BY <1>4, <2>1
  <1>6. \A i \in 1..Len(v) : v[i].op \in TextOps
    BY <1>2, <1>5, StatementsSay DEF TextOps
  <1>7. Each(v, SaysOf) = << >>
    <2>1. \A i \in 1..Len(v) : SaysOf[v[i]] = << >>
      BY <1>2, <1>5, StatementsSay
    <2> QED BY <2>1, SayNothing
  <1>8. Each(v, GivesOf) = names
    <2>1. \A i \in 1..Len(v) : GivesOf[v[i]] = <<names[i]>>
      BY <1>2, <1>5, StatementsSay
    <2>2. Len(names) = Len(v)
      BY <1>5
    <2> QED BY <2>1, <2>2, GiveOneEach
  <1>9. OfText(v)
    <2>1. v # << >>
      BY <1>1, <1>5
    <2> QED BY <1>6, <2>1 DEF OfText
  <1>10. MeansNext(<< >>, 0, v)
    <2>1. ASSUME NEW x \in Seq(Words), NEW k \in Nat, k + Len(<< >>) = Len(x), Aligned(x, k)
          PROVE  MeansTo(x, k + 0) = MeansTo(x, k) \o << >> /\ Aligned(x, k + 0)
      <3>1. k \in 0..Len(x) /\ k + 0 = k
        <4>1. Len(<< >>) = 0
          OBVIOUS
        <4> QED BY <2>1, <4>1
      <3>2. PICK m \in Seq(Pieces) : m = MeansTo(x, k)
        BY <3>1, MeansTyped
      <3>3. m \o << >> = m
        BY ConcatEmptySeq
      <3> QED BY <2>1, <3>1, <3>2, <3>3
    <2> QED BY <1>7, <2>1 DEF MeansNext, Say
  <1> QED BY <1>1, <1>4, <1>7, <1>8, <1>9, <1>10

\* The template s is translated to ss, but for the rest of its last text and
\* the arguments of that text.
Translated(s, rest, names, ss) ==
  IF rest = << >> /\ names = << >>
  THEN \E e : Codes(e, Len(s), s, ss) /\ e[Len(s)] = Len(ss)
  ELSE /\ s # << >> /\ s[Len(s)].kind = "text" /\ s[Len(s)].text \in Texts
       /\ \E e, k : /\ Codes(e, Len(s) - 1, s, ss)
                    /\ Emitting(s[Len(s)].text, k, rest, names, ss, e[Len(s) - 1])

\* A token put at the end.
LEMMA OneTokenMore ==
  ASSUME NEW s \in Seq(Tokens), NEW t \in Tokens
  PROVE  /\ Append(s, t) \in Seq(Tokens) /\ Len(Append(s, t)) = Len(s) + 1 /\ Len(s) \in Nat
         /\ Append(s, t)[Len(s) + 1] = t /\ \A i \in 1..Len(s) : Append(s, t)[i] = s[i]
         /\ Append(s, t) # << >> /\ Len(s) + 1 - 1 = Len(s)
PROOF
  <1>1. /\ Append(s, t) \in Seq(Tokens) /\ Len(Append(s, t)) = Len(s) + 1 /\ Len(s) \in Nat
        /\ Append(s, t)[Len(s) + 1] = t /\ \A i \in 1..Len(s) : Append(s, t)[i] = s[i]
    BY AppendProperties, LenProperties
  <1>2. Len(<< >>) = 0
    OBVIOUS
  <1> QED BY <1>1, <1>2

\* A statement put at the end.
LEMMA OneStatementMore ==
  ASSUME NEW ss \in Seq(Stmts), NEW st \in Stmts
  PROVE  /\ Append(ss, st) \in Seq(Stmts) /\ Len(Append(ss, st)) = Len(ss) + 1 /\ Len(ss) \in Nat
         /\ Append(ss, st)[Len(ss) + 1] = st /\ Longer(ss, Append(ss, st))
PROOF
  <1>1. /\ Append(ss, st) \in Seq(Stmts) /\ Len(Append(ss, st)) = Len(ss) + 1 /\ Len(ss) \in Nat
        /\ Append(ss, st)[Len(ss) + 1] = st /\ \A i \in 1..Len(ss) : Append(ss, st)[i] = ss[i]
    BY AppendProperties, LenProperties
  <1> QED BY <1>1 DEF Longer

\* A text is begun.
LEMMA TextBegins ==
  ASSUME NEW s \in Seq(Tokens), NEW ss \in Seq(Stmts), Translated(s, << >>, << >>, ss), NEW x \in Texts
  PROVE  Translated(Append(s, TextTok(x)), x, << >>, ss)
PROOF
  <1>1. PICK e : Codes(e, Len(s), s, ss) /\ e[Len(s)] = Len(ss)
    BY DEF Translated
  <1>2. PICK t \in Tokens : t = TextTok(x) /\ t.kind = "text" /\ t.text = x
    <2>1. TextTok(x).kind = "text" /\ TextTok(x).text = x
      BY DEF TextTok, Tok
    <2> QED BY <2>1, TokensAreTokens
  <1>3. PICK z \in Seq(Tokens) : z = Append(s, t)
    BY OneTokenMore
  <1>4. /\ Len(z) = Len(s) + 1 /\ Len(s) \in Nat /\ z[Len(z)] = t /\ z # << >> /\ Len(z) - 1 = Len(s)
        /\ \A i \in 1..Len(s) : z[i] = s[i]
    BY <1>3, OneTokenMore
  <1>5. Longer(ss, ss)
    BY LenProperties DEF Longer
  <1>6. Codes(e, Len(s), z, ss)
    BY <1>1, <1>4, <1>5, CodesStay
  <1>7. x \in Seq(Words) /\ x # << >>
    BY WordsOfTexts, TextsAssumption
  <1>8. Emitting(x, 0, x, << >>, ss, Len(ss))
    BY <1>7, EmittingBegins
  <1> QED BY <1>1, <1>2, <1>3, <1>4, <1>6, <1>7, <1>8 DEF Translated

\* The statement of a token that is no text is written.
LEMMA LineFollows ==
  ASSUME NEW s \in Seq(Tokens), NEW ss \in Seq(Stmts), Translated(s, << >>, << >>, ss),
         NEW t \in Tokens, t.kind # "text", NEW st \in Stmts, st = LineOf(t)
  PROVE  Translated(Append(s, t), << >>, << >>, Append(ss, st))
PROOF
  <1>1. PICK e : Codes(e, Len(s), s, ss) /\ e[Len(s)] = Len(ss)
    BY DEF Translated
  <1>2. PICK z \in Seq(Tokens) : z = Append(s, t)
    BY OneTokenMore
  <1>3. /\ Len(z) = Len(s) + 1 /\ Len(s) \in Nat /\ z[Len(s) + 1] = t
        /\ \A i \in 1..Len(s) : z[i] = s[i]
    BY <1>2, OneTokenMore
  <1>4. PICK zz \in Seq(Stmts) : zz = Append(ss, st)
    BY OneStatementMore
  <1>5. Len(zz) = Len(ss) + 1 /\ Len(ss) \in Nat /\ zz[Len(ss) + 1] = st /\ Longer(ss, zz)
    BY <1>4, OneStatementMore
  <1>6. Codes(e, Len(s), z, zz)
    BY <1>1, <1>3, <1>5, CodesStay
  <1>7. CodeOf(z[Len(s) + 1], zz, e[Len(s)], Len(zz))
    BY <1>1, <1>3, <1>5 DEF CodeOf
  <1>8. Len(zz) \in Nat /\ Len(zz) \in 0..Len(zz) /\ e[Len(s)] < Len(zz)
    BY <1>1, <1>5
  <1>9. \E f : Codes(f, Len(s) + 1, z, zz) /\ f[Len(s) + 1] = Len(zz)
    <2>1. PICK m \in Nat : m = Len(s)
      BY <1>3
    <2>2. PICK b \in 0..Len(zz) : b = Len(zz)
      BY <1>8
    <2>3. Codes(e, m, z, zz) /\ e[m] < b /\ CodeOf(z[m + 1], zz, e[m], b)
      BY <1>6, <1>7, <1>8, <2>1, <2>2
    <2>4. \E f : Codes(f, m + 1, z, zz) /\ f[m + 1] = b
      BY <1>8, <2>3, CodesNext
    <2> QED BY <2>1, <2>2, <2>4
  <1> QED BY <1>2, <1>3, <1>4, <1>9 DEF Translated

\* Statements of the text, for its next n symbols.
LEMMA TextGoesOn ==
  ASSUME NEW s \in Seq(Tokens), NEW rest \in Seq(Words), NEW names \in Seq(Names),
         NEW ss \in Seq(Stmts), Translated(s, rest, names, ss), ~(rest = << >> /\ names = << >>),
         NEW n \in Nat, n <= Len(rest), NEW v \in Seq(Stmts), OfText(v), MeansNext(rest, n, v),
         NEW new \in Seq(Names), Settle(v, names, new)
  PROVE  Translated(s, SubSeq(rest, n + 1, Len(rest)), new, ss \o v)
PROOF
  <1>1. PICK x \in Texts : x = s[Len(s)].text
    BY DEF Translated
  <1>2. s # << >> /\ s[Len(s)].kind = "text" /\ Len(s) \in Nat /\ Len(s) > 0
    BY LenProperties, EmptySeq DEF Translated
  <1>3. PICK e, k : Codes(e, Len(s) - 1, s, ss) /\ Emitting(x, k, rest, names, ss, e[Len(s) - 1])
    BY <1>1 DEF Translated
  <1>4. x \in Seq(Words) /\ x # << >> /\ Len(x) \in Nat
    BY WordsOfTexts, TextsAssumption, LenProperties
  <1>5. k \in 0..Len(x) /\ rest = Slice(x, k, Len(x)) /\ Aligned(x, k)
    BY <1>3 DEF Emitting
  <1>6. k + Len(rest) = Len(x) /\ \A i \in 1..Len(rest) : rest[i] = x[k + i]
    <2>1. Len(rest) = Len(x) - k /\ \A i \in 1..Len(rest) : rest[i] = x[k + i]
      <3>1. 0 \in Nat /\ k + 0 <= Len(x)
        BY <1>4, <1>5
      <3> QED BY <1>4, <1>5, <3>1, RestOfText
    <2> QED BY <1>4, <1>5, <2>1
  <1>7. k \in Nat /\ k + n <= Len(x) /\ Len(rest) \in Nat
    BY <1>4, <1>5, <1>6, LenProperties
  <1>8. Say(v, x, k, n) /\ Aligned(x, k + n)
    BY <1>4, <1>5, <1>6, <1>7 DEF MeansNext
  <1>10. PICK zz \in Seq(Stmts) : zz = ss \o v
    BY ConcatProperties
  <1>11. Longer(ss, zz) /\ Len(zz) \in Nat
    BY <1>10, ConcatProperties, LenProperties DEF Longer
  <1>12. PICK left : left = SubSeq(rest, n + 1, Len(rest))
    OBVIOUS
  <1>130. PICK a : a = e[Len(s) - 1]
    OBVIOUS
  <1>131. Emitting(x, k, rest, names, ss, a)
    BY <1>3, <1>130
  <1>132. Emitting(x, k + n, SubSeq(rest, n + 1, Len(rest)), new, ss \o v, a)
    BY <1>131, <1>4, <1>7, <1>8, EmittingNext
  <1>13. Emitting(x, k + n, left, new, zz, e[Len(s) - 1])
    BY <1>10, <1>12, <1>130, <1>132
  <1>140. Len(s) - 1 \in Nat /\ (Len(s) - 1) + 1 = Len(s)
    BY <1>2
  <1>14. PICK m \in Nat : m = Len(s) - 1 /\ m + 1 = Len(s)
    BY <1>140
  <1>15. Codes(e, m, s, zz)
    BY <1>3, <1>11, <1>14, CodesStay
  <1>16. CASE left = << >> /\ new = << >>
    <2>1. /\ CodeOf(s[m + 1], zz, e[m], Len(zz)) /\ e[m] < Len(zz) /\ Len(zz) \in 0..Len(zz)
      BY <1>1, <1>2, <1>4, <1>13, <1>14, <1>16, EmittingEnds
    <2>2. \E f : Codes(f, m + 1, s, zz) /\ f[m + 1] = Len(zz)
      BY <1>11, <1>15, <2>1, CodesNext
    <2> QED BY <1>10, <1>12, <1>14, <1>16, <2>2 DEF Translated
  <1>17. CASE ~(left = << >> /\ new = << >>)
    BY <1>1, <1>2, <1>10, <1>12, <1>13, <1>14, <1>15, <1>17 DEF Translated
  <1> QED BY <1>16, <1>17

\* The query asks for the id by a clause of the compiler's own.
AsksForId == ReadsIdBack /\ ~Mentions(seen, Spelled \cup {Clause})

\* The whole template s is translated to ss.
Compiled(s, ss, asks) ==
  \E e : /\ Codes(e, Len(s), s, ss)
         /\ IF asks THEN Len(ss) = e[Len(s)] + 1 /\ ss[Len(ss)] = Stmt("write", Clause)
                    ELSE Len(ss) = e[Len(s)]

\* What the compiler has written stands for what it has read.
CInv ==
  /\ IF dialect = "postgres" THEN paramNames = << >> ELSE ~needsStrconv
  /\ outcome # "compiling" => text = << >> /\ paramNames = << >>
  /\ outcome = "compiling" => Translated(seen, text, paramNames, body)
  /\ outcome = "compiled" => Compiled(seen, body, AsksForId)

\* What the invariant says of the types.
LEMMA CompilerTypes ==
  ASSUME BInv
  PROVE  /\ seen \in Seq(Tokens) /\ text \in Seq(Words) /\ body \in Seq(Stmts)
         /\ paramNames \in Seq(Identifiers) /\ paramNames \in Seq(Names)
         /\ outcome \in {"compiling", "compiled", "rejected", "unfinished"}
PROOF
  <1>1. /\ seen \in Seq(Tokens) /\ text \in Seq(Words) /\ body \in Seq(Stmts)
         /\ paramNames \in Seq(Identifiers) /\ outcome \in {"compiling", "compiled", "rejected", "unfinished"}
    BY DEF BInv, BodyTypeOK, CompilerTypeOK
  <1>2. paramNames \in Seq(Names)
    <2>1. \A i \in 1..Len(paramNames) : paramNames[i] \in Names
      BY <1>1, NamesAreNames
    <2> QED BY <1>1, <2>1
  <1> QED BY <1>1, <1>2

\* A text is read: none of it is dealt with yet.
LEMMA TextCompiles ==
  ASSUME BInv, CInv, NEW x \in Texts, Text(x)
  PROVE  CInv'
PROOF
  <1>1. /\ outcome = "compiling" /\ text = << >> /\ paramNames = << >>
        /\ seen' = Append(seen, TextTok(x)) /\ text' = x /\ body' = body
        /\ UNCHANGED <<dialect, paramNames, needsStrconv, outcome>>
    BY DEF Text, Read, BetweenTokens
  <1>2. Translated(seen, << >>, << >>, body)
    BY <1>1 DEF CInv
  <1>3. Translated(Append(seen, TextTok(x)), x, << >>, body)
    BY <1>2, CompilerTypes, TextBegins
  <1>4. Translated(seen', text', paramNames', body')
    BY <1>1, <1>3
  <1> QED BY <1>1, <1>4 DEF CInv

\* A token of another kind, and its statement.
LEMMA LineCompiles ==
  ASSUME BInv, CInv, NEW t \in Tokens, t.kind # "text", Read(t), NEW st \in Stmts, st = LineOf(t),
         body' = Append(body, st), UNCHANGED <<text, needsStrconv, outcome>>
  PROVE  CInv'
PROOF
  <1>1. /\ outcome = "compiling" /\ text = << >> /\ paramNames = << >> /\ seen' = Append(seen, t)
        /\ UNCHANGED <<dialect, paramNames>>
    BY DEF Read, BetweenTokens
  <1>2. Translated(seen, << >>, << >>, body)
    BY <1>1 DEF CInv
  <1>3. Translated(Append(seen, t), << >>, << >>, Append(body, st))
    BY <1>2, CompilerTypes, LineFollows
  <1>4. Translated(seen', text', paramNames', body')
    BY <1>1, <1>3
  <1> QED BY <1>1, <1>4 DEF CInv

\* The statements of these tokens.
LEMMA LinesOfTokens ==
  /\ \A n \in StringParams \cup PtrParams :
       /\ SubstTok(n) \in Tokens /\ SubstTok(n).kind = "subst" /\ LineOf(SubstTok(n)) \in Stmts
       /\ LineOf(SubstTok(n)) = Stmt(IF n \in PtrParams THEN "substptr" ELSE "subst", n)
  /\ \A e \in Exprs :
       /\ IfTok(e) \in Tokens /\ IfTok(e).kind = "if" /\ LineOf(IfTok(e)) \in Stmts
       /\ LineOf(IfTok(e)) = Stmt("if", e)
       /\ ElseIfTok(e) \in Tokens /\ ElseIfTok(e).kind = "elseif" /\ LineOf(ElseIfTok(e)) \in Stmts
       /\ LineOf(ElseIfTok(e)) = Stmt("elseif", e)
  /\ ElseTok \in Tokens /\ ElseTok.kind = "else" /\ LineOf(ElseTok) \in Stmts
  /\ LineOf(ElseTok) = Stmt("else", "")
  /\ EndTok \in Tokens /\ EndTok.kind = "end" /\ LineOf(EndTok) \in Stmts
  /\ LineOf(EndTok) = Stmt("end", "")
PROOF
  <1>0. "" \in Names /\ Exprs \subseteq Names /\ Identifiers \subseteq Names
        /\ {"if", "elseif", "else", "end", "subst", "substptr"} \subseteq Ops
    BY DEF Names, Ops
  <1>1. ASSUME NEW op \in {"if", "elseif", "else", "end", "subst", "substptr"}, NEW of \in Names
        PROVE  Stmt(op, of) \in Stmts
    BY <1>0 DEF Stmt, Stmts
  <1>2. ASSUME NEW n \in StringParams \cup PtrParams
        PROVE  /\ SubstTok(n) \in Tokens /\ SubstTok(n).kind = "subst" /\ LineOf(SubstTok(n)) \in Stmts
               /\ LineOf(SubstTok(n)) = Stmt(IF n \in PtrParams THEN "substptr" ELSE "subst", n)
    <2>1. n \in Identifiers
      BY DEF Identifiers, Params
    <2>2. SubstTok(n).kind = "subst" /\ SubstTok(n).arg = n
      BY DEF SubstTok, Tok
    <2>3. LineOf(SubstTok(n)) = Stmt(IF n \in PtrParams THEN "substptr" ELSE "subst", n)
      BY <2>2 DEF LineOf
    <2>4. Stmt(IF n \in PtrParams THEN "substptr" ELSE "subst", n) \in Stmts
      BY <1>0, <1>1, <2>1
    <2> QED BY <2>1, <2>2, <2>3, <2>4, TokensAreTokens
  <1>3. ASSUME NEW e \in Exprs
        PROVE  /\ IfTok(e) \in Tokens /\ IfTok(e).kind = "if" /\ LineOf(IfTok(e)) \in Stmts
               /\ LineOf(IfTok(e)) = Stmt("if", e)
               /\ ElseIfTok(e) \in Tokens /\ ElseIfTok(e).kind = "elseif" /\ LineOf(ElseIfTok(e)) \in Stmts
               /\ LineOf(ElseIfTok(e)) = Stmt("elseif", e)
    <2>1. IfTok(e).kind = "if" /\ IfTok(e).arg = e /\ ElseIfTok(e).kind = "elseif" /\ ElseIfTok(e).arg = e
      BY DEF IfTok, ElseIfTok, Tok
    <2>2. LineOf(IfTok(e)) = Stmt("if", e) /\ LineOf(ElseIfTok(e)) = Stmt("elseif", e)
      BY <2>1 DEF LineOf
    <2>3. Stmt("if", e) \in Stmts /\ Stmt("elseif", e) \in Stmts
      BY <1>0, <1>1
    <2> QED BY <2>1, <2>2, <2>3, TokensAreTokens
  <1>4. /\ ElseTok \in Tokens /\ ElseTok.kind = "else" /\ ElseTok.arg = ""
        /\ EndTok \in Tokens /\ EndTok.kind = "end" /\ EndTok.arg = ""
    <2>1. ElseTok.kind = "else" /\ ElseTok.arg = "" /\ EndTok.kind = "end" /\ EndTok.arg = ""
      BY DEF ElseTok, EndTok, Tok
    <2> QED BY <2>1, TokensAreTokens
  <1>5. LineOf(ElseTok) = Stmt("else", "") /\ LineOf(EndTok) = Stmt("end", "")
    BY <1>4 DEF LineOf
  <1>6. Stmt("else", "") \in Stmts /\ Stmt("end", "") \in Stmts
    BY <1>0, <1>1
  <1> QED BY <1>2, <1>3, <1>4, <1>5, <1>6

\* Substitutions and the lines of if statements are written as they are read.
LEMMA LinesCompile ==
  ASSUME BInv, CInv,
         \/ \E n \in Identifiers : Subst(n)
         \/ \E e \in Exprs : If(e) \/ ElseIf(e)
         \/ Else \/ End
  PROVE  CInv'
PROOF
  <1>1. ASSUME NEW n \in Identifiers, Subst(n) PROVE CInv'
    <2>1. n \in StringParams \cup PtrParams /\ Read(SubstTok(n))
          /\ body' = Append(body, Stmt(IF n \in PtrParams THEN "substptr" ELSE "subst", n))
          /\ UNCHANGED <<text, needsStrconv, outcome>>
      BY <1>1 DEF Subst
    <2>2. PICK t \in Tokens : t = SubstTok(n) /\ t.kind # "text"
      BY <2>1, LinesOfTokens
    <2>3. PICK st \in Stmts : st = LineOf(t) /\ body' = Append(body, st)
      BY <2>1, <2>2, LinesOfTokens
    <2> QED BY <2>1, <2>2, <2>3, LineCompiles
  <1>2. ASSUME NEW e \in Exprs, If(e) PROVE CInv'
    <2>1. Read(IfTok(e)) /\ body' = Append(body, Stmt("if", e)) /\ UNCHANGED <<text, needsStrconv, outcome>>
      BY <1>2 DEF If
    <2>2. PICK t \in Tokens : t = IfTok(e) /\ t.kind # "text"
      BY LinesOfTokens
    <2>3. PICK st \in Stmts : st = LineOf(t) /\ body' = Append(body, st)
      BY <2>1, <2>2, LinesOfTokens
    <2> QED BY <2>1, <2>2, <2>3, LineCompiles
  <1>3. ASSUME NEW e \in Exprs, ElseIf(e) PROVE CInv'
    <2>1. Read(ElseIfTok(e)) /\ body' = Append(body, Stmt("elseif", e))
          /\ UNCHANGED <<text, needsStrconv, outcome>>
      BY <1>3 DEF ElseIf
    <2>2. PICK t \in Tokens : t = ElseIfTok(e) /\ t.kind # "text"
      BY LinesOfTokens
    <2>3. PICK st \in Stmts : st = LineOf(t) /\ body' = Append(body, st)
      BY <2>1, <2>2, LinesOfTokens
    <2> QED BY <2>1, <2>2, <2>3, LineCompiles
  <1>4. CASE Else
    <2>1. Read(ElseTok) /\ body' = Append(body, Stmt("else", "")) /\ UNCHANGED <<text, needsStrconv, outcome>>
      BY <1>4 DEF Else
    <2>2. PICK t \in Tokens : t = ElseTok /\ t.kind # "text"
      BY LinesOfTokens
    <2>3. PICK st \in Stmts : st = LineOf(t) /\ body' = Append(body, st)
      BY <2>1, <2>2, LinesOfTokens
    <2> QED BY <2>1, <2>2, <2>3, LineCompiles
  <1>5. CASE End
    <2>1. Read(EndTok) /\ body' = Append(body, Stmt("end", "")) /\ UNCHANGED <<text, needsStrconv, outcome>>
      BY <1>5 DEF End
    <2>2. PICK t \in Tokens : t = EndTok /\ t.kind # "text"
      BY LinesOfTokens
    <2>3. PICK st \in Stmts : st = LineOf(t) /\ body' = Append(body, st)
      BY <2>1, <2>2, LinesOfTokens
    <2> QED BY <2>1, <2>2, <2>3, LineCompiles
  <1> QED BY <1>1, <1>2, <1>3, <1>4, <1>5

\* Statements of a text are written.
LEMMA EmitCompiles ==
  ASSUME BInv, CInv, ~(text = << >> /\ paramNames = << >>),
         NEW n \in Nat, n <= Len(text), NEW v \in Seq(Stmts), OfText(v), MeansNext(text, n, v),
         Settle(v, paramNames, paramNames'), paramNames' \in Seq(Names), Emit(n, v),
         IF dialect = "postgres" THEN paramNames' = << >> ELSE ~needsStrconv'
  PROVE  CInv'
PROOF
  <1>1. /\ text' = SubSeq(text, n + 1, Len(text)) /\ body' = body \o v
        /\ UNCHANGED <<dialect, reportsId, seen, frames, outcome>>
    BY DEF Emit
  <1>2. outcome = "compiling"
    BY CompilerTypes DEF CInv
  <1>3. Translated(seen, text, paramNames, body)
    BY <1>2 DEF CInv
  <1>4. PICK new \in Seq(Names) : new = paramNames'
    OBVIOUS
  <1>5. Settle(v, paramNames, new)
    BY <1>4
  <1>6. Translated(seen, SubSeq(text, n + 1, Len(text)), new, body \o v)
    BY <1>3, <1>5, CompilerTypes, TextGoesOn
  <1>7. Translated(seen', text', paramNames', body')
    BY <1>1, <1>4, <1>6
  <1> QED BY <1>1, <1>2, <1>7 DEF CInv

\* What a query of single pieces asks for.
LEMMA AskedOfOne ==
  ASSUME NEW of \in Names
  PROVE  /\ Asked(<<Word(of)>>) = << >> /\ Asked(<<Value(of)>>) = << >> /\ Asked(<<Bound(of)>>) = <<of>>
         /\ Asked(<<Word(of)>> \o <<Word(of)>>) = << >>
PROOF
  <1>1. ASSUME NEW p \in Pieces PROVE Asked(<<p>>) = AskedOf[p]
    <2>1. <<p>> \in Seq(Pieces) /\ Len(<<p>>) = 1 /\ <<p>>[1] = p
      OBVIOUS
    <2>2. PICK z \in Seq(Pieces) : z = <<p>> /\ Len(z) = 1 /\ z[1] = p
      BY <2>1
    <2>3. AskedOf \in [Pieces -> Seq(Names)]
      BY WhatIsSaid
    <2>4. Each(z, AskedOf) = AskedOf[z[1]]
      <3>1. Len(z) = 1
        BY <2>2
      <3> QED BY <2>3, <3>1, EachOfOne
    <2> QED BY <2>2, <2>4 DEF Asked
  <1>2. Word(of) \in Pieces /\ Value(of) \in Pieces /\ Bound(of) \in Pieces
    BY PiecesArePieces
  <1>3. Asked(<<Word(of)>>) = << >> /\ Asked(<<Value(of)>>) = << >> /\ Asked(<<Bound(of)>>) = <<of>>
    BY <1>1, <1>2, StatementsSay
  <1>4. PICK z \in Seq(Pieces) : z = <<Word(of)>>
    BY PiecesArePieces
  <1>5. AskedApart(z, z)
    BY AskedConcat
  <1>6. << >> \o << >> = << >>
    OBVIOUS
  <1> QED BY <1>3, <1>4, <1>5, <1>6 DEF AskedApart

\* A word, or a type cast, is written as it stands.
LEMMA WordsCompile ==
  ASSUME BInv, CInv, EmitWords
  PROVE  CInv'
PROOF
  <1>1. text # << >> /\ ~IsParam /\ paramNames' = paramNames /\ needsStrconv' = needsStrconv
    BY DEF EmitWords
  <1>2. text \in Seq(Words) /\ paramNames \in Seq(Names) /\ Len(text) \in Nat /\ Len(text) > 0
    BY <1>1, CompilerTypes, LenProperties, EmptySeq
  <1>3. IF dialect = "postgres" THEN paramNames' = << >> ELSE ~needsStrconv'
    BY <1>1 DEF CInv
  <1>4. ASSUME NEW v, Each(v, GivesOf) = << >>, Asked(Each(v, SaysOf)) = << >>
        PROVE  Settle(v, paramNames, paramNames')
    <2>1. paramNames \o << >> = paramNames /\ << >> \o paramNames = paramNames
      BY <1>2, ConcatEmptySeq
    <2> QED BY <1>1, <1>4, <2>1 DEF Settle
  <1>5. CASE IsCast
    <2>1. Emit(2, <<Stmt("write", ":"), Stmt("write", ":")>>)
      BY <1>5 DEF EmitWords
    <2>2. Len(text) > 1 /\ text[1] = ":" /\ text[2] = ":"
      BY <1>5 DEF IsCast
    <2>3. PICK v : v = <<Stmt("write", ":"), Stmt("write", ":")>>
      OBVIOUS
    <2>4. /\ v \in Seq(Stmts) /\ OfText(v) /\ MeansNext(text, 2, v)
          /\ Each(v, SaysOf) = <<Word(":")>> \o <<Word(":")>> /\ Each(v, GivesOf) = << >>
      BY <1>2, <2>2, <2>3, CastNext
    <2>5. Settle(v, paramNames, paramNames')
      <3>1. ":" \in Names
        BY DEF Names
      <3>2. Asked(<<Word(":")>> \o <<Word(":")>>) = << >>
        BY <3>1, AskedOfOne
      <3> QED BY <1>4, <2>4, <3>2
    <2>6. 2 \in Nat /\ 2 <= Len(text)
      BY <1>2, <2>2
    <2> QED BY <1>1, <1>2, <1>3, <2>1, <2>3, <2>4, <2>5, <2>6, EmitCompiles
  <1>6. CASE ~IsCast
    <2>1. Emit(1, <<Stmt("write", text[1])>>)
      BY <1>6 DEF EmitWords
    <2>2. ~(Len(text) > 1 /\ text[1] = ":" /\ text[2] \in Identifiers \cup {":"})
      BY <1>1, <1>6 DEF IsCast, IsParam
    <2>3. PICK v : v = <<Stmt("write", text[1])>>
      OBVIOUS
    <2>4. /\ v \in Seq(Stmts) /\ OfText(v) /\ MeansNext(text, 1, v)
          /\ Each(v, SaysOf) = <<Word(text[1])>> /\ Each(v, GivesOf) = << >>
      BY <1>1, <1>2, <2>2, <2>3, WordNext
    <2>5. Settle(v, paramNames, paramNames')
      <3>1. text[1] \in Names
        BY <1>2, NamesAreNames
      <3>2. Asked(<<Word(text[1])>>) = << >>
        BY <3>1, AskedOfOne
      <3> QED BY <1>4, <2>4, <3>2
    <2>6. 1 \in Nat /\ 1 <= Len(text)
      BY <1>2
    <2> QED BY <1>1, <1>2, <1>3, <2>1, <2>3, <2>4, <2>5, <2>6, EmitCompiles
  <1> QED BY <1>5, <1>6

\* A bound parameter becomes a placeholder; off Postgres its argument waits.
LEMMA ParamsCompile ==
  ASSUME BInv, CInv, EmitDollar \/ EmitMark
  PROVE  CInv'
PROOF
  <1>1. Len(text) > 1 /\ text[1] = ":" /\ text[2] \in Identifiers
    BY DEF EmitDollar, EmitMark, IsParam
  <1>2. text \in Seq(Words) /\ paramNames \in Seq(Names) /\ Len(text) \in Nat /\ text # << >>
        /\ 2 \in Nat /\ 2 <= Len(text)
    <2>1. text \in Seq(Words) /\ paramNames \in Seq(Names) /\ Len(text) \in Nat
      BY CompilerTypes, LenProperties
    <2> QED BY <1>1, <2>1, EmptySeq
  <1>3. PICK p \in Names : p = text[2]
    BY <1>1, NamesAreNames
  <1>4. Asked(<<Bound(p)>>) = <<p>>
    BY AskedOfOne
  <1>5. CASE EmitDollar
    <2>1. dialect = "postgres" /\ Emit(2, <<Stmt("bind", text[2])>>) /\ paramNames' = paramNames
      BY <1>5 DEF EmitDollar
    <2>2. paramNames = << >>
      BY <2>1 DEF CInv
    <2>3. PICK v : v = <<Stmt("bind", text[2])>>
      OBVIOUS
    <2>4. /\ v \in Seq(Stmts) /\ OfText(v) /\ MeansNext(text, 2, v)
          /\ Each(v, SaysOf) = <<Bound(p)>> /\ Each(v, GivesOf) = <<p>>
      BY <1>1, <1>2, <1>3, <2>3, ParamNext
    <2>5. Settle(v, paramNames, paramNames')
      <3>1. PICK o \in Seq(Names) : o = <<p>>
        <4>1. <<p>> \in Seq(Names)
          OBVIOUS
        <4> QED BY <4>1
      <3>2. o \o << >> = o /\ << >> \o o = o
        BY ConcatEmptySeq
      <3> QED BY <1>4, <2>1, <2>2, <2>4, <3>1, <3>2 DEF Settle
    <2> QED BY <1>2, <2>1, <2>2, <2>3, <2>4, <2>5, EmitCompiles
  <1>6. CASE EmitMark
    <2>1. /\ dialect # "postgres" /\ Emit(2, <<Stmt("mark", text[2])>>)
          /\ paramNames' = Append(paramNames, p) /\ needsStrconv' = needsStrconv
      BY <1>3, <1>6 DEF EmitMark
    <2>2. ~needsStrconv'
      BY <2>1 DEF CInv
    <2>3. PICK v : v = <<Stmt("mark", text[2])>>
      OBVIOUS
    <2>4. /\ v \in Seq(Stmts) /\ OfText(v) /\ MeansNext(text, 2, v)
          /\ Each(v, SaysOf) = <<Bound(p)>> /\ Each(v, GivesOf) = << >>
      BY <1>1, <1>2, <1>3, <2>3, ParamNext
    <2>5. PICK q \in Seq(Names) : q = Append(paramNames, p)
      BY <1>2, AppendProperties
    <2>6. Settle(v, paramNames, paramNames')
      <3>1. paramNames \o <<p>> = q
        BY <1>2, <2>5, AppendIsConcat
      <3>2. << >> \o q = q
        BY ConcatEmptySeq
      <3> QED BY <1>4, <2>1, <2>4, <2>5, <3>1, <3>2 DEF Settle
    <2> QED BY <1>2, <2>1, <2>2, <2>3, <2>4, <2>5, <2>6, EmitCompiles
  <1> QED BY <1>5, <1>6

\* The arguments that waited are given, in the order of their placeholders.
LEMMA ArgsCompile ==
  ASSUME BInv, CInv, EmitArgs
  PROVE  CInv'
PROOF
  <1>1. /\ text = << >> /\ paramNames # << >> /\ paramNames' = << >>
        /\ body' = body \o [i \in DOMAIN paramNames |-> Stmt("arg", paramNames[i])]
        /\ UNCHANGED <<dialect, reportsId, seen, frames, text, needsStrconv, outcome>>
    BY DEF EmitArgs
  <1>2. paramNames \in Seq(Names)
    BY CompilerTypes
  <1>3. PICK v : v = [i \in DOMAIN paramNames |-> Stmt("arg", paramNames[i])]
    OBVIOUS
  <1>4. /\ v \in Seq(Stmts) /\ OfText(v) /\ MeansNext(<< >>, 0, v)
        /\ Each(v, SaysOf) = << >> /\ Each(v, GivesOf) = paramNames
    BY <1>1, <1>2, <1>3, ArgsNext
  <1>5. Settle(v, paramNames, paramNames')
    <2>1. Asked(<< >>) = << >>
      BY AskedNone
    <2> QED BY <1>1, <1>4, <2>1 DEF Settle
  <1>6. 0 \in Nat /\ 0 <= Len(text) /\ SubSeq(text, 0 + 1, Len(text)) = text
    <2>1. Len(<< >>) = 0 /\ SubSeq(<< >>, 1, 0) = << >> /\ 0 + 1 = 1
      OBVIOUS
    <2> QED BY <1>1, <2>1
  <1>7. Emit(0, v)
    BY <1>1, <1>3, <1>6 DEF Emit
  <1>8. IF dialect = "postgres" THEN paramNames' = << >> ELSE ~needsStrconv'
    BY <1>1 DEF CInv
  <1>9. << >> \in Seq(Names)
    BY EmptySeq
  <1> QED BY <1>1, <1>4, <1>5, <1>6, <1>7, <1>8, <1>9, EmitCompiles

\* The template is rejected.
LEMMA RejectionCompiles ==
  ASSUME BInv, CInv,
         (\E n \in Identifiers : BadSubst(n)) \/ (\E t \in Tokens : Stray(t)) \/ Unfinished
  PROVE  CInv'
PROOF
  <1>1. /\ outcome' \in {"rejected", "unfinished"} /\ text = << >> /\ paramNames = << >>
        /\ UNCHANGED <<text, paramNames, dialect, needsStrconv>>
    BY DEF BadSubst, Stray, Unfinished, Read, BetweenTokens
  <1> QED BY <1>1 DEF CInv

\* The template is compiled.
LEMMA EndCompiles ==
  ASSUME BInv, CInv, Finish
  PROVE  CInv'
PROOF
  <1>1. /\ outcome = "compiling" /\ outcome' = "compiled" /\ text = << >> /\ paramNames = << >>
        /\ body' = IF AsksForId THEN Append(body, Stmt("write", Clause)) ELSE body
        /\ UNCHANGED <<dialect, reportsId, seen, frames, text, paramNames, needsStrconv>>
    BY DEF Finish, BetweenTokens, AsksForId
  <1>2. AsksForId' <=> AsksForId
    BY <1>1 DEF AsksForId, ReadsIdBack, Mentions
  <1>3. Translated(seen, << >>, << >>, body)
    BY <1>1 DEF CInv
  <1>4. PICK e : Codes(e, Len(seen), seen, body) /\ e[Len(seen)] = Len(body)
    BY <1>3 DEF Translated
  <1>5. Compiled(seen, body', AsksForId)
    <2>1. CASE AsksForId
      <3>1. PICK st \in Stmts : st = Stmt("write", Clause)
        BY StatementsSay DEF Names
      <3>2. body \in Seq(Stmts) /\ Len(seen) \in Nat
        BY CompilerTypes, LenProperties
      <3>3. PICK zz \in Seq(Stmts) : zz = Append(body, st)
        BY <3>2, OneStatementMore
      <3>4. Longer(body, zz) /\ Len(zz) = Len(body) + 1 /\ zz[Len(zz)] = st
        BY <3>2, <3>3, OneStatementMore
      <3>5. Codes(e, Len(seen), seen, zz)
        BY <1>4, <3>2, <3>4, CodesStay
      <3> QED BY <1>1, <1>4, <2>1, <3>1, <3>3, <3>4, <3>5 DEF Compiled
    <2>2. CASE ~AsksForId
      BY <1>1, <1>4, <2>2 DEF Compiled
    <2> QED BY <2>1, <2>2
  <1>6. Compiled(seen', body', AsksForId')
    BY <1>1, <1>2, <1>5 DEF Compiled
  <1>7. IF dialect' = "postgres" THEN paramNames' = << >> ELSE ~needsStrconv'
    BY <1>1 DEF CInv
  <1> QED BY <1>1, <1>6, <1>7 DEF CInv

\* Every step of the compiler keeps what it has written in line with what it
\* has read.
LEMMA CompilerTranslates ==
  ASSUME BInv, CInv, CompilerNext
  PROVE  CInv'
PROOF
  BY TextCompiles, WordsCompile, ParamsCompile, ArgsCompile, LinesCompile, RejectionCompiles, EndCompiles
     DEF CompilerNext

\* A step that compiles nothing.
LEMMA CompilerRests ==
  ASSUME CInv, UNCHANGED compilerVars
  PROVE  CInv'
PROOF
  <1>1. AsksForId' <=> AsksForId
    BY DEF compilerVars, AsksForId, ReadsIdBack, Mentions
  <1> QED BY <1>1 DEF compilerVars, CInv, Translated, Compiled

\* Nothing is nothing, translated.
LEMMA InitTranslates == BodyInit => CInv
PROOF
  <1> SUFFICES ASSUME BodyInit PROVE CInv
    OBVIOUS
  <1>1. seen = << >> /\ body = << >> /\ text = << >> /\ paramNames = << >> /\ outcome = "compiling"
        /\ needsStrconv = FALSE
    BY DEF BodyInit, CompilerInit
  <1>2. Len(seen) = 0 /\ Len(body) = 0
    BY <1>1
  <1>3. Codes([i \in 0..0 |-> 0], 0, seen, body)
    <2>1. 0 \in 0..0 /\ 1..0 = {} /\ \A i \in 0..0 : 0 \in 0..0
      OBVIOUS
    <2>2. [i \in 0..0 |-> 0] \in [0..0 -> 0..0] /\ [i \in 0..0 |-> 0][0] = 0
      BY <2>1
    <2> QED BY <1>2, <2>1, <2>2 DEF Codes
  <1>4. [i \in 0..0 |-> 0][0] = 0
    OBVIOUS
  <1>5. Translated(seen, text, paramNames, body)
    BY <1>1, <1>2, <1>3, <1>4 DEF Translated
  <1> QED BY <1>1, <1>5 DEF CInv

-----------------------------------------------------------------------------
(* The branches that are taken. *)

\* The branches, up to token i, of the block at depth d that is open there.
Branches(ts, i, d) == {h \in 1..i : Heads(ts, h, i, d)}

\* The condition of a branch holds.
Holds(ts, h, hs) == ts[h].kind = "else" \/ ts[h].arg \in hs

\* The last of them is the first whose condition holds.
Chosen(ts, i, d, hs) ==
  \E h \in Branches(ts, i, d) :
    Holds(ts, h, hs) /\ \A k \in Branches(ts, i, d) : (k > h \/ Holds(ts, k, hs)) => k = h

\* No condition of theirs holds.
NoneHolds(ts, i, d, hs) == \A h \in Branches(ts, i, d) : ~Holds(ts, h, hs)

\* A token counts when the branch is chosen in every block around it.
LEMMA ActiveIsChosen ==
  ASSUME NEW ts, NEW i, NEW hs
  PROVE  Active(ts, i, hs) <=> \A d \in 1..Depth(ts, i) : Chosen(ts, i, d, hs)
PROOF
  BY DEF Active, Chosen, Branches, Holds

\* The branches after one token more.
LEMMA BranchesNext ==
  ASSUME NEW ts, NEW i \in Nat, NEW d \in Nat
  PROVE  Branches(ts, i + 1, d) =
           (IF Depth(ts, i + 1) >= d THEN Branches(ts, i, d) ELSE {})
             \cup (IF ts[i + 1].kind \in {"if", "elseif", "else"} /\ Depth(ts, i + 1) = d THEN {i + 1} ELSE {})
PROOF
  <1>0. Depth(ts, i + 1) \in Int
    BY DepthNext
  <1>1. ASSUME NEW h \in 1..i
        PROVE  Heads(ts, h, i + 1, d) <=> Heads(ts, h, i, d) /\ Depth(ts, i + 1) >= d
    <2>1. h..(i + 1) = (h..i) \cup {i + 1}
      OBVIOUS
    <2> QED BY <2>1 DEF Heads
  <1>2. Heads(ts, i + 1, i + 1, d) <=> ts[i + 1].kind \in {"if", "elseif", "else"} /\ Depth(ts, i + 1) = d
    <2>1. (i + 1)..(i + 1) = {i + 1}
      OBVIOUS
    <2> QED BY <1>0, <2>1 DEF Heads
  <1>3. 1..(i + 1) = (1..i) \cup {i + 1} /\ i + 1 \notin 1..i
    OBVIOUS
  <1> QED BY <1>1, <1>2, <1>3 DEF Branches

\* The same branches, the same choice.
LEMMA SameBranches ==
  ASSUME NEW ts, NEW i, NEW j, NEW d, NEW hs, Branches(ts, i, d) = Branches(ts, j, d)
  PROVE  (Chosen(ts, i, d, hs) <=> Chosen(ts, j, d, hs)) /\ (NoneHolds(ts, i, d, hs) <=> NoneHolds(ts, j, d, hs))
PROOF
  BY DEF Chosen, NoneHolds

\* A new branch.
LEMMA NewBranch ==
  ASSUME NEW ts, NEW i \in Nat, NEW d, NEW hs, Branches(ts, i + 1, d) = Branches(ts, i, d) \cup {i + 1}
  PROVE  /\ Chosen(ts, i + 1, d, hs) <=> NoneHolds(ts, i, d, hs) /\ Holds(ts, i + 1, hs)
         /\ NoneHolds(ts, i + 1, d, hs) <=> NoneHolds(ts, i, d, hs) /\ ~Holds(ts, i + 1, hs)
PROOF
  <1>1. \A h \in Branches(ts, i, d) : h \in 1..i
    BY DEF Branches
  <1>2. \A h \in Branches(ts, i, d) : i + 1 > h /\ h # i + 1 /\ ~(h > i + 1)
    BY <1>1
  <1>3. ASSUME Chosen(ts, i + 1, d, hs)
        PROVE  NoneHolds(ts, i, d, hs) /\ Holds(ts, i + 1, hs)
    <2>1. PICK h \in Branches(ts, i + 1, d) :
            Holds(ts, h, hs) /\ \A k \in Branches(ts, i + 1, d) : (k > h \/ Holds(ts, k, hs)) => k = h
      BY <1>3 DEF Chosen
    <2>2. h = i + 1
      BY <1>2, <2>1
    <2>3. \A k \in Branches(ts, i, d) : ~Holds(ts, k, hs)
      BY <1>2, <2>1, <2>2
    <2> QED BY <2>1, <2>2, <2>3 DEF NoneHolds
  <1>4. ASSUME NoneHolds(ts, i, d, hs), Holds(ts, i + 1, hs)
        PROVE  Chosen(ts, i + 1, d, hs)
    <2>1. \A k \in Branches(ts, i + 1, d) : (k > i + 1 \/ Holds(ts, k, hs)) => k = i + 1
      <3>1. ~(i + 1 > i + 1)
        OBVIOUS
      <3> QED BY <1>2, <1>4, <3>1 DEF NoneHolds
    <2> QED BY <1>4, <2>1 DEF Chosen
  <1>5. NoneHolds(ts, i + 1, d, hs) <=> NoneHolds(ts, i, d, hs) /\ ~Holds(ts, i + 1, hs)
    BY DEF NoneHolds
  <1> QED BY <1>3, <1>4, <1>5

States == {"on", "seek", "off"}

AllOn(bs) == \A d \in DOMAIN bs : bs[d] = "on"

\* The if statements around, after the first i tokens, know whether their
\* branch is the one that is taken.
BlocksAre(ts, i, hs, bs) ==
  /\ Len(bs) = Depth(ts, i)
  /\ \A d \in 1..Len(bs) :
       (\A c \in 1..(d - 1) : bs[c] = "on") =>
         /\ bs[d] = "on" <=> Chosen(ts, i, d, hs)
         /\ bs[d] = "seek" <=> NoneHolds(ts, i, d, hs)

\* Statements run exactly where the template counts.
LEMMA RunningIsActive ==
  ASSUME NEW ts, NEW i, NEW hs, NEW bs \in Seq(States), BlocksAre(ts, i, hs, bs)
  PROVE  AllOn(bs) <=> Active(ts, i, hs)
PROOF
  <1>1. Len(bs) \in Nat /\ DOMAIN bs = 1..Len(bs) /\ Len(bs) = Depth(ts, i)
    BY LenProperties DEF BlocksAre
  <1>2. ASSUME AllOn(bs), NEW d \in 1..Len(bs) PROVE Chosen(ts, i, d, hs)
    <2>1. \A c \in 1..(d - 1) : c \in 1..Len(bs)
      BY <1>1
    <2>2. bs[d] = "on" /\ \A c \in 1..(d - 1) : bs[c] = "on"
      BY <1>1, <1>2, <2>1 DEF AllOn
    <2> QED BY <2>2 DEF BlocksAre
  <1>3. ASSUME \A d \in 1..Len(bs) : Chosen(ts, i, d, hs), ~AllOn(bs) PROVE FALSE
    <2> DEFINE Bad == {d \in 1..Len(bs) : bs[d] # "on"}
    <2>1. Bad \in SUBSET Nat /\ Bad # {}
      BY <1>1, <1>3 DEF AllOn
    <2>2. PICK d \in Bad : \A j \in Bad : d <= j
      BY <2>1, LeastElement
    <2>3. d \in 1..Len(bs) /\ bs[d] # "on"
      BY <2>2
    <2>4. ASSUME NEW c \in 1..(d - 1) PROVE bs[c] = "on"
      <3>1. c \in 1..Len(bs) /\ ~(d <= c)
        BY <1>1, <2>3
      <3> QED BY <2>2, <3>1
    <2>5. Chosen(ts, i, d, hs)
      BY <1>3, <2>3
    <2> QED BY <2>3, <2>4, <2>5 DEF BlocksAre
  <1>4. Active(ts, i, hs) <=> \A d \in 1..Len(bs) : Chosen(ts, i, d, hs)
    BY <1>1, ActiveIsChosen
  <1> QED BY <1>2, <1>3, <1>4

\* A token that is part of no if statement.
LEMMA BlocksStay ==
  ASSUME NEW ts, NEW i \in Nat, NEW hs, NEW bs \in Seq(States), BlocksAre(ts, i, hs, bs),
         ts[i + 1].kind \in {"text", "subst"}
  PROVE  BlocksAre(ts, i + 1, hs, bs)
PROOF
  <1>1. Len(bs) = Depth(ts, i) /\ Depth(ts, i) \in Int /\ Depth(ts, i + 1) = Depth(ts, i)
    <2>1. Len(bs) = Depth(ts, i) /\ Depth(ts, i) \in Int /\ Depth(ts, i + 1) = Depth(ts, i) + 0
      BY DepthNext DEF BlocksAre
    <2> QED BY <2>1
  <1>2. ASSUME NEW d \in 1..Len(bs) PROVE Branches(ts, i + 1, d) = Branches(ts, i, d)
    <2>1. d \in Nat /\ Depth(ts, i + 1) >= d
      BY <1>1
    <2> QED BY <2>1, BranchesNext
  <1>3. \A d \in 1..Len(bs) : /\ Chosen(ts, i + 1, d, hs) <=> Chosen(ts, i, d, hs)
                              /\ NoneHolds(ts, i + 1, d, hs) <=> NoneHolds(ts, i, d, hs)
    BY <1>2, SameBranches
  <1> QED BY <1>1, <1>3 DEF BlocksAre

\* An if statement begins.
LEMMA BlocksOpen ==
  ASSUME NEW ts, NEW i \in Nat, NEW hs, NEW bs \in Seq(States), BlocksAre(ts, i, hs, bs),
         ts[i + 1].kind = "if", NEW after \in States,
         after = IF ~AllOn(bs) THEN "off" ELSE IF ts[i + 1].arg \in hs THEN "on" ELSE "seek"
  PROVE  BlocksAre(ts, i + 1, hs, Append(bs, after))
PROOF
  <1>0. Len(bs) \in Nat /\ DOMAIN bs = 1..Len(bs)
    BY LenProperties
  <1>1. Len(bs) = Depth(ts, i) /\ Depth(ts, i) \in Int /\ Depth(ts, i + 1) = Len(bs) + 1
    BY DepthNext DEF BlocksAre
  <1>2. PICK new \in Seq(States) : new = Append(bs, after)
    BY AppendProperties
  <1>3. Len(new) = Len(bs) + 1 /\ new[Len(bs) + 1] = after /\ \A d \in 1..Len(bs) : new[d] = bs[d]
    BY <1>2, AppendProperties
  <1>4. ASSUME NEW d \in 1..Len(bs), \A c \in 1..(d - 1) : new[c] = "on"
        PROVE  (new[d] = "on" <=> Chosen(ts, i + 1, d, hs)) /\ (new[d] = "seek" <=> NoneHolds(ts, i + 1, d, hs))
    <2>1. d \in Nat /\ Depth(ts, i + 1) >= d /\ Depth(ts, i + 1) # d /\ \A c \in 1..(d - 1) : c \in 1..Len(bs)
      BY <1>0, <1>1
    <2>2. Branches(ts, i + 1, d) = Branches(ts, i, d)
      BY <2>1, BranchesNext
    <2>3. \A c \in 1..(d - 1) : bs[c] = "on"
      BY <1>3, <1>4, <2>1
    <2>4. (bs[d] = "on" <=> Chosen(ts, i, d, hs)) /\ (bs[d] = "seek" <=> NoneHolds(ts, i, d, hs))
      BY <2>3 DEF BlocksAre
    <2> QED BY <1>3, <2>2, <2>4, SameBranches
  <1>5. ASSUME \A c \in 1..((Len(bs) + 1) - 1) : new[c] = "on"
        PROVE  /\ new[Len(bs) + 1] = "on" <=> Chosen(ts, i + 1, Len(bs) + 1, hs)
               /\ new[Len(bs) + 1] = "seek" <=> NoneHolds(ts, i + 1, Len(bs) + 1, hs)
    <2>1. AllOn(bs)
      <3>1. (Len(bs) + 1) - 1 = Len(bs)
        BY <1>0
      <3> QED BY <1>0, <1>3, <1>5, <3>1 DEF AllOn
    <2>2. Branches(ts, i, Len(bs) + 1) = {}
      <3>1. \A h \in 1..i : i \in h..i
        OBVIOUS
      <3>2. ~(Depth(ts, i) >= Len(bs) + 1)
        BY <1>0, <1>1
      <3> QED BY <3>1, <3>2 DEF Branches, Heads
    <2>3. Branches(ts, i + 1, Len(bs) + 1) = Branches(ts, i, Len(bs) + 1) \cup {i + 1}
      <3>1. Len(bs) + 1 \in Nat /\ Depth(ts, i + 1) >= Len(bs) + 1
        BY <1>0, <1>1
      <3> QED BY <1>1, <3>1, BranchesNext
    <2>4. NoneHolds(ts, i, Len(bs) + 1, hs)
      BY <2>2 DEF NoneHolds
    <2>5. Holds(ts, i + 1, hs) <=> ts[i + 1].arg \in hs
      BY DEF Holds
    <2> QED BY <1>3, <2>1, <2>3, <2>4, <2>5, NewBranch
  <1>6. \A d \in 1..Len(new) : d \in 1..Len(bs) \/ d = Len(bs) + 1
    BY <1>0, <1>3
  <1>7. BlocksAre(ts, i + 1, hs, new)
    BY <1>1, <1>3, <1>4, <1>5, <1>6 DEF BlocksAre
  <1> QED BY <1>2, <1>7

\* The next branch of an if statement begins.
LEMMA BlocksTurn ==
  ASSUME NEW ts, NEW i \in Nat, NEW hs, NEW bs \in Seq(States), BlocksAre(ts, i, hs, bs),
         ts[i + 1].kind \in {"elseif", "else"}, bs # << >>, NEW after \in States,
         after = IF bs[Len(bs)] # "seek" THEN "off" ELSE IF Holds(ts, i + 1, hs) THEN "on" ELSE "seek"
  PROVE  BlocksAre(ts, i + 1, hs, Append(Front(bs), after))
PROOF
  <1>0. Len(bs) \in Nat /\ Len(bs) > 0 /\ Len(bs) - 1 \in Nat /\ Len(bs) \in 1..Len(bs)
    BY LenProperties, EmptySeq
  <1>1. Len(bs) = Depth(ts, i) /\ Depth(ts, i) \in Int /\ Depth(ts, i + 1) = Len(bs)
    <2>1. Len(bs) = Depth(ts, i) /\ Depth(ts, i) \in Int /\ Depth(ts, i + 1) = Depth(ts, i) + 0
      BY DepthNext DEF BlocksAre
    <2> QED BY <2>1
  <1>2. PICK f \in Seq(States) : f = Front(bs)
    BY FrontIsShorter
  <1>3. Len(f) = Len(bs) - 1 /\ \A d \in 1..(Len(bs) - 1) : f[d] = bs[d]
    BY <1>2, FrontIsShorter
  <1>4. PICK new \in Seq(States) : new = Append(f, after)
    BY AppendProperties
  <1>5. Len(new) = Len(bs) /\ new[Len(bs)] = after /\ \A d \in 1..(Len(bs) - 1) : new[d] = bs[d]
    <2>1. Len(new) = Len(f) + 1 /\ new[Len(f) + 1] = after /\ \A d \in 1..Len(f) : new[d] = f[d]
      BY <1>4, AppendProperties
    <2>2. Len(f) + 1 = Len(bs)
      BY <1>0, <1>3
    <2> QED BY <1>3, <2>1, <2>2
  <1>6. ASSUME NEW d \in 1..(Len(bs) - 1), \A c \in 1..(d - 1) : new[c] = "on"
        PROVE  (new[d] = "on" <=> Chosen(ts, i + 1, d, hs)) /\ (new[d] = "seek" <=> NoneHolds(ts, i + 1, d, hs))
    <2>1. /\ d \in Nat /\ d \in 1..Len(bs) /\ Depth(ts, i + 1) >= d /\ Depth(ts, i + 1) # d
          /\ \A c \in 1..(d - 1) : c \in 1..(Len(bs) - 1)
      BY <1>0, <1>1
    <2>2. Branches(ts, i + 1, d) = Branches(ts, i, d)
      BY <2>1, BranchesNext
    <2>3. \A c \in 1..(d - 1) : bs[c] = "on"
      BY <1>5, <1>6, <2>1
    <2>4. (bs[d] = "on" <=> Chosen(ts, i, d, hs)) /\ (bs[d] = "seek" <=> NoneHolds(ts, i, d, hs))
      BY <2>1, <2>3 DEF BlocksAre
    <2> QED BY <1>5, <2>2, <2>4, SameBranches
  <1>7. ASSUME \A c \in 1..(Len(bs) - 1) : new[c] = "on"
        PROVE  /\ new[Len(bs)] = "on" <=> Chosen(ts, i + 1, Len(bs), hs)
               /\ new[Len(bs)] = "seek" <=> NoneHolds(ts, i + 1, Len(bs), hs)
    <2>1. \A c \in 1..(Len(bs) - 1) : bs[c] = "on"
      BY <1>5, <1>7
    <2>2. bs[Len(bs)] = "seek" <=> NoneHolds(ts, i, Len(bs), hs)
      BY <1>0, <2>1 DEF BlocksAre
    <2>3. Branches(ts, i + 1, Len(bs)) = Branches(ts, i, Len(bs)) \cup {i + 1}
      BY <1>0, <1>1, BranchesNext
    <2>4. /\ Chosen(ts, i + 1, Len(bs), hs) <=> NoneHolds(ts, i, Len(bs), hs) /\ Holds(ts, i + 1, hs)
          /\ NoneHolds(ts, i + 1, Len(bs), hs) <=> NoneHolds(ts, i, Len(bs), hs) /\ ~Holds(ts, i + 1, hs)
      BY <2>3, NewBranch
    <2> QED BY <1>5, <2>2, <2>4
  <1>8. \A d \in 1..Len(new) : d \in 1..(Len(bs) - 1) \/ d = Len(bs)
    BY <1>0, <1>5
  <1>9. BlocksAre(ts, i + 1, hs, new)
    BY <1>1, <1>5, <1>6, <1>7, <1>8 DEF BlocksAre
  <1> QED BY <1>2, <1>4, <1>9

\* An if statement ends.
LEMMA BlocksClose ==
  ASSUME NEW ts, NEW i \in Nat, NEW hs, NEW bs \in Seq(States), BlocksAre(ts, i, hs, bs),
         ts[i + 1].kind = "end", bs # << >>
  PROVE  BlocksAre(ts, i + 1, hs, Front(bs))
PROOF
  <1>0. Len(bs) \in Nat /\ Len(bs) > 0 /\ Len(bs) - 1 \in Nat
    BY LenProperties, EmptySeq
  <1>1. Len(bs) = Depth(ts, i) /\ Depth(ts, i) \in Int /\ Depth(ts, i + 1) = Len(bs) - 1
    <2>1. Len(bs) = Depth(ts, i) /\ Depth(ts, i) \in Int /\ Depth(ts, i + 1) = Depth(ts, i) + (-1)
      BY DepthNext DEF BlocksAre
    <2> QED BY <1>0, <2>1
  <1>2. PICK f \in Seq(States) : f = Front(bs)
    BY FrontIsShorter
  <1>3. Len(f) = Len(bs) - 1 /\ \A d \in 1..(Len(bs) - 1) : f[d] = bs[d]
    BY <1>2, FrontIsShorter
  <1>4. ASSUME NEW d \in 1..Len(f), \A c \in 1..(d - 1) : f[c] = "on"
        PROVE  (f[d] = "on" <=> Chosen(ts, i + 1, d, hs)) /\ (f[d] = "seek" <=> NoneHolds(ts, i + 1, d, hs))
    <2>1. /\ d \in Nat /\ d \in 1..Len(bs) /\ d \in 1..(Len(bs) - 1) /\ Depth(ts, i + 1) >= d
          /\ \A c \in 1..(d - 1) : c \in 1..(Len(bs) - 1)
      BY <1>0, <1>1, <1>3
    <2>2. Branches(ts, i + 1, d) = Branches(ts, i, d)
      BY <2>1, BranchesNext
    <2>3. \A c \in 1..(d - 1) : bs[c] = "on"
      BY <1>3, <1>4, <2>1
    <2>4. (bs[d] = "on" <=> Chosen(ts, i, d, hs)) /\ (bs[d] = "seek" <=> NoneHolds(ts, i, d, hs))
      BY <2>1, <2>3 DEF BlocksAre
    <2> QED BY <1>3, <2>1, <2>2, <2>4, SameBranches
  <1>5. BlocksAre(ts, i + 1, hs, f)
    BY <1>1, <1>3, <1>4 DEF BlocksAre
  <1> QED BY <1>2, <1>5

-----------------------------------------------------------------------------
(* The statements at work. *)

\* What an item of the query says.
SaidOf ==
  [it \in Items |-> IF it.kind = "mark" THEN <<Bound(it.of)>> ELSE <<[kind |-> it.kind, of |-> it.of]>>]
Said(q) == Each(q, SaidOf)

\* What single items of the query say has its type.
LEMMA WhatItemsSay ==
  /\ SaidOf \in [Items -> Seq(Pieces)]
  /\ \A of \in Names, pos \in Nat :
       /\ Item("word", of, pos) \in Items /\ SaidOf[Item("word", of, pos)] = <<Word(of)>>
       /\ Item("value", of, pos) \in Items /\ SaidOf[Item("value", of, pos)] = <<Value(of)>>
       /\ Item("mark", of, pos) \in Items /\ SaidOf[Item("mark", of, pos)] = <<Bound(of)>>
PROOF
  <1>1. ASSUME NEW it \in Items PROVE SaidOf[it] \in Seq(Pieces)
    <2>1. it.of \in Names /\ it.kind \in {"word", "value", "mark"}
      BY DEF Items
    <2>2. <<Bound(it.of)>> \in Seq(Pieces)
      BY <2>1, PiecesArePieces
    <2>3. ASSUME it.kind # "mark" PROVE <<[kind |-> it.kind, of |-> it.of]>> \in Seq(Pieces)
      <3>1. [kind |-> it.kind, of |-> it.of] \in Pieces
        BY <2>1, <2>3 DEF Pieces
      <3> QED BY <3>1
    <2> QED BY <2>2, <2>3 DEF SaidOf
  <1>2. SaidOf = [it \in Items |-> SaidOf[it]]
    BY DEF SaidOf
  <1>3. ASSUME NEW of \in Names, NEW pos \in Nat, NEW kind \in {"word", "value", "mark"}
        PROVE  /\ Item(kind, of, pos) \in Items
               /\ Item(kind, of, pos).kind = kind /\ Item(kind, of, pos).of = of
    BY DEF Item, Items
  <1>4. ASSUME NEW of \in Names, NEW pos \in Nat
        PROVE  /\ Item("word", of, pos) \in Items /\ SaidOf[Item("word", of, pos)] = <<Word(of)>>
               /\ Item("value", of, pos) \in Items /\ SaidOf[Item("value", of, pos)] = <<Value(of)>>
               /\ Item("mark", of, pos) \in Items /\ SaidOf[Item("mark", of, pos)] = <<Bound(of)>>
    BY <1>3 DEF SaidOf, Word, Value
  <1> QED BY <1>1, <1>2, <1>4

\* What a query says is a sequence of pieces.
LEMMA SaidTyped ==
  ASSUME NEW q \in Seq(Items)
  PROVE  Said(q) \in Seq(Pieces)
PROOF
  BY WhatItemsSay, EachTyped DEF Said

\* The empty query says nothing.
LEMMA SaidNone == Said(<< >>) = << >>
PROOF
  BY EachNone DEF Said

\* An item more says what it says after the others.
LEMMA SaidAppend ==
  ASSUME NEW q \in Seq(Items), NEW it \in Items
  PROVE  Said(Append(q, it)) = Said(q) \o SaidOf[it]
PROOF
  BY WhatItemsSay, EachAppend DEF Said

\* The query and the arguments, when what came before the m-th statement made
\* the query before, and the statements after it ran, or were skipped.
Sofar(on, ss, m, p, before, q, a) ==
  /\ Said(q) = before \o (IF on THEN Each(Slice(ss, m, p), SaysOf) ELSE << >>)
  /\ a = Asked(before) \o (IF on THEN Each(Slice(ss, m, p), GivesOf) ELSE << >>)

\* No statement of a token has run yet.
LEMMA SofarBegins ==
  ASSUME NEW on \in BOOLEAN, NEW ss \in Seq(Stmts), NEW m \in 0..Len(ss), NEW before \in Seq(Pieces),
         NEW q, NEW a, Said(q) = before, a = Asked(before)
  PROVE  Sofar(on, ss, m, m, before, q, a)
PROOF
  <1>1. Slice(ss, m, m) = << >>
    <2>1. m \in m..Len(ss)
      OBVIOUS
    <2> QED BY <2>1, PartTyped
  <1>2. Each(Slice(ss, m, m), SaysOf) = << >> /\ Each(Slice(ss, m, m), GivesOf) = << >>
    BY <1>1, EachNone
  <1>3. PICK g \in Seq(Names) : g = Asked(before)
    BY AskedTyped
  <1>4. before \o << >> = before /\ g \o << >> = g
    BY ConcatEmptySeq
  <1> QED BY <1>2, <1>3, <1>4 DEF Sofar

\* What a statement does, where it runs.
Did(on, st, q, a, q2, a2) ==
  IF on THEN Said(q2) = Said(q) \o SaysOf[st] /\ a2 = a \o GivesOf[st]
  ELSE q2 = q /\ a2 = a

\* A statement more says, and gives, its own after the others.
LEMMA OneMoreSays ==
  ASSUME NEW v \in Seq(Stmts), NEW st \in Stmts
  PROVE  /\ Each(Append(v, st), SaysOf) = Each(v, SaysOf) \o SaysOf[st]
         /\ Each(Append(v, st), GivesOf) = Each(v, GivesOf) \o GivesOf[st]
PROOF
  <1>1. SaysOf \in [Stmts -> Seq(Pieces)]
    BY WhatIsSaid
  <1>2. GivesOf \in [Stmts -> Seq(Names)]
    BY WhatIsSaid
  <1>3. Each(Append(v, st), SaysOf) = Each(v, SaysOf) \o SaysOf[st]
    BY <1>1, EachAppend
  <1>4. Each(Append(v, st), GivesOf) = Each(v, GivesOf) \o GivesOf[st]
    BY <1>2, EachAppend
  <1> QED BY <1>3, <1>4

\* The next statement runs, or is skipped.
LEMMA SofarNext ==
  ASSUME NEW on \in BOOLEAN, NEW ss \in Seq(Stmts), NEW m \in 0..Len(ss), NEW p \in m..Len(ss), p < Len(ss),
         NEW before \in Seq(Pieces), NEW q \in Seq(Items), NEW a, NEW q2, NEW a2,
         Sofar(on, ss, m, p, before, q, a), Did(on, ss[p + 1], q, a, q2, a2)
  PROVE  Sofar(on, ss, m, p + 1, before, q2, a2)
PROOF
  <1>1. CASE ~on
    BY <1>1 DEF Sofar, Did
  <1>2. CASE on
    <2>1. PICK part \in Seq(Stmts) : part = Slice(ss, m, p)
      BY PartTyped
    <2>2. PICK st \in Stmts : st = ss[p + 1]
      <3>1. p + 1 \in 1..Len(ss)
        OBVIOUS
      <3> QED BY <3>1
    <2>3. Slice(ss, m, p + 1) = Append(part, st)
      BY <2>1, <2>2, PartNext
    <2>4. PICK x \in Seq(Pieces) : x = Each(part, SaysOf)
      BY WhatIsSaid, EachTyped
    <2>5. PICK y \in Seq(Pieces) : y = SaysOf[st]
      BY WhatIsSaid
    <2>6. PICK u \in Seq(Names) : u = Each(part, GivesOf)
      BY WhatIsSaid, EachTyped
    <2>7. PICK v \in Seq(Names) : v = GivesOf[st]
      BY WhatIsSaid
    <2>8. Each(Append(part, st), SaysOf) = x \o y
      <3>1. Each(Append(part, st), SaysOf) = Each(part, SaysOf) \o SaysOf[st]
        BY OneMoreSays
      <3> QED BY <2>4, <2>5, <3>1
    <2>9. Each(Append(part, st), GivesOf) = u \o v
      <3>1. Each(Append(part, st), GivesOf) = Each(part, GivesOf) \o GivesOf[st]
        BY OneMoreSays
      <3> QED BY <2>6, <2>7, <3>1
    <2>10. PICK g \in Seq(Names) : g = Asked(before)
      BY AskedTyped
    <2>11. Associates(before, x, y) /\ Associates(g, u, v)
      BY AllAssociate
    <2>12. Said(q2) = (before \o x) \o y /\ a2 = (g \o u) \o v
      BY <1>2, <2>1, <2>2, <2>4, <2>5, <2>6, <2>7, <2>10 DEF Sofar, Did
    <2>13. Said(q2) = before \o (x \o y) /\ a2 = g \o (u \o v)
      BY <2>11, <2>12 DEF Associates
    <2> QED BY <1>2, <2>3, <2>8, <2>9, <2>10, <2>13 DEF Sofar
  <1> QED BY <1>1, <1>2

\* What the statements that ran say.
Where(on, z) == IF on THEN z ELSE << >>

\* The query and the arguments are those of m.
Told(m, q, a) == Said(q) = m /\ a = Asked(m)

\* The statements that ran said z.
LEMMA SofarEnds ==
  ASSUME NEW on \in BOOLEAN, NEW ss \in Seq(Stmts), NEW m \in 0..Len(ss), NEW p \in m..Len(ss),
         NEW before \in Seq(Pieces), NEW q, NEW a, Sofar(on, ss, m, p, before, q, a), NEW z \in Seq(Pieces),
         Each(Slice(ss, m, p), SaysOf) = z, Each(Slice(ss, m, p), GivesOf) = Asked(z),
         NEW y \in Seq(Pieces), y = Where(on, z)
  PROVE  Told(before \o y, q, a)
PROOF
  <1>1. PICK g \in Seq(Names) : g = Asked(before)
    BY AskedTyped
  <1>2. before \o << >> = before /\ g \o << >> = g
    BY ConcatEmptySeq
  <1>3. CASE ~on
    BY <1>1, <1>2, <1>3 DEF Sofar, Where, Told
  <1>4. CASE on
    <2>1. AskedApart(before, z)
      BY AskedConcat
    <2>2. before \o z \in Seq(Pieces)
      BY ConcatProperties
    <2> QED BY <1>4, <2>1, <2>2 DEF Sofar, AskedApart, Where, Told
  <1> QED BY <1>3, <1>4

\* What is known of tokens.
LEMMA KindsOfTokens ==
  ASSUME NEW t \in Tokens
  PROVE  /\ t.kind \in {"text", "if", "elseif", "else", "end", "subst"}
         /\ t.kind = "text" => t.text \in Texts
         /\ t.kind = "subst" => t.arg \in Identifiers
PROOF
  <1>1. CASE t \in {TextTok(x) : x \in Texts}
    <2>1. PICK x \in Texts : t = TextTok(x)
      BY <1>1
    <2>2. t.kind = "text" /\ t.text = x
      BY <2>1 DEF TextTok, Tok
    <2> QED BY <2>2
  <1>2. CASE t \in {SubstTok(n) : n \in Identifiers}
    <2>1. PICK n \in Identifiers : t = SubstTok(n)
      BY <1>2
    <2>2. t.kind = "subst" /\ t.arg = n
      BY <2>1 DEF SubstTok, Tok
    <2> QED BY <2>2
  <1>3. CASE t \in {IfTok(e) : e \in Exprs} \cup {ElseIfTok(e) : e \in Exprs} \cup {ElseTok, EndTok}
    <2>1. \A e : IfTok(e).kind = "if" /\ ElseIfTok(e).kind = "elseif"
      BY DEF IfTok, ElseIfTok, Tok
    <2>2. ElseTok.kind = "else" /\ EndTok.kind = "end"
      BY DEF ElseTok, EndTok, Tok
    <2> QED BY <1>3, <2>1, <2>2
  <1> QED BY <1>1, <1>2, <1>3 DEF Tokens

\* What a token means is a sequence of pieces.
LEMMA TokenMeansTyped ==
  ASSUME NEW ts \in Seq(Tokens), NEW i \in 1..Len(ts), NEW hs, NEW ns
  PROVE  MeaningOfToken(ts, i, hs, ns) \in Seq(Pieces)
PROOF
  <1>1. PICK t \in Tokens : t = ts[i]
    OBVIOUS
  <1>2. << >> \in Seq(Pieces)
    BY EmptySeq
  <1>3. ASSUME t.kind = "text" PROVE MeaningOfText(t.text) \in Seq(Pieces)
    <2>1. t.text \in Seq(Words) /\ Len(t.text) \in Nat
      BY <1>3, KindsOfTokens, WordsOfTexts, LenProperties
    <2>2. Len(t.text) \in 0..Len(t.text)
      BY <2>1
    <2> QED BY <2>1, <2>2, MeansTyped
  <1>4. ASSUME t.kind = "subst" PROVE <<Value(t.arg)>> \in Seq(Pieces)
    BY <1>4, KindsOfTokens, NamesAreNames, PiecesArePieces
  <1> QED BY <1>1, <1>2, <1>3, <1>4 DEF MeaningOfToken

\* What the first i tokens mean.
Meant(ts, hs, ns, i) == Joined([j \in 1..Len(ts) |-> MeaningOfToken(ts, j, hs, ns)], i)

\* The meaning of the first i tokens, token by token; all of them are the
\* template.
LEMMA MeantTyped ==
  ASSUME NEW ts \in Seq(Tokens), NEW i \in 0..Len(ts), NEW hs, NEW ns
  PROVE  /\ Meant(ts, hs, ns, i) \in Seq(Pieces) /\ Meant(ts, hs, ns, 0) = << >>
         /\ i < Len(ts) =>
              Meant(ts, hs, ns, i + 1) = Meant(ts, hs, ns, i) \o MeaningOfToken(ts, i + 1, hs, ns)
         /\ Meant(ts, hs, ns, Len(ts)) = Meaning(ts, hs, ns)
PROOF
  <1> DEFINE f == [j \in 1..Len(ts) |-> MeaningOfToken(ts, j, hs, ns)]
  <1>0. Len(ts) \in Nat /\ i \in Nat /\ DOMAIN ts = 1..Len(ts)
    BY LenProperties
  <1>1. \A j \in 1..Len(ts) : f[j] \in Seq(Pieces)
    BY TokenMeansTyped
  <1>2. \A j \in 1..Len(ts) : f[j] = MeaningOfToken(ts, j, hs, ns)
    OBVIOUS
  <1>3. f = [j \in 1..Len(ts) |-> f[j]]
    OBVIOUS
  <1>4. f = [j \in DOMAIN ts |-> MeaningOfToken(ts, j, hs, ns)]
    BY <1>0
  <1>5. Meant(ts, hs, ns, i) = Joined(f, i) /\ Meant(ts, hs, ns, 0) = Joined(f, 0)
        /\ Meant(ts, hs, ns, i + 1) = Joined(f, i + 1) /\ Meant(ts, hs, ns, Len(ts)) = Joined(f, Len(ts))
    BY DEF Meant
  <1> HIDE DEF f
  <1>6. Joined(f, i) \in Seq(Pieces)
    <2>1. \A j \in 1..i : f[j] \in Seq(Pieces)
      BY <1>0, <1>1
    <2> QED BY <1>0, <2>1, JoinedTyped
  <1>7. Joined(f, 0) = << >>
    BY JoinedNone
  <1>8. ASSUME i < Len(ts) PROVE Joined(f, i + 1) = Joined(f, i) \o f[i + 1] /\ i + 1 \in 1..Len(ts)
    <2>1. \A j \in 1..i + 1 : f[j] \in Seq(Pieces)
      BY <1>0, <1>1, <1>8
    <2> QED BY <1>0, <1>8, <2>1, JoinedNext
  <1>9. Joined(f, Len(ts)) = Meaning(ts, hs, ns)
    BY <1>3, <1>4 DEF Joined, Meaning
  <1> QED BY <1>2, <1>5, <1>6, <1>7, <1>8, <1>9

\* After p statements i tokens are done; those of the next one are under way.
At(e, i, ts, ss, hs, ns, p, bs, q, a) ==
  /\ i \in 0..Len(ts) /\ e[i] <= p /\ (i < Len(ts) => p < e[i + 1])
  /\ BlocksAre(ts, i, hs, bs)
  /\ Sofar(AllOn(bs), ss, e[i], p, Meant(ts, hs, ns, i), q, a)

\* The statements end with those of the last token, or one more.
Ends(e, ts, ss, asks) ==
  IF asks THEN Len(ss) = e[Len(ts)] + 1 /\ ss[Len(ss)] = Stmt("write", Clause)
  ELSE Len(ss) = e[Len(ts)]

\* Nothing has run.
LEMMA AtBegins ==
  ASSUME NEW ts \in Seq(Tokens), NEW ss \in Seq(Stmts), NEW hs, NEW ns, NEW e, Codes(e, Len(ts), ts, ss)
  PROVE  At(e, 0, ts, ss, hs, ns, 0, << >>, << >>, << >>)
PROOF
  <1>1. Len(ts) \in Nat /\ Len(ss) \in Nat /\ 0 \in 0..Len(ts) /\ 0 \in 0..Len(ss)
    BY LenProperties
  <1>2. e[0] = 0
    BY DEF Codes
  <1>3. ASSUME 0 < Len(ts) PROVE 0 < e[0 + 1]
    <2>1. 1 \in 1..Len(ts) /\ 1 - 1 = 0 /\ 0 + 1 = 1
      BY <1>1, <1>3
    <2>2. e[1 - 1] < e[1]
      BY <2>1 DEF Codes
    <2> QED BY <1>2, <2>1, <2>2
  <1>4. BlocksAre(ts, 0, hs, << >>)
    <2>1. Len(<< >>) = 0 /\ Depth(ts, 0) = 0 /\ 1..0 = {}
      BY DepthNext
    <2> QED BY <2>1 DEF BlocksAre
  <1>5. PICK before \in Seq(Pieces) : before = Meant(ts, hs, ns, 0) /\ before = << >>
    BY <1>1, MeantTyped
  <1>6. Said(<< >>) = before /\ << >> = Asked(before)
    BY <1>5, SaidNone, AskedNone
  <1>7. Sofar(AllOn(<< >>), ss, 0, 0, before, << >>, << >>)
    <2>1. AllOn(<< >>) \in BOOLEAN
      BY DEF AllOn
    <2> QED BY <1>1, <1>6, <2>1, SofarBegins
  <1> QED BY <1>1, <1>2, <1>3, <1>4, <1>5, <1>7 DEF At

\* What the next statement is.
LEMMA NextStatement ==
  ASSUME NEW ts \in Seq(Tokens), NEW ss \in Seq(Stmts), NEW e, Codes(e, Len(ts), ts, ss), NEW asks,
         Ends(e, ts, ss, asks), NEW i \in 0..Len(ts), NEW p \in Nat, e[i] <= p, i < Len(ts) => p < e[i + 1],
         p < Len(ss)
  PROVE  \/ i < Len(ts) /\ ts[i + 1].kind = "text" /\ ss[p + 1].op \in TextOps
         \/ i < Len(ts) /\ ts[i + 1].kind # "text" /\ p = e[i] /\ e[i + 1] = p + 1 /\ ss[p + 1] = LineOf(ts[i + 1])
         \/ i = Len(ts) /\ ss[p + 1] = Stmt("write", Clause)
PROOF
  <1>1. Len(ts) \in Nat /\ Len(ss) \in Nat /\ e[i] \in 0..Len(ss)
    BY LenProperties DEF Codes
  <1>2. CASE i < Len(ts)
    <2>1. i + 1 \in 1..Len(ts) /\ i + 1 \in 0..Len(ts) /\ (i + 1) - 1 = i
      BY <1>1, <1>2
    <2>2. e[i + 1] \in 0..Len(ss) /\ CodeOf(ts[i + 1], ss, e[i], e[i + 1])
      BY <2>1 DEF Codes
    <2>3. p + 1 \in e[i] + 1..e[i + 1]
      BY <1>1, <1>2, <2>2
    <2>4. CASE ts[i + 1].kind = "text"
      BY <1>2, <2>2, <2>3, <2>4 DEF CodeOf
    <2>5. CASE ts[i + 1].kind # "text"
      <3>1. e[i + 1] = e[i] + 1 /\ ss[e[i + 1]] = LineOf(ts[i + 1])
        BY <2>2, <2>5 DEF CodeOf
      <3>2. p = e[i] /\ e[i + 1] = p + 1
        BY <1>1, <1>2, <2>2, <3>1
      <3> QED BY <1>2, <2>5, <3>1, <3>2
    <2> QED BY <2>4, <2>5
  <1>3. CASE i = Len(ts)
    <2>1. asks
      BY <1>1, <1>3 DEF Ends
    <2>2. p + 1 = Len(ss)
      BY <1>1, <1>3, <2>1 DEF Ends
    <2> QED BY <1>3, <2>1, <2>2 DEF Ends
  <1> QED BY <1>1, <1>2, <1>3

\* What the invariants of a run say of the statements of a text.
LEMMA CodesAre ==
  ASSUME NEW ts \in Seq(Tokens), NEW ss \in Seq(Stmts), NEW e, Codes(e, Len(ts), ts, ss),
         NEW i \in Nat, i < Len(ts)
  PROVE  /\ e[i] \in 0..Len(ss) /\ e[i + 1] \in 0..Len(ss) /\ e[i] < e[i + 1]
         /\ CodeOf(ts[i + 1], ss, e[i], e[i + 1])
PROOF
  <1>1. Len(ts) \in Nat
    BY LenProperties
  <1>2. i \in 0..Len(ts) /\ i + 1 \in 0..Len(ts) /\ i + 1 \in 1..Len(ts) /\ (i + 1) - 1 = i
    BY <1>1
  <1>3. e[i] \in 0..Len(ss) /\ e[i + 1] \in 0..Len(ss)
    BY <1>2 DEF Codes
  <1>4. e[(i + 1) - 1] < e[i + 1] /\ CodeOf(ts[i + 1], ss, e[(i + 1) - 1], e[i + 1])
    BY <1>2 DEF Codes
  <1> QED BY <1>2, <1>3, <1>4

\* All statements of token i + 1 ran, or were skipped: the query says what the
\* first i + 1 tokens mean.
LEMMA TokenEnds ==
  ASSUME NEW ts \in Seq(Tokens), NEW ss \in Seq(Stmts), NEW hs, NEW ns, NEW e, Codes(e, Len(ts), ts, ss),
         NEW i \in Nat, i < Len(ts), NEW bs \in Seq(States), BlocksAre(ts, i + 1, hs, bs),
         NEW q, NEW a, Said(q) = Meant(ts, hs, ns, i + 1), a = Asked(Meant(ts, hs, ns, i + 1))
  PROVE  At(e, i + 1, ts, ss, hs, ns, e[i + 1], bs, q, a)
PROOF
  <1>1. Len(ts) \in Nat /\ Len(ss) \in Nat
    BY LenProperties
  <1>2. i + 1 \in 0..Len(ts)
    BY <1>1
  <1>3. e[i + 1] \in 0..Len(ss) /\ e[i + 1] <= e[i + 1]
    BY <1>1, CodesAre
  <1>4. ASSUME i + 1 < Len(ts) PROVE e[i + 1] < e[i + 1 + 1]
    BY <1>4, <1>1, CodesAre
  <1>5. PICK before \in Seq(Pieces) : before = Meant(ts, hs, ns, i + 1)
    BY <1>2, MeantTyped
  <1>6. AllOn(bs) \in BOOLEAN
    BY DEF AllOn
  <1>7. Sofar(AllOn(bs), ss, e[i + 1], e[i + 1], before, q, a)
    BY <1>3, <1>5, <1>6, SofarBegins
  <1> QED BY <1>2, <1>3, <1>4, <1>5, <1>7 DEF At

\* A statement of a text runs, or is skipped.
LEMMA TextRuns ==
  ASSUME NEW ts \in Seq(Tokens), NEW ss \in Seq(Stmts), NEW hs, NEW ns, NEW e, Codes(e, Len(ts), ts, ss),
         NEW i, NEW p \in Nat, p < Len(ss), NEW bs \in Seq(States), NEW q \in Seq(Items), NEW a, NEW q2, NEW a2,
         At(e, i, ts, ss, hs, ns, p, bs, q, a), i < Len(ts) => ts[i + 1].kind = "text",
         Did(AllOn(bs), ss[p + 1], q, a, q2, a2)
  PROVE  \E j : At(e, j, ts, ss, hs, ns, p + 1, bs, q2, a2)
PROOF
  <1>1. Len(ts) \in Nat /\ Len(ss) \in Nat /\ i \in 0..Len(ts) /\ i \in Nat
    BY LenProperties DEF At
  <1>2. e[i] <= p /\ (i < Len(ts) => p < e[i + 1]) /\ BlocksAre(ts, i, hs, bs)
        /\ Sofar(AllOn(bs), ss, e[i], p, Meant(ts, hs, ns, i), q, a)
    BY DEF At
  <1>3. e[i] \in 0..Len(ss)
    BY <1>1 DEF Codes
  <1>4. p \in e[i]..Len(ss) /\ p + 1 \in e[i]..Len(ss) /\ e[i] <= p + 1
    BY <1>1, <1>2, <1>3
  <1>5. PICK before \in Seq(Pieces) : before = Meant(ts, hs, ns, i)
    BY <1>1, MeantTyped
  <1>6. PICK on \in BOOLEAN : on = AllOn(bs)
    BY DEF AllOn
  <1>7. Sofar(on, ss, e[i], p + 1, before, q2, a2)
    BY <1>1, <1>2, <1>3, <1>4, <1>5, <1>6, SofarNext
  <1>8. CASE i = Len(ts) \/ p + 1 < e[i + 1]
    <2>1. At(e, i, ts, ss, hs, ns, p + 1, bs, q2, a2)
      BY <1>1, <1>2, <1>4, <1>5, <1>6, <1>7, <1>8 DEF At
    <2> QED BY <2>1
  <1>9. CASE i # Len(ts) /\ ~(p + 1 < e[i + 1])
    <2>1. i < Len(ts) /\ i + 1 \in 1..Len(ts) /\ i + 1 \in 0..Len(ts)
      BY <1>1, <1>9
    <2>2. e[i + 1] \in 0..Len(ss) /\ CodeOf(ts[i + 1], ss, e[i], e[i + 1])
      BY <1>1, <2>1, CodesAre
    <2>3. p + 1 = e[i + 1]
      BY <1>2, <1>9, <2>1, <2>2
    <2>4. PICK t \in Tokens : t = ts[i + 1]
      BY <2>1, ElementOfSeq
    <2>5. t.kind = "text" /\ t.text \in Seq(Words)
      BY <2>1, <2>4, KindsOfTokens, WordsOfTexts
    <2>6. PICK z \in Seq(Pieces) : z = MeaningOfText(t.text)
      <3>1. Len(t.text) \in Nat
        BY <2>5, LenProperties
      <3>2. Len(t.text) \in 0..Len(t.text)
        BY <3>1
      <3>3. MeaningOfText(t.text) \in Seq(Pieces)
        BY <2>5, <3>2, MeansTyped
      <3> QED BY <3>3
    <2>7. Each(Slice(ss, e[i], p + 1), SaysOf) = z /\ Each(Slice(ss, e[i], p + 1), GivesOf) = Asked(z)
      BY <2>2, <2>3, <2>4, <2>5, <2>6 DEF CodeOf
    <2>8. BlocksAre(ts, i + 1, hs, bs)
      BY <1>1, <1>2, <2>4, <2>5, BlocksStay
    <2>9. on <=> Active(ts, i + 1, hs)
      BY <1>6, <2>8, RunningIsActive
    <2>10. PICK y \in Seq(Pieces) : y = Where(on, z)
      <3>1. Where(on, z) \in Seq(Pieces)
        BY EmptySeq DEF Where
      <3> QED BY <3>1
    <2>11. Meant(ts, hs, ns, i + 1) = before \o y
      <3>1. MeaningOfToken(ts, i + 1, hs, ns) = y
        BY <2>4, <2>5, <2>6, <2>9, <2>10 DEF MeaningOfToken, Where
      <3> QED BY <1>1, <1>5, <2>1, <3>1, MeantTyped
    <2>12. Said(q2) = Meant(ts, hs, ns, i + 1) /\ a2 = Asked(Meant(ts, hs, ns, i + 1))
      <3>2. PICK m \in 0..Len(ss) : m = e[i]
        BY <1>3
      <3>3. PICK r \in m..Len(ss) : r = p + 1
        BY <1>4, <3>2
      <3>4. Sofar(on, ss, m, r, before, q2, a2)
        BY <1>7, <3>2, <3>3
      <3>5. Each(Slice(ss, m, r), SaysOf) = z /\ Each(Slice(ss, m, r), GivesOf) = Asked(z)
        BY <2>7, <3>2, <3>3
      <3>6. Told(before \o y, q2, a2)
        BY <2>10, <3>4, <3>5, SofarEnds
      <3> QED BY <2>11, <3>6 DEF Told
    <2>13. At(e, i + 1, ts, ss, hs, ns, e[i + 1], bs, q2, a2)
      BY <1>1, <2>1, <2>8, <2>12, TokenEnds
    <2> QED BY <2>3, <2>13
  <1> QED BY <1>8, <1>9

\* The statement of another token runs, or is skipped.
LEMMA LineRuns ==
  ASSUME NEW ts \in Seq(Tokens), NEW ss \in Seq(Stmts), NEW hs, NEW ns, NEW e, Codes(e, Len(ts), ts, ss),
         NEW i, NEW p \in Nat, NEW bs, NEW bs2 \in Seq(States), NEW q \in Seq(Items), NEW a, NEW q2, NEW a2,
         At(e, i, ts, ss, hs, ns, p, bs, q, a), i < Len(ts), p = e[i], e[i + 1] = p + 1,
         BlocksAre(ts, i + 1, hs, bs2), NEW z \in Seq(Pieces), z = MeaningOfToken(ts, i + 1, hs, ns),
         Said(q2) = Said(q) \o z, a2 = a \o Asked(z)
  PROVE  At(e, i + 1, ts, ss, hs, ns, p + 1, bs2, q2, a2)
PROOF
  <1>1. Len(ts) \in Nat /\ Len(ss) \in Nat /\ i \in 0..Len(ts) /\ i \in Nat
    BY LenProperties DEF At
  <1>2. Sofar(AllOn(bs), ss, p, p, Meant(ts, hs, ns, i), q, a)
    BY DEF At
  <1>3. PICK before \in Seq(Pieces) : before = Meant(ts, hs, ns, i)
    BY <1>1, MeantTyped
  <1>4. p \in 0..Len(ss)
    BY <1>1, CodesAre
  <1>5. Slice(ss, p, p) = << >>
    <2>1. p \in p..Len(ss)
      BY <1>1, <1>4
    <2> QED BY <1>4, <2>1, PartTyped
  <1>6. Said(q) = before /\ a = Asked(before)
    <2>1. Each(<< >>, SaysOf) = << >> /\ Each(<< >>, GivesOf) = << >>
      BY EachNone
    <2>2. Said(q) = before \o << >> /\ a = Asked(before) \o << >>
      BY <1>2, <1>3, <1>5, <2>1 DEF Sofar
    <2>3. before \o << >> = before
      BY ConcatEmptySeq
    <2>4. PICK w \in Seq(Names) : w = Asked(before)
      BY AskedTyped
    <2>5. w \o << >> = w
      BY ConcatEmptySeq
    <2> QED BY <2>2, <2>3, <2>4, <2>5
  <1>7. Meant(ts, hs, ns, i + 1) = before \o z
    BY <1>1, <1>3, MeantTyped
  <1>8. Said(q2) = before \o z /\ a2 = Asked(before) \o Asked(z)
    BY <1>6
  <1>9. AskedApart(before, z)
    BY AskedConcat
  <1>10. a2 = Asked(before \o z)
    BY <1>8, <1>9 DEF AskedApart
  <1>11. Said(q2) = Meant(ts, hs, ns, i + 1) /\ a2 = Asked(Meant(ts, hs, ns, i + 1))
    BY <1>7, <1>8, <1>10
  <1>12. At(e, i + 1, ts, ss, hs, ns, e[i + 1], bs2, q2, a2)
    BY <1>1, <1>11, TokenEnds
  <1> QED BY <1>12

\* The tokens that the first i statements stand for, and what they have written.
Runs(e, i) ==
  /\ Codes(e, Len(seen), seen, body) /\ Ends(e, seen, body, AsksForId)
  /\ At(e, i, seen, body, holds, nils, at - 1, blocks, query, args)

\* The statements that ran wrote what the tokens they stand for mean.
RInv ==
  /\ at = 0 => blocks = << >> /\ query = << >> /\ args = << >>
  /\ at # 0 => outcome = "compiled" /\ \E e, i : Runs(e, i)

\* Off Postgres no placeholder has a number.
Plain == dialect # "postgres" => \A i \in DOMAIN query : query[i].kind = "mark" => query[i].pos = 0

\* A step that moves the body's run on keeps the rest of what is known.
LEMMA RunMoves ==
  ASSUME UNCHANGED compilerVars, at' # 0, outcome = "compiled", NEW e, NEW i,
         Codes(e, Len(seen), seen, body), Ends(e, seen, body, AsksForId),
         At(e, i, seen, body, holds', nils', at' - 1, blocks', query', args')
  PROVE  RInv'
PROOF
  <1>1. seen' = seen /\ body' = body /\ outcome' = outcome /\ AsksForId' = AsksForId
    BY DEF compilerVars, AsksForId, ReadsIdBack, Mentions
  <1>2. Codes(e, Len(seen'), seen', body') /\ Ends(e, seen', body', AsksForId')
        /\ At(e, i, seen', body', holds', nils', at' - 1, blocks', query', args')
    BY <1>1
  <1>3. Runs(e, i)'
    BY <1>2 DEF Runs
  <1>4. at' # 0 => \E f, j : Runs(f, j)'
    BY <1>3
  <1> QED BY <1>1, <1>4 DEF RInv

\* What is known when a statement runs.
LEMMA RunTypes ==
  ASSUME BInv, NEW op, Next1(op)
  PROVE  /\ seen \in Seq(Tokens) /\ body \in Seq(Stmts) /\ blocks \in Seq(States)
         /\ query \in Seq(Items) /\ args \in Seq(Names) /\ nils \subseteq PtrParams
         /\ at \in 1..Len(body) /\ at - 1 \in Nat /\ at - 1 < Len(body) /\ (at - 1) + 1 = at
         /\ Len(body) \in Nat /\ Len(seen) \in Nat
         /\ body[at] \in Stmts /\ body[at] = Stmt(op, This) /\ This \in Names /\ op \in Ops
         /\ at' = at + 1 /\ at' # 0 /\ at' - 1 = at /\ holds' = holds /\ nils' = nils /\ UNCHANGED compilerVars
PROOF
  <1>1. seen \in Seq(Tokens) /\ body \in Seq(Stmts) /\ blocks \in Seq(States)
        /\ query \in Seq(Items) /\ args \in Seq(Names) /\ nils \subseteq PtrParams
    BY DEF BInv, BodyTypeOK, CompilerTypeOK, States
  <1>2. at \in DOMAIN body /\ body[at].op = op /\ at' = at + 1 /\ UNCHANGED compilerVars /\ holds' = holds /\ nils' = nils
    BY DEF Next1
  <1>3. Len(body) \in Nat /\ Len(seen) \in Nat /\ at \in 1..Len(body)
    BY <1>1, <1>2, LenProperties
  <1>4. at - 1 \in Nat /\ at - 1 < Len(body) /\ (at - 1) + 1 = at /\ at' # 0 /\ at' - 1 = at
    BY <1>2, <1>3
  <1>5. PICK st \in Stmts : st = body[at]
    BY <1>1, <1>3, ElementOfSeq
  <1>6. st.op \in Ops /\ st.of \in Names /\ st = Stmt(st.op, st.of)
    BY <1>5 DEF Stmts, Stmt
  <1>7. This = st.of /\ st.op = op
    BY <1>2, <1>5 DEF This
  <1> QED BY <1>1, <1>2, <1>3, <1>4, <1>5, <1>6, <1>7

\* The statements of other tokens are of other kinds than those of texts.
LEMMA LinesAreNoText ==
  ASSUME NEW t \in Tokens, t.kind # "text"
  PROVE  LET st == LineOf(t)
         IN  /\ st.op \notin TextOps /\ st.of = t.arg
             /\ st.op = "subst" => t.kind = "subst" /\ t.arg \notin PtrParams
             /\ st.op = "substptr" => t.kind = "subst" /\ t.arg \in PtrParams
             /\ st.op \in {"if", "elseif", "else", "end"} => t.kind = st.op
PROOF
  <1>1. t.kind \in {"if", "elseif", "else", "end", "subst"}
    BY KindsOfTokens
  <1>2. LineOf(t).op = (IF t.kind = "subst" THEN (IF t.arg \in PtrParams THEN "substptr" ELSE "subst") ELSE t.kind)
        /\ LineOf(t).of = t.arg
    BY DEF LineOf, Stmt
  <1> QED BY <1>1, <1>2 DEF TextOps

\* Statements of a text, of the compiler's own clause included.
LEMMA TextStep ==
  ASSUME BInv, RInv, NEW op \in TextOps, Next1(op), blocks' = blocks,
         Did(AllOn(blocks), body[at], query, args, query', args')
  PROVE  RInv'
PROOF
  <1>1. PICK e, i : Runs(e, i) /\ outcome = "compiled"
    BY RunTypes DEF RInv
  <1>2. PICK p \in Nat : p = at - 1 /\ p + 1 = at /\ p < Len(body)
    BY RunTypes
  <1>3. seen \in Seq(Tokens) /\ body \in Seq(Stmts) /\ blocks \in Seq(States) /\ query \in Seq(Items)
        /\ holds' = holds /\ nils' = nils /\ at' - 1 = p + 1 /\ at' # 0 /\ UNCHANGED compilerVars
    BY <1>2, RunTypes
  <1>4. Codes(e, Len(seen), seen, body) /\ Ends(e, seen, body, AsksForId)
        /\ At(e, i, seen, body, holds, nils, p, blocks, query, args)
    BY <1>1, <1>2 DEF Runs
  <1>5. i \in 0..Len(seen) /\ e[i] <= p /\ (i < Len(seen) => p < e[i + 1]) /\ i \in Nat
    BY <1>3, <1>4, LenProperties DEF At
  <1>6. ASSUME i < Len(seen) PROVE seen[i + 1].kind = "text"
    <2>1. \/ seen[i + 1].kind = "text"
          \/ seen[i + 1].kind # "text" /\ body[p + 1] = LineOf(seen[i + 1])
      BY <1>2, <1>3, <1>4, <1>5, <1>6, NextStatement
    <2>2. i + 1 \in 1..Len(seen)
      BY <1>3, <1>5, <1>6, LenProperties
    <2>3. PICK t \in Tokens : t = seen[i + 1]
      BY <1>3, <2>2, ElementOfSeq
    <2>4. body[p + 1].op = op
      BY <1>2 DEF Next1
    <2> QED BY <2>1, <2>3, <2>4, LinesAreNoText
  <1>7. Did(AllOn(blocks), body[p + 1], query, args, query', args')
    BY <1>2
  <1>8. PICK j : At(e, j, seen, body, holds, nils, p + 1, blocks, query', args')
    BY <1>2, <1>3, <1>4, <1>6, <1>7, TextRuns
  <1> QED BY <1>1, <1>3, <1>4, <1>8, RunMoves

\* Another statement: the token it stands for.
Line(e, i, t) ==
  /\ Runs(e, i) /\ i \in Nat /\ i < Len(seen) /\ t = seen[i + 1] /\ t.kind # "text"
  /\ at - 1 = e[i] /\ e[i + 1] = at /\ BlocksAre(seen, i, holds, blocks)
  /\ body[at] = LineOf(t)

\* A statement that is of no text stands for a token of its own.
LEMMA LineRead ==
  ASSUME BInv, RInv, NEW op, op \notin TextOps, Next1(op)
  PROVE  \E e, i : \E t \in Tokens : Line(e, i, t)
PROOF
  <1>1. PICK e, i : Runs(e, i)
    BY RunTypes DEF RInv
  <1>2. PICK p \in Nat : p = at - 1 /\ p + 1 = at /\ p < Len(body)
    BY RunTypes
  <1>3. seen \in Seq(Tokens) /\ body \in Seq(Stmts) /\ body[at].op = op /\ Len(seen) \in Nat
    BY RunTypes DEF Next1
  <1>4. Codes(e, Len(seen), seen, body) /\ Ends(e, seen, body, AsksForId)
        /\ At(e, i, seen, body, holds, nils, p, blocks, query, args)
    BY <1>1, <1>2 DEF Runs
  <1>5. i \in 0..Len(seen) /\ e[i] <= p /\ (i < Len(seen) => p < e[i + 1]) /\ i \in Nat
        /\ BlocksAre(seen, i, holds, blocks)
    BY <1>3, <1>4 DEF At
  <1>6. Stmt("write", Clause).op = "write"
    BY DEF Stmt
  <1>7. i < Len(seen) /\ seen[i + 1].kind # "text" /\ p = e[i] /\ e[i + 1] = p + 1 /\ body[p + 1] = LineOf(seen[i + 1])
    <2>1. \/ i < Len(seen) /\ seen[i + 1].kind = "text" /\ body[p + 1].op \in TextOps
          \/ i < Len(seen) /\ seen[i + 1].kind # "text" /\ p = e[i] /\ e[i + 1] = p + 1 /\ body[p + 1] = LineOf(seen[i + 1])
          \/ i = Len(seen) /\ body[p + 1] = Stmt("write", Clause)
      BY <1>2, <1>3, <1>4, <1>5, NextStatement
    <2> QED BY <1>2, <1>3, <1>6, <2>1 DEF TextOps
  <1>8. i + 1 \in 1..Len(seen)
    BY <1>3, <1>5, <1>7
  <1>9. PICK t \in Tokens : t = seen[i + 1]
    BY <1>3, <1>8, ElementOfSeq
  <1>10. Line(e, i, t)
    BY <1>1, <1>2, <1>5, <1>7, <1>9 DEF Line
  <1> QED BY <1>10

\* It runs, and writes what its token means.
LEMMA LineStep ==
  ASSUME BInv, RInv, NEW op, Next1(op), NEW e, NEW i, NEW t \in Tokens, Line(e, i, t),
         blocks' \in Seq(States), BlocksAre(seen, i + 1, holds, blocks'),
         NEW z \in Seq(Pieces), z = MeaningOfToken(seen, i + 1, holds, nils),
         Said(query') = Said(query) \o z, args' = args \o Asked(z)
  PROVE  RInv'
PROOF
  <1>1. PICK p \in Nat : p = at - 1 /\ p + 1 = at
    BY RunTypes
  <1>2. seen \in Seq(Tokens) /\ body \in Seq(Stmts) /\ query \in Seq(Items)
        /\ holds' = holds /\ nils' = nils /\ at' - 1 = p + 1 /\ at' # 0 /\ UNCHANGED compilerVars
        /\ outcome = "compiled"
    BY <1>1, RunTypes DEF RInv
  <1>3. Codes(e, Len(seen), seen, body) /\ Ends(e, seen, body, AsksForId)
        /\ At(e, i, seen, body, holds, nils, p, blocks, query, args)
        /\ i < Len(seen) /\ p = e[i] /\ e[i + 1] = p + 1
    BY <1>1 DEF Line, Runs
  <1>4. PICK bs2 \in Seq(States) : bs2 = blocks'
    OBVIOUS
  <1>5. At(e, i + 1, seen, body, holds, nils, p + 1, bs2, query', args')
    BY <1>1, <1>2, <1>3, <1>4, LineRuns
  <1> QED BY <1>2, <1>3, <1>4, <1>5, RunMoves

\* The same, of a token that means nothing here.
LEMMA SilentStep ==
  ASSUME BInv, RInv, NEW op, Next1(op), NEW e, NEW i, NEW t \in Tokens, Line(e, i, t),
         blocks' \in Seq(States), BlocksAre(seen, i + 1, holds, blocks'),
         MeaningOfToken(seen, i + 1, holds, nils) = << >>, query' = query, args' = args
  PROVE  RInv'
PROOF
  <1>1. PICK z \in Seq(Pieces) : z = << >>
    <2>1. << >> \in Seq(Pieces)
      BY EmptySeq
    <2> QED BY <2>1
  <1>2. query \in Seq(Items) /\ args \in Seq(Names)
    BY RunTypes
  <1>3. Asked(z) = << >> /\ args \o << >> = args
    BY <1>1, <1>2, AskedNone, ConcatEmptySeq
  <1>4. PICK w \in Seq(Pieces) : w = Said(query)
    BY <1>2, SaidTyped
  <1>5. w \o << >> = w
    BY ConcatEmptySeq
  <1>6. Said(query') = Said(query) \o z /\ args' = args \o Asked(z)
    BY <1>1, <1>3, <1>4, <1>5
  <1>7. z = MeaningOfToken(seen, i + 1, holds, nils)
    BY <1>1
  <1> QED BY <1>6, <1>7, LineStep

\* What is appended to the query is said after what it says already.
LEMMA OneItemMore ==
  ASSUME BInv, NEW op, Next1(op), NEW kind \in {"word", "value", "mark"}, NEW pos \in Nat,
         query' = Append(query, Item(kind, This, pos))
  PROVE  /\ kind = "word" => Said(query') = Said(query) \o <<Word(This)>>
         /\ kind = "value" => Said(query') = Said(query) \o <<Value(This)>>
         /\ kind = "mark" => Said(query') = Said(query) \o <<Bound(This)>>
PROOF
  <1>1. query \in Seq(Items) /\ This \in Names
    BY RunTypes
  <1>2. PICK it \in Items : it = Item(kind, This, pos)
    BY <1>1, WhatItemsSay
  <1>3. Said(query') = Said(query) \o SaidOf[it]
    BY <1>1, <1>2, SaidAppend
  <1>4. /\ kind = "word" => SaidOf[it] = <<Word(This)>>
        /\ kind = "value" => SaidOf[it] = <<Value(This)>>
        /\ kind = "mark" => SaidOf[it] = <<Bound(This)>>
    BY <1>1, <1>2, WhatItemsSay
  <1> QED BY <1>3, <1>4

\* The statements of a text run.
LEMMA TextsRun ==
  ASSUME BInv, RInv, Write \/ Mark \/ Arg \/ Bind
  PROVE  RInv'
PROOF
  <1>1. Running <=> AllOn(blocks)
    BY DEF Running, AllOn
  <1>2. PICK op \in {"write", "mark", "arg", "bind"} :
           /\ Next1(op) /\ blocks' = blocks /\ Running
           /\ op = "write" => query' = Append(query, Item("word", This, 0)) /\ args' = args
           /\ op = "mark" => query' = Append(query, Item("mark", This, 0)) /\ args' = args
           /\ op = "arg" => args' = Append(args, This) /\ query' = query
           /\ op = "bind" => query' = Append(query, Item("mark", This, Len(args) + 1)) /\ args' = Append(args, This)
    BY DEF Write, Mark, Arg, Bind, Output
  <1>3. PICK of \in Names : of = This /\ body[at] = Stmt(op, of)
    BY <1>2, RunTypes
  <1>4. query \in Seq(Items) /\ args \in Seq(Names)
    BY <1>2, RunTypes
  <1>5. PICK w \in Seq(Pieces) : w = Said(query)
    BY <1>4, SaidTyped
  <1>6. w \o << >> = w /\ args \o << >> = args
    BY <1>4, ConcatEmptySeq
  <1>7. Append(args, of) = args \o <<of>>
    BY <1>4, AppendIsConcat
  <1>8. Len(args) + 1 \in Nat
    BY <1>4, LenProperties
  <1>9. Said(query') = Said(query) \o SaysOf[body[at]] /\ args' = args \o GivesOf[body[at]]
    <2>1. CASE op = "write"
      <3>1. Said(query') = Said(query) \o <<Word(of)>> /\ args' = args \o << >>
        BY <1>2, <1>3, <1>6, <2>1, OneItemMore
      <3>2. SaysOf[Stmt("write", of)] = <<Word(of)>> /\ GivesOf[Stmt("write", of)] = << >>
        BY StatementsSay
      <3>3. SaysOf[body[at]] = <<Word(of)>> /\ GivesOf[body[at]] = << >>
        BY <1>3, <2>1, <3>2
      <3> QED BY <3>1, <3>3
    <2>2. CASE op = "mark"
      <3>1. Said(query') = Said(query) \o <<Bound(of)>> /\ args' = args \o << >>
        BY <1>2, <1>3, <1>6, <2>2, OneItemMore
      <3>2. SaysOf[Stmt("mark", of)] = <<Bound(of)>> /\ GivesOf[Stmt("mark", of)] = << >>
        BY StatementsSay
      <3>3. SaysOf[body[at]] = <<Bound(of)>> /\ GivesOf[body[at]] = << >>
        BY <1>3, <2>2, <3>2
      <3> QED BY <3>1, <3>3
    <2>3. CASE op = "arg"
      <3>1. Said(query') = Said(query) \o << >> /\ args' = args \o <<of>>
        BY <1>2, <1>3, <1>5, <1>6, <1>7, <2>3
      <3>2. SaysOf[Stmt("arg", of)] = << >> /\ GivesOf[Stmt("arg", of)] = <<of>>
        BY StatementsSay
      <3>3. SaysOf[body[at]] = << >> /\ GivesOf[body[at]] = <<of>>
        BY <1>3, <2>3, <3>2
      <3> QED BY <3>1, <3>3
    <2>4. CASE op = "bind"
      <3>1. Said(query') = Said(query) \o <<Bound(of)>> /\ args' = args \o <<of>>
        BY <1>2, <1>3, <1>7, <1>8, <2>4, OneItemMore
      <3>2. SaysOf[Stmt("bind", of)] = <<Bound(of)>> /\ GivesOf[Stmt("bind", of)] = <<of>>
        BY StatementsSay
      <3>3. SaysOf[body[at]] = <<Bound(of)>> /\ GivesOf[body[at]] = <<of>>
        BY <1>3, <2>4, <3>2
      <3> QED BY <3>1, <3>3
    <2> QED BY <2>1, <2>2, <2>3, <2>4
  <1>10. Did(AllOn(blocks), body[at], query, args, query', args')
    BY <1>1, <1>2, <1>9 DEF Did
  <1>11. op \in TextOps
    BY DEF TextOps
  <1> QED BY <1>2, <1>10, <1>11, TextStep

\* What a token means, at the blocks after it.
LEMMA WhatLinesMean ==
  ASSUME BInv, NEW e, NEW i, NEW t \in Tokens, Line(e, i, t), NEW bs \in Seq(States),
         BlocksAre(seen, i + 1, holds, bs)
  PROVE  /\ t.kind # "subst" => MeaningOfToken(seen, i + 1, holds, nils) = << >>
         /\ t.kind = "subst" => MeaningOfToken(seen, i + 1, holds, nils) =
              IF AllOn(bs) /\ t.arg \notin nils THEN <<Value(t.arg)>> ELSE << >>
PROOF
  <1>1. t = seen[i + 1] /\ t.kind # "text"
    BY DEF Line
  <1>2. AllOn(bs) <=> Active(seen, i + 1, holds)
    BY RunningIsActive
  <1> QED BY <1>1, <1>2 DEF MeaningOfToken

\* Parameters are written into the query; nil ones leave nothing.
LEMMA SubstitutionsRun ==
  ASSUME BInv, RInv, Substitute \/ SubstituteUnlessNil
  PROVE  RInv'
PROOF
  <1>1. Running <=> AllOn(blocks)
    BY DEF Running, AllOn
  <1>2. PICK op \in {"subst", "substptr"} : /\ Next1(op) /\ blocks' = blocks /\ Running /\ args' = args
           /\ IF op = "substptr" /\ This \in nils THEN query' = query
              ELSE query' = Append(query, Item("value", This, 0))
    BY DEF Substitute, SubstituteUnlessNil, Output
  <1>3. op \notin TextOps
    BY DEF TextOps
  <1>4. PICK e, i : \E t \in Tokens : Line(e, i, t)
    BY <1>2, <1>3, LineRead
  <1>5. PICK t \in Tokens : Line(e, i, t)
    BY <1>4
  <1>6. /\ query \in Seq(Items) /\ args \in Seq(Names) /\ blocks \in Seq(States) /\ nils \subseteq PtrParams
        /\ This \in Names /\ body[at] = Stmt(op, This)
    BY <1>2, RunTypes
  <1>7. t.kind = "subst" /\ t.arg = This /\ (op = "subst" => t.arg \notin PtrParams)
    <2>1. Stmt(op, This).op = op /\ Stmt(op, This).of = This
      BY DEF Stmt
    <2>2. body[at] = LineOf(t) /\ t.kind # "text"
      BY <1>5 DEF Line
    <2> QED BY <1>6, <2>1, <2>2, LinesAreNoText
  <1>8. BlocksAre(seen, i + 1, holds, blocks)
    <2>1. i \in Nat /\ t = seen[i + 1] /\ BlocksAre(seen, i, holds, blocks)
      BY <1>5 DEF Line
    <2> QED BY <1>6, <1>7, <2>1, BlocksStay
  <1>9. MeaningOfToken(seen, i + 1, holds, nils) = IF t.arg \notin nils THEN <<Value(t.arg)>> ELSE << >>
    BY <1>1, <1>2, <1>5, <1>6, <1>7, <1>8, WhatLinesMean
  <1>10. CASE This \in nils
    <2>1. op = "substptr"
      BY <1>6, <1>7, <1>10
    <2>2. query' = query /\ MeaningOfToken(seen, i + 1, holds, nils) = << >>
      BY <1>2, <1>7, <1>9, <1>10, <2>1
    <2>3. blocks' \in Seq(States) /\ BlocksAre(seen, i + 1, holds, blocks')
      BY <1>2, <1>6, <1>8
    <2> QED BY <1>2, <1>5, <2>2, <2>3, SilentStep
  <1>11. CASE This \notin nils
    <2>1. PICK z \in Seq(Pieces) : z = <<Value(This)>>
      BY <1>6, PiecesArePieces
    <2>2. Said(query') = Said(query) \o z
      <3>1. query' = Append(query, Item("value", This, 0))
        BY <1>2, <1>11
      <3> QED BY <1>2, <2>1, <3>1, OneItemMore
    <2>3. Asked(z) = << >> /\ args \o << >> = args
      BY <1>6, <2>1, AskedOfOne, ConcatEmptySeq
    <2>4. z = MeaningOfToken(seen, i + 1, holds, nils)
      BY <1>7, <1>9, <1>11, <2>1
    <2>5. blocks' \in Seq(States) /\ BlocksAre(seen, i + 1, holds, blocks')
      BY <1>2, <1>6, <1>8
    <2>6. args' = args \o Asked(z)
      BY <1>2, <2>3
    <2> QED BY <1>2, <1>5, <2>2, <2>4, <2>5, <2>6, LineStep
  <1> QED BY <1>10, <1>11

\* Statements in branches that are not taken are skipped.
LEMMA SkipsRun ==
  ASSUME BInv, RInv, NEW op \in Ops, Skip(op)
  PROVE  RInv'
PROOF
  <1>1. op \notin {"if", "elseif", "else", "end"} /\ ~AllOn(blocks) /\ Next1(op) /\ UNCHANGED <<blocks, query, args>>
    BY DEF Skip, Running, AllOn
  <1>2. CASE op \in TextOps
    <2>1. Did(AllOn(blocks), body[at], query, args, query', args')
      BY <1>1 DEF Did
    <2> QED BY <1>1, <1>2, <2>1, TextStep
  <1>3. CASE op \notin TextOps
    <2>1. op \in {"subst", "substptr"}
      BY <1>1, <1>3 DEF Ops, TextOps
    <2>2. PICK e, i : \E t \in Tokens : Line(e, i, t)
      BY <1>1, <1>3, LineRead
    <2>3. PICK t \in Tokens : Line(e, i, t)
      BY <2>2
    <2>4. blocks \in Seq(States) /\ body[at] = Stmt(op, This)
      BY <1>1, RunTypes
    <2>5. t.kind = "subst"
      <3>1. Stmt(op, This).op = op
        BY DEF Stmt
      <3>2. body[at] = LineOf(t) /\ t.kind # "text"
        BY <2>3 DEF Line
      <3> QED BY <2>1, <2>4, <3>1, <3>2, LinesAreNoText
    <2>6. BlocksAre(seen, i + 1, holds, blocks)
      <3>1. i \in Nat /\ t = seen[i + 1] /\ BlocksAre(seen, i, holds, blocks)
        BY <2>3 DEF Line
      <3> QED BY <2>4, <2>5, <3>1, BlocksStay
    <2>7. MeaningOfToken(seen, i + 1, holds, nils) = << >>
      BY <1>1, <2>3, <2>4, <2>5, <2>6, WhatLinesMean
    <2>8. blocks' \in Seq(States) /\ BlocksAre(seen, i + 1, holds, blocks') /\ query' = query /\ args' = args
      BY <1>1, <2>4, <2>6
    <2> QED BY <1>1, <2>3, <2>7, <2>8, SilentStep
  <1> QED BY <1>2, <1>3

\* The lines of an if statement, and the tokens they stand for.
LEMMA IfLineRead ==
  ASSUME BInv, RInv, NEW op \in {"if", "elseif", "else", "end"}, Next1(op), NEW e, NEW i, NEW t \in Tokens,
         Line(e, i, t)
  PROVE  /\ t.kind = op /\ t.arg = This /\ t = seen[i + 1] /\ i \in Nat /\ BlocksAre(seen, i, holds, blocks)
         /\ MeaningOfToken(seen, i + 1, holds, nils) = << >>
PROOF
  <1>1. body[at] = LineOf(t) /\ t.kind # "text" /\ t = seen[i + 1] /\ i \in Nat /\ BlocksAre(seen, i, holds, blocks)
    BY DEF Line
  <1>2. body[at] = Stmt(op, This)
    BY RunTypes
  <1>3. Stmt(op, This).op = op /\ Stmt(op, This).of = This
    BY DEF Stmt
  <1>4. t.kind = op /\ t.arg = This
    BY <1>1, <1>2, <1>3, LinesAreNoText
  <1>5. MeaningOfToken(seen, i + 1, holds, nils) = << >>
    BY <1>1, <1>4 DEF MeaningOfToken
  <1> QED BY <1>1, <1>4, <1>5

\* An if statement begins.
LEMMA IfRuns ==
  ASSUME BInv, RInv, IfBegins
  PROVE  RInv'
PROOF
  <1>1. PICK after \in States :
           /\ after = (IF ~AllOn(blocks) THEN "off" ELSE IF This \in holds THEN "on" ELSE "seek")
           /\ Next1("if") /\ blocks' = Append(blocks, after) /\ query' = query /\ args' = args
    BY DEF IfBegins, Running, AllOn, States
  <1>2. "if" \notin TextOps
    BY DEF TextOps
  <1>3. PICK e, i : \E t \in Tokens : Line(e, i, t)
    BY <1>1, <1>2, LineRead
  <1>4. PICK t \in Tokens : Line(e, i, t)
    BY <1>3
  <1>5. blocks \in Seq(States)
    BY <1>1, RunTypes
  <1>6. blocks' \in Seq(States)
    BY <1>1, <1>5, AppendProperties
  <1>7. /\ t.kind = "if" /\ t.arg = This /\ t = seen[i + 1] /\ i \in Nat /\ BlocksAre(seen, i, holds, blocks)
        /\ MeaningOfToken(seen, i + 1, holds, nils) = << >>
    BY <1>1, <1>4, IfLineRead
  <1>8. after = (IF ~AllOn(blocks) THEN "off" ELSE IF seen[i + 1].arg \in holds THEN "on" ELSE "seek")
    BY <1>1, <1>7
  <1>9. BlocksAre(seen, i + 1, holds, Append(blocks, after))
    BY <1>5, <1>7, <1>8, BlocksOpen
  <1>10. BlocksAre(seen, i + 1, holds, blocks')
    BY <1>1, <1>9
  <1> QED BY <1>1, <1>4, <1>6, <1>7, <1>10, SilentStep

\* A well-formed template has a block around every else, else if and end.
LEMMA InsideBlock ==
  ASSUME NEW ts \in Seq(Tokens), WellFormed(ts), NEW i \in Nat, i < Len(ts), NEW hs, NEW bs \in Seq(States),
         BlocksAre(ts, i, hs, bs), ts[i + 1].kind \in {"elseif", "else", "end"}
  PROVE  bs # << >>
PROOF
  <1>1. Len(ts) \in Nat /\ DOMAIN ts = 1..Len(ts)
    BY LenProperties
  <1>2. i + 1 \in DOMAIN ts
    BY <1>1
  <1>3. /\ Depth(ts, i + 1) >= 0
        /\ ts[i + 1].kind \in {"elseif", "else"} => Depth(ts, i + 1) > 0
    BY <1>2 DEF WellFormed, WellBegun, Nests
  <1>4. Depth(ts, i) \in Int /\ Depth(ts, i + 1) = Depth(ts, i) + (IF ts[i + 1].kind = "if" THEN 1
                                               ELSE IF ts[i + 1].kind = "end" THEN -1 ELSE 0)
    BY DepthNext
  <1>5. Depth(ts, i) > 0
    <2>1. CASE ts[i + 1].kind = "end"
      <3>1. Depth(ts, i + 1) = Depth(ts, i) + (-1)
        BY <1>4, <2>1
      <3> QED BY <1>3, <1>4, <3>1
    <2>2. CASE ts[i + 1].kind \in {"elseif", "else"}
      <3>1. Depth(ts, i + 1) = Depth(ts, i) + 0
        BY <1>4, <2>2
      <3> QED BY <1>3, <1>4, <2>2, <3>1
    <2> QED BY <2>1, <2>2
  <1>6. Len(bs) > 0
    BY <1>5 DEF BlocksAre
  <1> QED BY <1>6

\* The next branch of an if statement begins.
LEMMA BranchRuns ==
  ASSUME BInv, WInv, RInv, ElseIfBegins \/ ElseBegins
  PROVE  RInv'
PROOF
  <1>1. PICK op \in {"elseif", "else"} :
           /\ Next1(op) /\ query' = query /\ args' = args
           /\ blocks' = Append(Front(blocks),
                IF Last(blocks) # "seek" THEN "off"
                ELSE IF op = "else" \/ This \in holds THEN "on" ELSE "seek")
    <2>1. CASE ElseBegins
      BY <2>1 DEF ElseBegins, Branch
    <2>2. CASE ElseIfBegins
      <3>1. Next1("elseif") /\ query' = query /\ args' = args
        BY <2>2 DEF ElseIfBegins, Branch
      <3>2. blocks' = Append(Front(blocks),
                IF Last(blocks) # "seek" THEN "off" ELSE IF This \in holds THEN "on" ELSE "seek")
        BY <2>2 DEF ElseIfBegins, Branch
      <3> QED BY <3>1, <3>2
    <2> QED BY <2>1, <2>2
  <1>2. op \notin TextOps
    BY DEF TextOps
  <1>3. PICK e, i : \E t \in Tokens : Line(e, i, t)
    BY <1>1, <1>2, LineRead
  <1>4. PICK t \in Tokens : Line(e, i, t)
    BY <1>3
  <1>5. blocks \in Seq(States) /\ seen \in Seq(Tokens)
    BY <1>1, RunTypes
  <1>6. /\ t.kind = op /\ t.arg = This /\ t = seen[i + 1] /\ i \in Nat /\ BlocksAre(seen, i, holds, blocks)
        /\ MeaningOfToken(seen, i + 1, holds, nils) = << >>
    BY <1>1, <1>4, IfLineRead
  <1>7. WellFormed(seen) /\ i < Len(seen)
    <2>1. outcome = "compiled"
      BY <1>1, RunTypes DEF RInv
    <2> QED BY <1>4, <2>1 DEF Line, WInv, AcceptsWellFormed
  <1>8. blocks # << >>
    BY <1>5, <1>6, <1>7, InsideBlock
  <1>9. PICK after \in States :
           after = (IF blocks[Len(blocks)] # "seek" THEN "off" ELSE IF Holds(seen, i + 1, holds) THEN "on" ELSE "seek")
    BY DEF States
  <1>10. blocks' = Append(Front(blocks), after)
    <2>1. Holds(seen, i + 1, holds) <=> op = "else" \/ This \in holds
      BY <1>6 DEF Holds
    <2>2. after = (IF Last(blocks) # "seek" THEN "off"
                   ELSE IF op = "else" \/ This \in holds THEN "on" ELSE "seek")
      BY <1>9, <2>1 DEF Last
    <2> QED BY <1>1, <2>2
  <1>11. blocks' \in Seq(States)
    BY <1>5, <1>10, FrontOfBlocks, AppendProperties
  <1>12. seen[i + 1].kind \in {"elseif", "else"}
    BY <1>6
  <1>13. BlocksAre(seen, i + 1, holds, Append(Front(blocks), after))
    BY <1>5, <1>6, <1>8, <1>9, <1>12, BlocksTurn
  <1>14. BlocksAre(seen, i + 1, holds, blocks')
    BY <1>10, <1>13
  <1> QED BY <1>1, <1>4, <1>6, <1>11, <1>14, SilentStep

\* An if statement ends.
LEMMA EndRuns ==
  ASSUME BInv, WInv, RInv, BlockEnds
  PROVE  RInv'
PROOF
  <1>1. Next1("end") /\ query' = query /\ args' = args /\ blocks' = Front(blocks)
    BY DEF BlockEnds
  <1>2. "end" \notin TextOps
    BY DEF TextOps
  <1>3. PICK e, i : \E t \in Tokens : Line(e, i, t)
    BY <1>1, <1>2, LineRead
  <1>4. PICK t \in Tokens : Line(e, i, t)
    BY <1>3
  <1>5. blocks \in Seq(States) /\ seen \in Seq(Tokens)
    BY <1>1, RunTypes
  <1>6. /\ t.kind = "end" /\ t = seen[i + 1] /\ i \in Nat /\ BlocksAre(seen, i, holds, blocks)
        /\ MeaningOfToken(seen, i + 1, holds, nils) = << >>
    BY <1>1, <1>4, IfLineRead
  <1>7. WellFormed(seen) /\ i < Len(seen)
    <2>1. outcome = "compiled"
      BY <1>1, RunTypes DEF RInv
    <2> QED BY <1>4, <2>1 DEF Line, WInv, AcceptsWellFormed
  <1>8. blocks # << >>
    BY <1>5, <1>6, <1>7, InsideBlock
  <1>9. blocks' \in Seq(States)
    BY <1>1, <1>5, FrontOfBlocks
  <1>10. BlocksAre(seen, i + 1, holds, Front(blocks))
    BY <1>5, <1>6, <1>8, BlocksClose
  <1>11. BlocksAre(seen, i + 1, holds, blocks')
    BY <1>1, <1>10
  <1> QED BY <1>1, <1>4, <1>6, <1>9, <1>11, SilentStep

\* The generated method is called.
LEMMA CallRuns ==
  ASSUME BInv, CInv, RInv, Call
  PROVE  RInv'
PROOF
  <1>1. outcome = "compiled" /\ at = 0 /\ at' = 1 /\ UNCHANGED <<compilerVars, blocks, query, args>>
    BY DEF Call
  <1>2. blocks' = << >> /\ query' = << >> /\ args' = << >>
    BY <1>1 DEF RInv
  <1>3. PICK e : Codes(e, Len(seen), seen, body) /\ Ends(e, seen, body, AsksForId)
    BY <1>1 DEF CInv, Compiled, Ends
  <1>4. seen \in Seq(Tokens) /\ body \in Seq(Stmts)
    BY CompilerTypes
  <1>5. At(e, 0, seen, body, holds', nils', 0, << >>, << >>, << >>)
    BY <1>3, <1>4, AtBegins
  <1>6. At(e, 0, seen, body, holds', nils', at' - 1, blocks', query', args') /\ at' # 0
    BY <1>1, <1>2, <1>5
  <1> QED BY <1>1, <1>3, <1>6, RunMoves

\* What is compiled is not compiled again.
LEMMA CompiledRests ==
  ASSUME CInv, outcome # "compiling"
  PROVE  ~CompilerNext
PROOF
  <1>1. text = << >> /\ paramNames = << >> /\ Len(text) = 0
    BY DEF CInv
  <1>2. ~IsParam /\ ~BetweenTokens
    BY <1>1 DEF IsParam, BetweenTokens
  <1>3. \A t : ~Read(t)
    BY <1>2 DEF Read
  <1> QED BY <1>1, <1>2, <1>3 DEF CompilerNext, Text, EmitWords, EmitDollar, EmitMark, EmitArgs, Subst, BadSubst,
             If, ElseIf, Else, End, Stray, Unfinished, Finish

\* While the compiler works, nothing runs.
LEMMA CompilingRuns ==
  ASSUME CInv, RInv, CompilerNext, UNCHANGED bodyVars
  PROVE  RInv'
PROOF
  <1>1. at = 0
    BY CompiledRests DEF RInv
  <1>2. at' = 0 /\ blocks' = blocks /\ query' = query /\ args' = args
    BY <1>1 DEF bodyVars
  <1> QED BY <1>1, <1>2 DEF RInv

\* A step of nobody.
LEMMA NothingRuns ==
  ASSUME RInv, UNCHANGED allVars
  PROVE  RInv'
PROOF
  <1>1. UNCHANGED compilerVars /\ at' = at /\ holds' = holds /\ nils' = nils /\ blocks' = blocks /\ query' = query
        /\ args' = args
    BY DEF allVars, bodyVars
  <1>2. CASE at = 0
    BY <1>1, <1>2 DEF RInv
  <1>3. CASE at # 0
    <2>1. PICK e, i : Runs(e, i)
      BY <1>3 DEF RInv
    <2> QED BY <1>1, <1>3, <2>1, RunMoves DEF Runs, RInv
  <1> QED BY <1>2, <1>3

\* Every step goes on with the run.
LEMMA RunGoesOn ==
  ASSUME BInv, WInv, CInv, RInv, [BodyNext]_allVars
  PROVE  RInv'
PROOF
  BY CompilingRuns, CallRuns, SkipsRun, TextsRun, SubstitutionsRun, IfRuns, BranchRuns, EndRuns, NothingRuns
     DEF BodyNext

\* Numbers are Postgres's.
LEMMA PlainKept ==
  ASSUME BInv, CInv, Plain, [BodyNext]_allVars
  PROVE  Plain'
PROOF
  <1>1. dialect' = dialect
    BY DEF BodyNext, allVars, compilerVars, CompilerNext, Text, EmitWords, EmitDollar, EmitMark, EmitArgs, Emit,
           Subst, BadSubst, If, ElseIf, Else, End, Stray, Read, Unfinished, Finish,
           Call, Skip, Write, Mark, Arg, Bind, Substitute, SubstituteUnlessNil,
           IfBegins, ElseIfBegins, ElseBegins, Branch, BlockEnds, Next1
  <1>2. CASE query' = query
    BY <1>1, <1>2 DEF Plain
  <1>3. CASE \E it \in Items : query' = Append(query, it) /\ it.pos = 0
    <2>1. PICK it \in Items : query' = Append(query, it) /\ it.pos = 0
      BY <1>3
    <2>2. query \in Seq(Items)
      BY DEF BInv, BodyTypeOK
    <2>3. /\ Len(query) \in Nat /\ DOMAIN query = 1..Len(query) /\ DOMAIN query' = 1..(Len(query) + 1)
          /\ query'[Len(query) + 1] = it /\ \A i \in 1..Len(query) : query'[i] = query[i]
      BY <2>1, <2>2
    <2> QED BY <1>1, <2>1, <2>3 DEF Plain
  <1>4. CASE Bind
    <2>1. needsStrconv
      BY <1>4, StatementRuns DEF Bind, BInv, FlagInv
    <2> QED BY <1>1, <2>1 DEF CInv, Plain
  <1>5. \/ query' = query
        \/ Bind
        \/ \E it \in Items : query' = Append(query, it) /\ it.pos = 0
    <2>1. CASE Write \/ Mark \/ Substitute \/ SubstituteUnlessNil
      <3>1. PICK op \in Ops, kind \in {"word", "value", "mark"} :
              Next1(op) /\ query' \in {query, Append(query, Item(kind, This, 0))}
        <4>1. {"write", "mark", "subst", "substptr"} \subseteq Ops
          BY DEF Ops
        <4>2. CASE Write
          BY <4>1, <4>2 DEF Write, Output
        <4>3. CASE Mark
          BY <4>1, <4>3 DEF Mark, Output
        <4>4. CASE Substitute
          BY <4>1, <4>4 DEF Substitute, Output
        <4>5. CASE SubstituteUnlessNil
          <5>1. query' \in {query, Append(query, Item("value", This, 0))} /\ Next1("substptr")
            BY <4>5 DEF SubstituteUnlessNil, Output
          <5> QED BY <4>1, <5>1
        <4> QED BY <2>1, <4>2, <4>3, <4>4, <4>5
      <3>2. This \in Names
        BY <3>1, RunTypes
      <3>3. Item(kind, This, 0) \in Items /\ Item(kind, This, 0).pos = 0
        BY <3>2 DEF Item, Items
      <3> QED BY <3>1, <3>3
    <2>2. CASE UNCHANGED query
      BY <2>2
    <2>3. \/ Write \/ Mark \/ Substitute \/ SubstituteUnlessNil \/ Bind \/ UNCHANGED query
      BY DEF BodyNext, allVars, bodyVars, Call, Skip, Arg, IfBegins, ElseIfBegins, ElseBegins, Branch, BlockEnds
    <2> QED BY <2>1, <2>2, <2>3
  <1> QED BY <1>2, <1>3, <1>4, <1>5

-----------------------------------------------------------------------------
(* What the database receives. *)

\* The marks of a query, up to the i-th item, are the arguments it asks for.
MarksAsk(q) ==
  /\ Len(Asked(Said(q))) = CountTo(q, Len(q), "mark")
  /\ \A i \in 1..Len(q) :
       q[i].kind = "mark" =>
         /\ CountTo(q, i, "mark") \in 1..Len(Asked(Said(q)))
         /\ Asked(Said(q))[CountTo(q, i, "mark")] = q[i].of

\* One item is one piece.
LEMMA ItemIsPiece ==
  ASSUME NEW it \in Items
  PROVE  \E pc \in Pieces : SaidOf[it] = <<pc>> /\ (pc.kind = "param" <=> it.kind = "mark") /\ pc.of = it.of
PROOF
  <1>1. it.of \in Names /\ it.kind \in {"word", "value", "mark"}
    BY DEF Items
  <1>2. CASE it.kind = "mark"
    <2>1. Bound(it.of) \in Pieces
      BY <1>1, PiecesArePieces
    <2>2. SaidOf[it] = <<Bound(it.of)>>
      BY <1>2 DEF SaidOf
    <2>3. Bound(it.of).kind = "param" /\ Bound(it.of).of = it.of
      BY DEF Bound
    <2> QED BY <1>2, <2>1, <2>2, <2>3
  <1>3. CASE it.kind # "mark"
    <2>1. PICK pc \in Pieces : pc = [kind |-> it.kind, of |-> it.of]
      <3>1. [kind |-> it.kind, of |-> it.of] \in Pieces
        BY <1>1, <1>3 DEF Pieces
      <3> QED BY <3>1
    <2>2. SaidOf[it] = <<pc>>
      BY <1>3, <2>1 DEF SaidOf
    <2>3. pc.kind # "param" /\ pc.of = it.of
      BY <1>1, <2>1
    <2>4. CASE it.kind = "mark"
      BY <1>3, <2>2, <2>3, <2>4
    <2>5. CASE it.kind # "mark"
      BY <1>3, <2>2, <2>3, <2>5
    <2> QED BY <2>4, <2>5
  <1> QED BY <1>2, <1>3

\* Counting the marks goes on with the next item.
LEMMA MarksNext ==
  ASSUME NEW q, NEW i \in Nat
  PROVE  CountTo(q, i + 1, "mark") = CountTo(q, i, "mark") + (IF q[i + 1].kind = "mark" THEN 1 ELSE 0)
PROOF
  BY CountNext

\* One item more.
LEMMA MarksAskNext ==
  ASSUME NEW q \in Seq(Items), NEW it \in Items, MarksAsk(q)
  PROVE  MarksAsk(Append(q, it))
PROOF
  <1>1. PICK z \in Seq(Items) : z = Append(q, it)
    BY AppendProperties
  <1>2. PICK n \in Nat : n = Len(q)
    BY LenProperties
  <1>3. Len(z) = n + 1 /\ z[n + 1] = it /\ \A i \in 1..n : z[i] = q[i]
    BY <1>1, <1>2, AppendProperties
  <1>4. PICK pc \in Pieces : SaidOf[it] = <<pc>> /\ (pc.kind = "param" <=> it.kind = "mark") /\ pc.of = it.of
    BY ItemIsPiece
  <1>5. PICK w \in Seq(Pieces) : w = Said(q)
    BY SaidTyped
  <1>6. Said(z) = Append(w, pc)
    <2>1. Said(z) = w \o <<pc>>
      BY <1>1, <1>4, <1>5, SaidAppend
    <2> QED BY <2>1, AppendIsConcat
  <1>7. PICK a \in Seq(Names) : a = Asked(w)
    BY AskedTyped
  <1>8. Asked(Said(z)) = IF it.kind = "mark" THEN Append(a, it.of) ELSE a
    BY <1>4, <1>6, <1>7, AskedAppend
  <1>9. \A i \in 0..n : CountTo(z, i, "mark") = CountTo(q, i, "mark")
    <2>1. ASSUME NEW i \in 0..n
          PROVE  {j \in 1..i : z[j].kind = "mark"} = {j \in 1..i : q[j].kind = "mark"}
      BY <1>3
    <2> QED BY <2>1 DEF CountTo
  <1>10. PICK c \in Nat : c = CountTo(q, n, "mark")
    BY CountNext
  <1>11. CountTo(z, n + 1, "mark") = c + (IF it.kind = "mark" THEN 1 ELSE 0)
    <2>1. n \in 0..n
      BY <1>2
    <2>2. CountTo(z, n, "mark") = c
      BY <1>9, <1>10, <2>1
    <2>3. CountTo(z, n + 1, "mark") = CountTo(z, n, "mark") + (IF z[n + 1].kind = "mark" THEN 1 ELSE 0)
      BY MarksNext
    <2>4. CASE it.kind = "mark"
      <3>1. CountTo(z, n + 1, "mark") = CountTo(z, n, "mark") + 1
        BY <1>3, <2>3, <2>4
      <3> QED BY <2>2, <2>4, <3>1
    <2>5. CASE it.kind # "mark"
      <3>1. CountTo(z, n + 1, "mark") = CountTo(z, n, "mark") + 0
        BY <1>3, <2>3, <2>5
      <3> QED BY <2>2, <2>5, <3>1
    <2> QED BY <2>4, <2>5
  <1>12. Len(a) = c /\ \A i \in 1..n : q[i].kind = "mark" =>
           CountTo(q, i, "mark") \in 1..c /\ a[CountTo(q, i, "mark")] = q[i].of
    BY <1>2, <1>5, <1>7, <1>10 DEF MarksAsk
  <1>13. CASE it.kind = "mark"
    <2>1. it.of \in Names
      BY DEF Items
    <2>2. PICK b \in Seq(Names) : b = Append(a, it.of)
      BY <2>1, AppendProperties
    <2>3. Len(b) = c + 1 /\ b[c + 1] = it.of /\ \A k \in 1..c : b[k] = a[k]
      BY <1>12, <2>1, <2>2, AppendProperties
    <2>4. Asked(Said(z)) = b /\ CountTo(z, n + 1, "mark") = c + 1
      BY <1>8, <1>11, <1>13, <2>2
    <2>5. ASSUME NEW i \in 1..n + 1, z[i].kind = "mark"
          PROVE  CountTo(z, i, "mark") \in 1..c + 1 /\ b[CountTo(z, i, "mark")] = z[i].of
      <3>1. CASE i = n + 1
        BY <1>3, <2>3, <2>4, <3>1
      <3>2. CASE i # n + 1
        <4>1. i \in 1..n /\ i \in 0..n
          BY <3>2
        <4>2. CountTo(q, i, "mark") \in 1..c /\ a[CountTo(q, i, "mark")] = q[i].of
          BY <1>3, <1>12, <2>5, <4>1
        <4> QED BY <1>3, <1>9, <2>3, <4>1, <4>2
      <3> QED BY <3>1, <3>2
    <2> QED BY <1>1, <1>3, <2>3, <2>4, <2>5 DEF MarksAsk
  <1>14. CASE it.kind # "mark"
    <2>1. Asked(Said(z)) = a /\ CountTo(z, n + 1, "mark") = c
      BY <1>8, <1>11, <1>14
    <2>2. ASSUME NEW i \in 1..n + 1, z[i].kind = "mark"
          PROVE  CountTo(z, i, "mark") \in 1..c /\ a[CountTo(z, i, "mark")] = z[i].of
      <3>1. i \in 1..n /\ i \in 0..n
        BY <1>3, <1>14, <2>2
      <3> QED BY <1>3, <1>9, <1>12, <2>2, <3>1
    <2> QED BY <1>1, <1>3, <1>12, <2>1, <2>2 DEF MarksAsk
  <1> QED BY <1>13, <1>14

\* The n-th mark stands for the n-th argument that is asked for.
LEMMA AllMarksAsk ==
  ASSUME NEW q \in Seq(Items)
  PROVE  MarksAsk(q)
PROOF
  <1> DEFINE P == {v \in Seq(Items) : MarksAsk(v)}
  <1>1. << >> \in P
    <2>1. Said(<< >>) = << >> /\ Asked(<< >>) = << >> /\ Len(<< >>) = 0 /\ << >> \in Seq(Items) /\ 1..0 = {}
      BY SaidNone, AskedNone, EmptySeq
    <2>2. CountTo(<< >>, 0, "mark") = 0
      BY CountNext
    <2> QED BY <2>1, <2>2 DEF MarksAsk
  <1>2. ASSUME NEW v \in Seq(Items), NEW x \in Items, v \in P PROVE Append(v, x) \in P
    BY <1>2, MarksAskNext, AppendProperties
  <1> HIDE DEF P
  <1>3. Seq(Items) \subseteq P
    BY <1>1, <1>2, SeqInduction
  <1> QED BY <1>3 DEF P

\* What the database receives is what the query says.
LEMMA ReceivedIsSaid ==
  ASSUME BInv, Plain, args = Asked(Said(query))
  PROVE  Received = Said(query) /\ Len(args) = MarksTo(Len(query))
PROOF
  <1>1. query \in Seq(Items) /\ args \in Seq(Names)
    BY DEF BInv, BodyTypeOK
  <1>2. PICK n \in Nat : n = Len(query) /\ DOMAIN query = 1..n
    BY <1>1, LenProperties
  <1>3. MarksAsk(query)
    BY <1>1, AllMarksAsk
  <1>4. \A i : MarksTo(i) = CountTo(query, i, "mark")
    BY DEF MarksTo, CountTo
  <1>5. Len(args) = MarksTo(Len(query))
    BY <1>3, <1>4 DEF MarksAsk
  <1>6. ASSUME NEW i \in 1..n, query[i].kind = "mark" PROVE ArgOf(i) = query[i].of
    <2>1. query[i] \in Items
      BY <1>1, <1>2
    <2>2. query[i].pos \in Nat
      BY <2>1 DEF Items
    <2>3. DOMAIN args = 1..Len(args) /\ Len(args) \in Nat
      BY <1>1, LenProperties
    <2>4. CASE query[i].pos = 0
      <3>1. MarksTo(i) \in 1..Len(args) /\ args[MarksTo(i)] = query[i].of
        BY <1>2, <1>3, <1>4, <1>6 DEF MarksAsk
      <3> QED BY <2>3, <2>4, <3>1 DEF ArgOf
    <2>5. CASE query[i].pos # 0
      <3>1. dialect = "postgres"
        BY <1>2, <1>6, <2>5 DEF Plain
      <3>2. query[i].pos \in DOMAIN args /\ args[query[i].pos] = query[i].of
        BY <1>2, <1>6, <3>1 DEF BInv, Numbered
      <3> QED BY <2>5, <3>2 DEF ArgOf
    <2> QED BY <2>4, <2>5
  <1>7. ASSUME NEW i \in 1..n
        PROVE  SaidOf[query[i]] = <<Received[i]>> /\ Received[i] \in Pieces
    <2>1. PICK it \in Items : it = query[i]
      BY <1>1, <1>2
    <2>2. it.of \in Names /\ it.kind \in {"word", "value", "mark"}
      BY <2>1 DEF Items
    <2>3. Received[i] = IF it.kind = "mark" THEN Bound(ArgOf(i)) ELSE [kind |-> it.kind, of |-> it.of]
      BY <1>2, <2>1 DEF Received
    <2>4. CASE it.kind = "mark"
      <3>1. Received[i] = Bound(it.of)
        BY <1>6, <2>1, <2>3, <2>4
      <3>2. SaidOf[it] = <<Bound(it.of)>>
        BY <2>4 DEF SaidOf
      <3>3. Bound(it.of) \in Pieces
        BY <2>2, PiecesArePieces
      <3> QED BY <2>1, <3>1, <3>2, <3>3
    <2>5. CASE it.kind # "mark"
      <3>1. Received[i] = [kind |-> it.kind, of |-> it.of]
        BY <2>3, <2>5
      <3>2. SaidOf[it] = <<[kind |-> it.kind, of |-> it.of]>>
        BY <2>5 DEF SaidOf
      <3>3. [kind |-> it.kind, of |-> it.of] \in Pieces
        BY <2>2, <2>5 DEF Pieces
      <3> QED BY <2>1, <3>1, <3>2, <3>3
    <2> QED BY <2>4, <2>5
  <1>8. DOMAIN Received = 1..n /\ Received = [i \in 1..n |-> Received[i]]
    BY <1>2 DEF Received
  <1>9. PICK r \in Seq(Pieces) : r = Received /\ Len(r) = n
    <2>1. Received \in [1..n -> Pieces]
      BY <1>7, <1>8
    <2>2. Received \in Seq(Pieces) /\ Len(Received) = n
      BY <2>1, SeqOfFunction
    <2> QED BY <2>2
  <1>10. Singly(query, SaidOf, r)
    BY <1>2, <1>7, <1>9 DEF Singly
  <1>11. SaidOf \in [Items -> Seq(Pieces)]
    BY WhatItemsSay
  <1>12. Each(query, SaidOf) = r
    BY <1>1, <1>10, <1>11, EachSingle
  <1> QED BY <1>5, <1>9, <1>12 DEF Said

\* The clause of the compiler's own, where there is one.
OwnClause(asks) == IF asks THEN <<Word(Clause)>> ELSE << >>

\* All statements ran.
LEMMA RunEnds ==
  ASSUME BInv, WInv, RInv, Done
  PROVE  LET m == Meaning(seen, holds, nils) \o OwnClause(AsksForId)
         IN  Said(query) = m /\ args = Asked(m)
PROOF
  <1>1. seen \in Seq(Tokens) /\ body \in Seq(Stmts) /\ blocks \in Seq(States)
    BY DEF BInv, BodyTypeOK, CompilerTypeOK, States
  <1>2. PICK n \in Nat : n = Len(seen) /\ n \in 0..Len(seen)
    BY <1>1, LenProperties
  <1>3. Len(body) \in Nat /\ at = Len(body) + 1 /\ at # 0 /\ at - 1 = Len(body)
    BY <1>1, LenProperties DEF Done
  <1>4. PICK e, i : Runs(e, i) /\ outcome = "compiled"
    BY <1>3 DEF RInv
  <1>5. Codes(e, n, seen, body) /\ Ends(e, seen, body, AsksForId)
        /\ At(e, i, seen, body, holds, nils, Len(body), blocks, query, args)
    BY <1>2, <1>3, <1>4 DEF Runs
  <1>6. i = n
    <2>1. i \in 0..n /\ (i < n => Len(body) < e[i + 1])
      BY <1>2, <1>5 DEF At
    <2>2. ASSUME i < n PROVE e[i + 1] \in 0..Len(body)
      <3>1. i + 1 \in 0..n
        BY <2>1, <2>2
      <3> QED BY <1>5, <3>1 DEF Codes
    <2> QED BY <1>3, <2>1, <2>2
  <1>7. AllOn(blocks)
    <2>1. WellFormed(seen)
      BY <1>4 DEF WInv, AcceptsWellFormed
    <2>2. Depth(seen, n) = 0
      BY <1>2, <2>1 DEF WellFormed, WellBegun, Nests
    <2>3. Len(blocks) = 0
      BY <1>5, <1>6, <2>2 DEF At, BlocksAre
    <2>4. DOMAIN blocks = {}
      BY <1>1, <2>3
    <2> QED BY <2>4 DEF AllOn
  <1>8. PICK m \in 0..Len(body) : m = e[n]
    BY <1>2, <1>5 DEF Codes
  <1>9. PICK r \in m..Len(body) : r = Len(body)
    <2>1. Len(body) \in m..Len(body)
      BY <1>3, <1>8
    <2> QED BY <2>1
  <1>10. PICK before \in Seq(Pieces) : before = Meaning(seen, holds, nils) /\ before = Meant(seen, holds, nils, n)
    BY <1>1, <1>2, MeantTyped
  <1>11. PICK on \in BOOLEAN : on /\ on = AllOn(blocks)
    BY <1>7
  <1>12. Sofar(on, body, m, r, before, query, args)
    BY <1>5, <1>6, <1>8, <1>9, <1>10, <1>11 DEF At
  <1>13. PICK z \in Seq(Pieces) : z = OwnClause(AsksForId)
    <2>1. Clause \in Names
      BY NamesAreNames DEF Names
    <2>2. <<Word(Clause)>> \in Seq(Pieces)
      BY <2>1, PiecesArePieces
    <2>3. << >> \in Seq(Pieces)
      BY EmptySeq
    <2>4. OwnClause(AsksForId) \in Seq(Pieces)
      BY <2>2, <2>3 DEF OwnClause
    <2> QED BY <2>4
  <1>14. Each(Slice(body, m, r), SaysOf) = z /\ Each(Slice(body, m, r), GivesOf) = Asked(z)
    <2>1. CASE AsksForId
      <3>1. r = m + 1 /\ body[r] = Stmt("write", Clause) /\ m < Len(body) /\ m \in m..Len(body)
        BY <1>2, <1>3, <1>5, <1>8, <1>9, <2>1 DEF Ends
      <3>2. PICK of \in Names : of = Clause
        BY NamesAreNames DEF Names
      <3>3. PICK v \in Seq(Stmts) : v = Slice(body, m, r) /\ IsPart(v, body, m, r)
        BY <1>1, <1>8, <1>9, PartIs
      <3>4. Len(v) = 1 /\ v[1] = body[r]
        BY <1>3, <3>1, <3>3 DEF IsPart
      <3>5. Each(v, SaysOf) = SaysOf[v[1]] /\ Each(v, GivesOf) = GivesOf[v[1]]
        BY <3>4, OneSays
      <3>6. SaysOf[Stmt("write", of)] = <<Word(of)>> /\ GivesOf[Stmt("write", of)] = << >>
        BY StatementsSay
      <3>7. Asked(<<Word(of)>>) = << >>
        BY AskedOfOne
      <3>8. z = <<Word(of)>>
        BY <1>13, <2>1, <3>2 DEF OwnClause
      <3>9. v[1] = Stmt("write", of)
        BY <3>1, <3>2, <3>4
      <3> QED BY <3>3, <3>5, <3>6, <3>7, <3>8, <3>9
    <2>2. CASE ~AsksForId
      <3>1. r = m
        BY <1>2, <1>5, <1>8, <1>9, <2>2 DEF Ends
      <3>2. Slice(body, m, r) = << >>
        <4>1. m \in m..Len(body)
          BY <1>3, <1>8
        <4> QED BY <1>1, <3>1, <4>1, PartTyped
      <3>3. z = << >>
        BY <1>13, <2>2 DEF OwnClause
      <3> QED BY <3>2, <3>3, EachNone, AskedNone
    <2> QED BY <2>1, <2>2
  <1>15. z = Where(on, z)
    BY <1>11 DEF Where
  <1>16. Told(before \o z, query, args)
    BY <1>1, <1>12, <1>14, <1>15, SofarEnds
  <1> QED BY <1>10, <1>13, <1>16 DEF Told

\* What is compiled stands for the template; what ran wrote what it means.
THEOREM RunInvariance == BodySpec => [](CInv /\ RInv /\ Plain)
PROOF
  <1>1. BodyInit => CInv /\ RInv /\ Plain
    <2> SUFFICES ASSUME BodyInit PROVE CInv /\ RInv /\ Plain
      OBVIOUS
    <2>1. at = 0 /\ blocks = << >> /\ query = << >> /\ args = << >> /\ DOMAIN query = {}
      BY DEF BodyInit
    <2> QED BY <2>1, InitTranslates DEF RInv, Plain
  <1>2. BInv /\ WInv /\ (CInv /\ RInv /\ Plain) /\ [BodyNext]_allVars => (CInv /\ RInv /\ Plain)'
    <2> SUFFICES ASSUME BInv, WInv, CInv, RInv, Plain, [BodyNext]_allVars PROVE CInv' /\ RInv' /\ Plain'
      OBVIOUS
    <2>1. CompilerNext \/ UNCHANGED compilerVars
      BY DEF BodyNext, allVars, Call, Skip, Write, Mark, Arg, Bind, Substitute, SubstituteUnlessNil,
             IfBegins, ElseIfBegins, ElseBegins, Branch, BlockEnds, Next1
    <2>2. CInv'
      BY <2>1, CompilerTranslates, CompilerRests
    <2>3. RInv'
      BY RunGoesOn
    <2>4. Plain'
      BY PlainKept
    <2> QED BY <2>2, <2>3, <2>4
  <1> QED BY <1>1, <1>2, BodyInvariance, NestingInvariance, PTL DEF BodySpec

\* The query and arguments that a generated method sends mean what its template
\* means, for every well-formed template, all values of the parameters and all
\* three dialects (compiler.go:44-235).
THEOREM BodyMeaning == BodySpec => []BodyMeansTemplate
PROOF
  <1>1. BInv /\ WInv /\ (CInv /\ RInv /\ Plain) => BodyMeansTemplate
    <2> SUFFICES ASSUME BInv, WInv, RInv, Plain, Done PROVE BodyMeansTemplate
      BY DEF BodyMeansTemplate
    <2> DEFINE m == Meaning(seen, holds, nils) \o OwnClause(AsksForId)
    <2>1. Said(query) = m /\ args = Asked(m)
      BY RunEnds
    <2> HIDE DEF m
    <2>2. Received = m /\ Len(args) = MarksTo(Len(query))
      BY <2>1, ReceivedIsSaid
    <2>3. Received = Meaning(seen, holds, nils) \o OwnClause(AsksForId)
      BY <2>2 DEF m
    <2> QED BY <2>2, <2>3 DEF BodyMeansTemplate, OwnClause, AsksForId, ReadsIdBack
  <1> QED BY <1>1, BodyInvariance, NestingInvariance, RunInvariance, PTL
=============================================================================
