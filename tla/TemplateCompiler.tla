-------------------------- MODULE TemplateCompiler --------------------------
(***************************************************************************)
(* internal.compilerImpl.CompileBody: the tokens of a template are read    *)
(* one after the other and turned into the statements of a Go function     *)
(* body. The recursion of walk and emitIfChain is the stack frames. The    *)
(* template is chosen while it is read: each token, and its end, is a      *)
(* choice.                                                                 *)
(*                                                                         *)
(* Definitions whose name starts with Wrong are mistakes one could make in *)
(* the definition that follows them, kept to test that the properties      *)
(* notice them; nothing uses them.                                         *)
(***************************************************************************)
EXTENDS Template

CONSTANT
  Dialects,  \* the dialects templates are compiled for
  IdMethods, \* whether methods may report an id, a subset of BOOLEAN
  MaxTokens, \* bound: tokens in a template
  MaxLeaves  \* bound: texts and substitutions in a template

ASSUME DialectsAssumption == Dialects \subseteq {"mysql", "sqlite", "postgres"}
ASSUME IdMethodsAssumption == IdMethods \subseteq BOOLEAN
ASSUME BoundsAssumption == MaxTokens \in Nat /\ MaxLeaves \in Nat

VARIABLES
  dialect,       \* the generator's dialect
  reportsId,     \* the method is an INSERT that answers (int, error)
  seen,          \* the tokens read so far
  text,          \* what is left of the text token that is being emitted
  paramNames,    \* MySQL and SQLite: its bound parameters so far
  frames,        \* open blocks: "if" until {{else}}, "else" after it
  body,          \* the statements written so far
  needsStrconv,  \* the file must import strconv
  outcome        \* "compiling", "compiled", "rejected" for a token, or "unfinished"

compilerVars == <<dialect, reportsId, seen, text, paramNames, frames, body,
                  needsStrconv, outcome>>

\* A statement of the generated function: "write" a word, write a placeholder
\* ("mark"), append an argument ("arg"), both at once ("bind": "$" and the
\* number of the argument that is appended next), write a parameter ("subst",
\* "substptr" unless it is nil), and the lines of an if statement.
Ops == {"write", "mark", "arg", "bind", "subst", "substptr", "if", "elseif",
        "else", "end"}
Stmt(op, of) == [op |-> op, of |-> of]
Stmts == [op : Ops, of : Names]

CompilerTypeOK ==
  /\ dialect \in Dialects /\ reportsId \in IdMethods
  /\ seen \in Seq(Tokens)
  /\ text \in Seq(Words) /\ paramNames \in Seq(Identifiers)
  /\ frames \in Seq({"if", "else"})
  /\ body \in Seq(Stmts)
  /\ needsStrconv \in BOOLEAN
  /\ outcome \in {"compiling", "compiled", "rejected", "unfinished"}

-----------------------------------------------------------------------------
(* Texts: the matches of namedParamRe from left to right, and the words *)
(* between them. *)

CompilerInit ==
  /\ dialect \in Dialects /\ reportsId \in IdMethods
  /\ seen = << >> /\ frames = << >> /\ body = << >>
  /\ text = << >> /\ paramNames = << >>
  /\ needsStrconv = FALSE
  /\ outcome = "compiling"

BetweenTokens == outcome = "compiling" /\ text = << >> /\ paramNames = << >>

Read(t) ==
  /\ BetweenTokens /\ Len(seen) < MaxTokens
  /\ t.kind \in {"text", "subst"} =>
       Cardinality({i \in DOMAIN seen : seen[i].kind \in {"text", "subst"}}) < MaxLeaves
  /\ seen' = Append(seen, t)
  /\ UNCHANGED <<dialect, reportsId, paramNames>>

\* The tokenizer never answers two texts in a row.
Text(x) ==
  /\ Read(TextTok(x))
  /\ seen # << >> => Last(seen).kind # "text"
  /\ text' = x
  /\ UNCHANGED <<frames, body, needsStrconv, outcome>>

WrongIsCast == FALSE

IsCast == Len(text) > 1 /\ text[1] = ":" /\ text[2] = ":"
IsParam == Len(text) > 1 /\ text[1] = ":" /\ text[2] \in Identifiers

\* The first n symbols of the text are dealt with by these statements.
Emit(n, stmts) ==
  /\ text' = SubSeq(text, n + 1, Len(text))
  /\ body' = body \o stmts
  /\ UNCHANGED <<dialect, reportsId, seen, frames, outcome>>

EmitWords ==
  /\ text # << >> /\ ~IsParam
  /\ IF IsCast THEN Emit(2, <<Stmt("write", ":"), Stmt("write", ":")>>)
               ELSE Emit(1, <<Stmt("write", text[1])>>)
  /\ UNCHANGED <<paramNames, needsStrconv>>

WrongEmitDollar ==
  /\ dialect = "postgres" /\ IsParam
  /\ Emit(2, <<Stmt("bind", text[2])>>)
  /\ needsStrconv' = (frames = << >>)
  /\ UNCHANGED paramNames

EmitDollar ==
  /\ dialect = "postgres" /\ IsParam
  /\ Emit(2, <<Stmt("bind", text[2])>>)
  /\ needsStrconv' = TRUE
  /\ UNCHANGED paramNames

\* One string literal gets every "?" of the text; the arguments follow it.
EmitMark ==
  /\ dialect # "postgres" /\ IsParam
  /\ Emit(2, <<Stmt("mark", text[2])>>)
  /\ paramNames' = Append(paramNames, text[2])
  /\ UNCHANGED needsStrconv

EmitArgs ==
  /\ text = << >> /\ paramNames # << >>
  /\ body' = body \o [i \in DOMAIN paramNames |-> Stmt("arg", paramNames[i])]
  /\ paramNames' = << >>
  /\ UNCHANGED <<dialect, reportsId, seen, frames, text, needsStrconv, outcome>>

-----------------------------------------------------------------------------
(* Actions of the template. *)

Subst(n) ==
  /\ Read(SubstTok(n)) /\ n \in StringParams \cup PtrParams
  /\ body' = Append(body, Stmt(IF n \in PtrParams THEN "substptr" ELSE "subst", n))
  /\ UNCHANGED <<frames, text, needsStrconv, outcome>>

\* An unknown parameter, or one of a type that cannot be written into the query.
BadSubst(n) ==
  /\ Read(SubstTok(n)) /\ n \in Undeclared \cup OtherParams
  /\ outcome' = "rejected"
  /\ UNCHANGED <<frames, body, text, needsStrconv>>

If(e) ==
  /\ Read(IfTok(e))
  /\ frames' = Append(frames, "if")
  /\ body' = Append(body, Stmt("if", e))
  /\ UNCHANGED <<text, needsStrconv, outcome>>

InThen == frames # << >> /\ Last(frames) = "if"

WrongElseIf(e) ==
  /\ Read(ElseIfTok(e)) /\ InThen
  /\ body' = body \o <<Stmt("end", ""), Stmt("if", e)>>
  /\ UNCHANGED <<frames, text, needsStrconv, outcome>>

ElseIf(e) ==
  /\ Read(ElseIfTok(e)) /\ InThen
  /\ body' = Append(body, Stmt("elseif", e))
  /\ UNCHANGED <<frames, text, needsStrconv, outcome>>

WrongElse ==
  /\ Read(ElseTok) /\ InThen
  /\ body' = Append(body, Stmt("else", ""))
  /\ UNCHANGED <<frames, text, needsStrconv, outcome>>

Else ==
  /\ Read(ElseTok) /\ InThen
  /\ frames' = Append(Front(frames), "else")
  /\ body' = Append(body, Stmt("else", ""))
  /\ UNCHANGED <<text, needsStrconv, outcome>>

End ==
  /\ Read(EndTok) /\ frames # << >>
  /\ frames' = Front(frames)
  /\ body' = Append(body, Stmt("end", ""))
  /\ UNCHANGED <<text, needsStrconv, outcome>>

WrongStray(t) ==
  /\ Read(t)
  /\ \/ t.kind = "end" /\ frames = << >>
     \/ t.kind = "else" /\ ~InThen
     \/ t.kind = "elseif"
  /\ outcome' = "rejected"
  /\ UNCHANGED <<frames, body, text, needsStrconv>>

\* A token that no open block expects: left over at the top level, or anything
\* but {{end}} after an {{else}} branch.
Stray(t) ==
  /\ Read(t)
  /\ \/ t.kind = "end" /\ frames = << >>
     \/ t.kind \in {"else", "elseif"} /\ ~InThen
  /\ outcome' = "rejected"
  /\ UNCHANGED <<frames, body, text, needsStrconv>>

\* The template ends inside a block.
Unfinished ==
  /\ BetweenTokens /\ frames # << >>
  /\ outcome' = "unfinished"
  /\ UNCHANGED <<dialect, reportsId, seen, frames, body, text, paramNames, needsStrconv>>

\* An id is read back through RETURNING, which the compiler adds unless that
\* word occurs anywhere in the template.
ReadsIdBack == dialect = "postgres" /\ reportsId

Finish ==
  /\ BetweenTokens /\ frames = << >>
  /\ outcome' = "compiled"
  /\ body' = IF ReadsIdBack /\ ~Mentions(seen, Spelled \cup {Clause})
             THEN Append(body, Stmt("write", Clause)) ELSE body
  /\ UNCHANGED <<dialect, reportsId, seen, frames, text, paramNames, needsStrconv>>

CompilerNext ==
  \/ \E x \in Texts : Text(x)
  \/ EmitWords \/ EmitDollar \/ EmitMark \/ EmitArgs
  \/ \E n \in Identifiers : Subst(n) \/ BadSubst(n)
  \/ \E e \in Exprs : If(e) \/ ElseIf(e)
  \/ Else \/ End
  \/ \E t \in Tokens : Stray(t)
  \/ Unfinished \/ Finish

CompilerSpec == CompilerInit /\ [][CompilerNext]_compilerVars

-----------------------------------------------------------------------------
(* Properties. *)

\* CompileBody accepts exactly the templates whose blocks are well nested and
\* whose substitutions are strings (walk, emitIfChain, emitDirect): it answers an
\* error at a token only after a mistake that nothing could mend that follows,
\* and at the end only inside a block.
AcceptsWellFormed ==
  /\ outcome = "compiled" => WellFormed(seen)
  /\ outcome = "rejected" => ~WellBegun(seen)
  /\ outcome = "unfinished" => ~WellFormed(seen)

\* The file imports strconv exactly when a statement of some branch uses it: an
\* import too many or too few does not compile (compiler.go:205).
StrconvIffUsed ==
  outcome = "compiled" => (needsStrconv <=> \E i \in DOMAIN body : body[i].op = "bind")
=============================================================================
