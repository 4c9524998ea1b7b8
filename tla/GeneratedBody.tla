---------------------------- MODULE GeneratedBody ----------------------------
(***************************************************************************)
(* A compiled body at work: the statements TemplateCompiler wrote, run by  *)
(* one call of the generated method, build _query in _sb and _args; then   *)
(* the database binds the arguments to the placeholders.                   *)
(***************************************************************************)
EXTENDS TemplateCompiler

VARIABLES
  at,      \* the statement that runs next; 0: the method was not called yet
  holds,   \* the conditions that are true for the values of this call
  nils,    \* the *string parameters that are nil in this call
  blocks,  \* the if statements around at: "on", "seek" a true branch, "off"
  query,   \* _sb: words, values and placeholders
  args     \* _args: the parameters in order

bodyVars == <<at, holds, nils, blocks, query, args>>
allVars == <<compilerVars, bodyVars>>

\* A placeholder is "?" (pos 0) or "$pos"; "of" is the parameter the template
\* bound there, which neither the code nor the database looks at.
Item(kind, of, pos) == [kind |-> kind, of |-> of, pos |-> pos]
Items == [kind : {"word", "value", "mark"}, of : Names, pos : Nat]

BodyTypeOK ==
  /\ CompilerTypeOK
  /\ at \in 0..Len(body) + 1
  /\ holds \subseteq Exprs /\ nils \subseteq PtrParams
  /\ blocks \in Seq({"on", "seek", "off"})
  /\ query \in Seq(Items) /\ args \in Seq(Names)

BodyInit ==
  /\ CompilerInit
  /\ at = 0 /\ holds = {} /\ nils = {} /\ blocks = << >> /\ query = << >> /\ args = << >>

\* The Go compiler knows every name the body uses.
GoAccepts ==
  \A i \in DOMAIN body :
    body[i].op \in {"arg", "bind", "subst", "substptr"} => body[i].of \in Params

Conditions == {e \in Exprs : \E i \in DOMAIN body : body[i].op \in {"if", "elseif"} /\ body[i].of = e}
NilTests == {p \in PtrParams : \E i \in DOMAIN body : body[i] = Stmt("substptr", p)}

Call ==
  /\ outcome = "compiled" /\ at = 0 /\ GoAccepts
  /\ at' = 1
  /\ holds' \in SUBSET Conditions /\ nils' \in SUBSET NilTests
  /\ UNCHANGED <<compilerVars, blocks, query, args>>

-----------------------------------------------------------------------------
(* Statements. *)

Running == \A i \in DOMAIN blocks : blocks[i] = "on"

\* The next statement is an op; control goes to the one after it.
Next1(op) ==
  /\ at \in DOMAIN body /\ body[at].op = op
  /\ at' = at + 1
  /\ UNCHANGED <<compilerVars, holds, nils>>

This == body[at].of

Skip(op) ==
  /\ op \notin {"if", "elseif", "else", "end"} /\ ~Running
  /\ Next1(op)
  /\ UNCHANGED <<blocks, query, args>>

Output(item) == query' = Append(query, item) /\ UNCHANGED blocks

Write == Running /\ Next1("write") /\ Output(Item("word", This, 0)) /\ UNCHANGED args
Mark == Running /\ Next1("mark") /\ Output(Item("mark", This, 0)) /\ UNCHANGED args

Arg ==
  /\ Running /\ Next1("arg")
  /\ args' = Append(args, This)
  /\ UNCHANGED <<blocks, query>>

WrongBind ==
  /\ Running /\ Next1("bind")
  /\ Output(Item("mark", This, Len(query) + 1))
  /\ args' = Append(args, This)

\* The number is taken before the argument is appended.
Bind ==
  /\ Running /\ Next1("bind")
  /\ Output(Item("mark", This, Len(args) + 1))
  /\ args' = Append(args, This)

Substitute == Running /\ Next1("subst") /\ Output(Item("value", This, 0)) /\ UNCHANGED args

WrongSubstituteUnlessNil ==
  /\ Running /\ Next1("substptr")
  /\ Output(Item(IF This \in nils THEN "nil" ELSE "value", This, 0))
  /\ UNCHANGED args

SubstituteUnlessNil ==
  /\ Running /\ Next1("substptr")
  /\ IF This \in nils THEN UNCHANGED <<blocks, query>> ELSE Output(Item("value", This, 0))
  /\ UNCHANGED args

IfBegins ==
  /\ Next1("if")
  /\ blocks' = Append(blocks, IF ~Running THEN "off" ELSE IF This \in holds THEN "on" ELSE "seek")
  /\ UNCHANGED <<query, args>>

\* A new branch begins: the block gets the state after it.
Branch(op, after) ==
  /\ Next1(op)
  /\ blocks' = Append(Front(blocks), after)
  /\ UNCHANGED <<query, args>>

ElseIfBegins ==
  Branch("elseif", CASE Last(blocks) = "seek" -> (IF This \in holds THEN "on" ELSE "seek")
                     [] OTHER -> "off")

ElseBegins == Branch("else", IF Last(blocks) = "seek" THEN "on" ELSE "off")

BlockEnds == Next1("end") /\ blocks' = Front(blocks) /\ UNCHANGED <<query, args>>

BodyNext ==
  \/ CompilerNext /\ UNCHANGED bodyVars
  \/ Call
  \/ \E op \in Ops : Skip(op)
  \/ Write \/ Mark \/ Arg \/ Bind \/ Substitute \/ SubstituteUnlessNil
  \/ IfBegins \/ ElseIfBegins \/ ElseBegins \/ BlockEnds

BodySpec == BodyInit /\ [][BodyNext]_allVars

-----------------------------------------------------------------------------
(* What the database receives. *)

MarksTo(i) == Cardinality({j \in 1..i : query[j].kind = "mark"})

\* The argument of a placeholder: the one its number names, or the next one.
ArgOf(i) ==
  LET k == IF query[i].pos = 0 THEN MarksTo(i) ELSE query[i].pos
  IN  IF k \in DOMAIN args THEN args[k] ELSE "missing"

Received ==
  [i \in DOMAIN query |-> IF query[i].kind = "mark" THEN Bound(ArgOf(i))
                          ELSE [kind |-> query[i].kind, of |-> query[i].of]]

Done == at = Len(body) + 1

\* The query and arguments the generated method sends mean what the template
\* means: the right branches, in order, every placeholder with its own
\* parameter, and no argument without placeholder. On Postgres a method that
\* reads an id back asks for it (compiler.go:44-235).
BodyMeansTemplate ==
  Done =>
    /\ Received = Meaning(seen, holds, nils)
                    \o (IF dialect = "postgres" /\ reportsId
                            /\ ~Mentions(seen, Spelled \cup {Clause})
                        THEN <<Word(Clause)>> ELSE << >>)
    /\ Len(args) = MarksTo(Len(query))

\* At every moment, "$n" stands for the n-th argument, which is the one the
\* template bound there, and no two placeholders share an argument.
DollarsNameTheirArgs ==
  dialect = "postgres" =>
    /\ \A i \in DOMAIN query :
         query[i].kind = "mark" =>
           query[i].pos \in DOMAIN args /\ args[query[i].pos] = query[i].of
    /\ \A i, j \in DOMAIN query :
         query[i].kind = "mark" /\ query[j].kind = "mark" /\ query[i].pos = query[j].pos => i = j

\* The promise of compiler.go:72-77 and of the README: a method that reads an
\* id back on Postgres sends a query with a RETURNING clause, and with one only.
OneReturningClause ==
  Done /\ ReadsIdBack =>
    Cardinality({i \in DOMAIN query : query[i].kind = "word" /\ query[i].of = Clause}) = 1
=============================================================================
