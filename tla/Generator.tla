------------------------------- MODULE Generator -------------------------------
(***************************************************************************)
(* One output file: the interfaces that go into it are parsed, the         *)
(* template of every method is compiled, and internal.generatorImpl prints *)
(* the file. What the Go compiler then says of it is GoBuilds.             *)
(*                                                                         *)
(* What the compiler makes of a template is in TemplateCompiler; here it   *)
(* fails, or answers whether the body needs strconv, for the number of a   *)
(* parameter, and whether it appends RETURNING id.                         *)
(*                                                                         *)
(* Definitions whose name starts with Wrong are mistakes one could make in *)
(* the definition that follows them; nothing uses them.                    *)
(***************************************************************************)
EXTENDS Parser

CONSTANTS
  Dialects,    \* the configured dialects
  Entries,     \* sequences of the configuration's entries for one file: [iface, struct]
  ImplOf       \* ImplOf[n]: n with its first letter in lower case and Impl after it

VARIABLES
  dialect,
  entries,   \* the entries that are not parsed yet
  requests,  \* what was parsed: [iface, struct, file, declared, methods, imports]
  todo,      \* the methods to compile: [request, method]
  compiled,  \* the compiled ones: [request, method, ctx, bound, strconv, returning]
  state,     \* "parse", "compile", "print", "written" or "failed"
  out        \* the printed file

generatorVars == <<dialect, entries, requests, todo, compiled, state, out>>
vars == <<parserVars, generatorVars>>

NoFile == [pkg |-> "", imports |-> {}, types |-> << >>, methods |-> << >>]

Init ==
  /\ ParserInit
  /\ dialect \in Dialects /\ entries \in Entries
  /\ requests = << >> /\ todo = << >> /\ compiled = << >>
  /\ state = "parse" /\ out = NoFile

-----------------------------------------------------------------------------
(* Parsing the entries of the file. *)

Parse ==
  /\ state = "parse" /\ entries # << >>
  /\ \/ \E dir \in Dirs : FindInterface(dir) \/ NotFound(dir)
     \/ ReadDirFails
     \/ \E d \in Declarations : ReadMethod(d)
     \/ EndInterface
  /\ state' = IF parser' \in {"rejected", "missing"} THEN "failed" ELSE state
  /\ UNCHANGED <<dialect, entries, requests, todo, compiled, out>>

\* The parsed interface becomes a request.
AddRequest ==
  /\ state = "parse" /\ parser = "parsed"
  /\ requests' = Append(requests,
       [iface |-> Head(entries).iface, struct |-> Head(entries).struct, file |-> file,
        declared |-> declared, methods |-> methods, imports |-> usedImports(file, methods)])
  /\ entries' = Tail(entries)
  /\ todo' = todo \o [i \in DOMAIN methods |-> [request |-> Len(requests'), method |-> methods[i]]]
  /\ state' = IF entries' = << >> THEN "compile" ELSE "parse"
  /\ parser' = "idle"
  /\ UNCHANGED <<file, declared, methods, read, dialect, compiled, out>>

-----------------------------------------------------------------------------
(* The first pass: every method's template is compiled. *)

Background == "context.Background()"

WrongExtractContext(params) ==
  IF params # << >> /\ params[1].name = "ctx"
    THEN [ctx |-> "ctx", params |-> Tail(params)] ELSE [ctx |-> Background, params |-> params]

\* The context the method uses, and the parameters of the query: a context is
\* none of them.
extractContext(params) ==
  IF params # << >> /\ params[1].type = <<"context", ".", "Context">>
    THEN [ctx |-> params[1].name, params |-> Tail(params)] ELSE [ctx |-> Background, params |-> params]

WrongAppendsReturning(m) ==
  dialect = "postgres" /\ m.return.kind = "rows_or_id" /\ "returning" \notin m.sql

\* CompileBody appends RETURNING id.
AppendsReturning(m) ==
  /\ dialect = "postgres" /\ m.kind = "INSERT" /\ m.return.kind = "rows_or_id"
  /\ "returning" \notin m.sql

CompileMethod ==
  /\ state = "compile" /\ todo # << >>
  /\ LET m == Head(todo).method
         used == extractContext(m.params)
     IN  compiled' = Append(compiled,
           [request |-> Head(todo).request, method |-> m, ctx |-> used.ctx, bound |-> used.params,
            strconv |-> dialect = "postgres" /\ "binds" \in m.sql, returning |-> AppendsReturning(m)])
  /\ todo' = Tail(todo)
  /\ UNCHANGED <<parserVars, dialect, entries, requests, state, out>>

CompileFails ==
  /\ state = "compile" /\ todo # << >>
  /\ state' = "failed"
  /\ UNCHANGED <<parserVars, dialect, entries, requests, todo, compiled, out>>

Compiled ==
  /\ state = "compile" /\ todo = << >>
  /\ state' = "print"
  /\ UNCHANGED <<parserVars, dialect, entries, requests, todo, compiled, out>>

-----------------------------------------------------------------------------
(* The second pass: the file is printed and formatted. *)

WrongTemplateOf(m) ==
  CASE m.return.kind = "single" -> "selectOne"
    [] m.return.kind = "slice" -> "selectMany"
    [] m.return.kind = "rows_or_id" ->
         (IF dialect = "postgres" THEN "insertIDReturning"
          ELSE IF m.kind = "INSERT" THEN "insertID" ELSE "execRows")
    [] m.return.kind = "error" -> "execErr"
    [] OTHER -> "execVoid"

\* The method template renderMethod chooses.
TemplateOf(m) ==
  CASE m.return.kind = "single" -> "selectOne"
    [] m.return.kind = "slice" -> "selectMany"
    [] m.return.kind = "rows_or_id" ->
         (IF m.kind # "INSERT" THEN "execRows"
          ELSE IF dialect = "postgres" THEN "insertIDReturning" ELSE "insertID")
    [] m.return.kind = "error" -> "execErr"
    [] OTHER -> "execVoid"

Error == <<"error">>

\* The result types the template prints.
Results(m) ==
  CASE TemplateOf(m) = "selectOne" -> << <<"*">> \o m.return.type, Error >>
    [] TemplateOf(m) = "selectMany" ->
         << (IF m.return.isPtr THEN <<"[]", "*">> ELSE <<"[]">>) \o m.return.type, Error >>
    [] TemplateOf(m) \in {"execRows", "insertID", "insertIDReturning"} -> << <<"int">>, Error >>
    [] TemplateOf(m) = "execErr" -> << Error >>
    [] OTHER -> << >>

\* The packages the template and the query body mention.
PackagesOf(c) ==
  LET t == TemplateOf(c.method)
  IN  {"strings"}
        \cup (IF t = "execVoid" THEN {} ELSE {"errors"})
        \cup (IF t \in {"selectOne", "selectMany"} THEN {"simplesql"} ELSE {})
        \cup (IF c.ctx = Background THEN {"context"} ELSE {})
        \cup (IF c.strconv THEN {"strconv"} ELSE {})

WrongLocals(template) ==
  {"s", "_sb", "_args", "_query", "_db", "_rows", "_res", "_err", "_cols", "_dest", "_ptrs", "_result", "_n", "id"}

\* The receiver, and what the query body and the template declare.
Locals(template) ==
  {"s", "_sb", "_args", "_query", "_db"} \cup
  CASE template = "selectOne" -> {"_rows", "_err", "_cols", "_dest", "_ptrs"}
    [] template = "selectMany" -> {"_rows", "_err", "_result"}
    [] template = "insertID" -> {"_res", "_err", "_id"}
    [] template = "insertIDReturning" -> {"_id", "_err"}
    [] template = "execRows" -> {"_res", "_err", "_n"}
    [] template = "execErr" -> {"_err"}
    [] OTHER -> {}

\* A method as it is printed.
renderMethod(c) ==
  [request |-> c.request, name |-> c.method.name, template |-> TemplateOf(c.method), ctx |-> c.ctx,
   params |-> c.method.params, results |-> Results(c.method), packages |-> PackagesOf(c),
   foreign |-> "foreign" \in c.method.sql]

StructOf(r) == IF r.struct # "" THEN r.struct ELSE ImplOf[r.iface]

Import(path) == [path |-> path, alias |-> ""]

Errors == << <<"github", "com">>, <<"cockroachdb">>, <<"errors">> >>
Simplesql == << <<"github", "com">>, <<"index0h">>, <<"simplesql">>, <<"simplesql">> >>
FixedImports == {Import(<< <<"context">> >>), Import(<< <<"strings">> >>), Import(Errors), Import(Simplesql)}

WrongImportBlock ==
  FixedImports
    \cup (IF \A i \in DOMAIN compiled : compiled[i].strconv THEN {Import(<< <<"strconv">> >>)} ELSE {})
    \cup UNION {ToSet(requests[i].imports) : i \in DOMAIN requests}

buildImportBlock ==
  FixedImports
    \cup (IF \E i \in DOMAIN compiled : compiled[i].strconv THEN {Import(<< <<"strconv">> >>)} ELSE {})
    \cup UNION {ToSet(requests[i].imports) : i \in DOMAIN requests}

Printed ==
  [pkg |-> requests[1].file.pkg, imports |-> buildImportBlock,
   types |-> [i \in DOMAIN requests |-> [struct |-> StructOf(requests[i]), iface |-> requests[i].iface]],
   methods |-> [i \in DOMAIN compiled |-> renderMethod(compiled[i])]]

\* format.Source accepts a type only if nothing is missing from it.
Complete(t) ==
  /\ t # << >>
  /\ \A i \in DOMAIN t : t[i] \in {"*", "[]", "map[", "]", "."} => i < Len(t) /\ t[i + 1] # "]"

Formats(f) ==
  \A i \in DOMAIN f.methods :
    /\ \A j \in DOMAIN f.methods[i].params : Complete(f.methods[i].params[j].type)
    /\ \A j \in DOMAIN f.methods[i].results : Complete(f.methods[i].results[j])

PrintFile ==
  /\ state = "print"
  /\ IF Formats(Printed) THEN state' = "written" /\ out' = Printed
                         ELSE state' = "failed" /\ UNCHANGED out
  /\ UNCHANGED <<parserVars, dialect, entries, requests, todo, compiled>>

Next == Parse \/ AddRequest \/ CompileMethod \/ CompileFails \/ Compiled \/ PrintFile

Spec == Init /\ [][Next]_vars
=============================================================================
