-------------------------------- MODULE Parser --------------------------------
(***************************************************************************)
(* internal.parserImpl.ParseInterface: the file of a directory that        *)
(* declares an interface is found, its methods are read one after the      *)
(* other, and the imports their types need are picked.                     *)
(*                                                                         *)
(* A Go type is the sequence of its words: "*", "[]", "map[", "]", "." and *)
(* identifiers. An array's length is one word, and a type expression that  *)
(* exprToString has no case for (func, chan, interface{...}, a variadic or *)
(* generic type) is one opaque word. An import path is a sequence of       *)
(* segments, a segment the sequence of what stands between its dots.       *)
(* What a doc comment yields is DocComment; here a method has a query of   *)
(* some kind or none, and of its template is known what the generated file *)
(* depends on:                                                             *)
(*   "binds"      it binds a :name somewhere                               *)
(*   "returning"  the letters RETURNING stand in it                        *)
(*   "foreign"    a :name or a condition in it means nothing in the method *)
(*                                                                         *)
(* Definitions whose name starts with Wrong are mistakes one could make in *)
(* the definition that follows them; nothing uses them.                    *)
(***************************************************************************)
EXTENDS Integers, Sequences, FiniteSets, SequencesExt, Filter

CONSTANTS
  Dirs,        \* directories: sequences of files [pkg, imports, declares]
  Declarations,\* what methods may be declared as: [name, params, results, query, sql]
  MaxMethods,  \* bound: methods read for one output file
  Arrays,      \* the words for an array's length
  Opaque,      \* the words for type expressions without a case
  Versions     \* path segments, or ends of them, like v2

ASSUME WordsAssumption ==
  /\ Arrays \cap Opaque = {}
  /\ (Arrays \cup Opaque)
       \cap {"*", "[]", "map[", "]", ".", "error", "int", "context", "Context"} = {}
ASSUME BoundAssumption == MaxMethods \in Nat

Punctuation == {"*", "[]", "map[", "]", "."} \cup Arrays \cup Opaque

\* What a type can look like in Go: something follows wherever something must,
\* an opaque expression is a whole type or operand, a name ends a type or
\* stands on either side of a dot, and only a map's key is closed.
GoType(t) ==
  /\ t \in Seq(STRING) /\ t # << >>
  /\ \A i \in DOMAIN t : t[i] \in {"*", "[]", "map[", "]", "."} \cup Arrays => i < Len(t) /\ t[i + 1] # "]"
  /\ \A i \in DOMAIN t : t[i] \in Opaque =>
       /\ IF i = 1 THEN Len(t) = 1 ELSE t[i - 1] \in {"*", "[]", "map[", "]"} \cup Arrays
       /\ i < Len(t) => t[i + 1] = "]"
  /\ \A i \in DOMAIN t : t[i] \notin Punctuation /\ i < Len(t) => t[i + 1] \in {"]", "."}
  /\ \A i \in DOMAIN t : t[i] = "." =>
       /\ i > 1 /\ t[i - 1] \notin Punctuation /\ t[i + 1] \notin Punctuation
       /\ i + 1 < Len(t) => t[i + 2] = "]"
  /\ \A i \in DOMAIN t : t[i] = "]" => \E j \in 1..(i - 1) : t[j] = "map["

FieldList(fields) ==
  /\ fields \in Seq([names : Seq(STRING), type : Seq(STRING)])
  /\ \A i \in DOMAIN fields : GoType(fields[i].type)

QueryKinds == {"SELECT", "INSERT", "UPDATE", "DELETE", ""}

ASSUME DeclarationsAssumption ==
  \A d \in Declarations :
    /\ FieldList(d.params) /\ FieldList(d.results)
    /\ d.query \in QueryKinds \cup {"none"} /\ d.sql \subseteq {"binds", "returning", "foreign"}

ASSUME DirsAssumption ==
  \A dir \in Dirs : \A i \in DOMAIN dir :
    dir[i].imports \in Seq([path : Seq(Seq(STRING)), alias : STRING])

VARIABLES
  parser,    \* "idle", "reading", "parsed", "rejected" or "missing"
  file,      \* the file that declares the interface
  declared,  \* history: the declarations that were read
  methods,   \* result.Methods
  read       \* methods read for this output file, used up of MaxMethods

parserVars == <<parser, file, declared, methods, read>>

ReturnKinds == {"nothing", "error", "single", "slice", "rows_or_id"}

ParserInit ==
  /\ parser = "idle" /\ file = [pkg |-> "", imports |-> << >>, declares |-> "nothing"]
  /\ declared = << >> /\ methods = << >> /\ read = 0

-----------------------------------------------------------------------------
(* Types. *)

\* The words exprToString prints; of an opaque expression nothing, of an
\* array as of a slice.
exprToString(t) ==
  LET kept == Keep(t, ToSet(t) \ Opaque)
  IN  [i \in DOMAIN kept |-> IF kept[i] \in Arrays THEN "[]" ELSE kept[i]]

WrongParams(fields) ==
  FlattenSeq([i \in DOMAIN fields |->
    << [name |-> fields[i].names[1], type |-> exprToString(fields[i].type)] >>])

Params(fields) ==
  FlattenSeq([i \in DOMAIN fields |->
    [j \in DOMAIN fields[i].names |->
       [name |-> fields[i].names[j], type |-> exprToString(fields[i].type)]]])

\* Every parameter has a type that can be printed, and a name.
ParamsAccepted(fields) ==
  \A i \in DOMAIN fields : exprToString(fields[i].type) # << >> /\ fields[i].names # << >>

Return(kind, type, isPtr) == [kind |-> kind, type |-> type, isPtr |-> isPtr]
Rejected == Return("rejected", << >>, FALSE)

\* The element type of the first of two results.
ElementOf(t) ==
  CASE t = <<"int">> -> Return("rows_or_id", t, FALSE)
    [] IsPrefix(<<"[]", "*">>, t) -> Return("slice", SubSeq(t, 3, Len(t)), TRUE)
    [] IsPrefix(<<"[]">>, t) /\ ~IsPrefix(<<"[]", "*">>, t) ->
         Return("slice", Tail(t), FALSE)
    [] IsPrefix(<<"*">>, t) -> Return("single", Tail(t), TRUE)
    [] OTHER -> Rejected

WrongBuildReturn(fields) ==
  LET types == [i \in DOMAIN fields |-> exprToString(fields[i].type)]
  IN  CASE fields = << >> -> Return("nothing", << >>, FALSE)
        [] types = << <<"error">> >> -> Return("error", << >>, FALSE)
        [] Len(types) = 2 /\ << >> \notin ToSet(types) -> ElementOf(types[1])
        [] OTHER -> Rejected

\* One type for each field of the result list, however many names it has.
buildReturn(fields) ==
  LET types == [i \in DOMAIN fields |-> exprToString(fields[i].type)]
  IN  CASE fields = << >> -> Return("nothing", << >>, FALSE)
        [] types = << <<"error">> >> -> Return("error", << >>, FALSE)
        [] Len(types) = 2 /\ types[1] # << >> /\ types[2] = <<"error">> -> ElementOf(types[1])
        [] OTHER -> Rejected

-----------------------------------------------------------------------------
(* Imports. *)

\* The package name an import without alias is taken to have.
defaultImportName(path) ==
  LET last == Last(path)
      named == IF Len(path) > 1 /\ Len(last) = 1 /\ last[1] \in Versions
                 THEN path[Len(path) - 1] ELSE last
  IN  IF Len(named) > 1 /\ Last(named) \in Versions THEN Front(named) ELSE named

LocalName(import) ==
  IF import.alias # "" THEN <<import.alias>> ELSE defaultImportName(import.path)

\* What stands before the first dot of a type, without leading * and [].
Qualifier(t) ==
  LET begin == CHOOSE i \in DOMAIN t : t[i] \notin {"*", "[]"} /\ \A j \in 1..(i - 1) : t[j] \in {"*", "[]"}
      dot == CHOOSE i \in DOMAIN t : t[i] = "." /\ \A j \in 1..(i - 1) : t[j] # "."
  IN  SubSeq(t, begin, dot - 1)

TypesOf(ms) ==
  UNION {{m.params[i].type : i \in DOMAIN m.params} \cup {m.return.type} : m \in ToSet(ms)}

WrongUsedImports(f, ms) ==
  LET used == {Qualifier(t) : t \in {u \in TypesOf(ms) : Contains(u, ".")}}
  IN  Keep(f.imports, {imp \in ToSet(f.imports) :
        imp.alias \in {"_", "."} \/ defaultImportName(imp.path) \in used})

usedImports(f, ms) ==
  LET used == {Qualifier(t) : t \in {u \in TypesOf(ms) : Contains(u, ".")}}
  IN  Keep(f.imports, {imp \in ToSet(f.imports) :
        imp.alias \in {"_", "."} \/ LocalName(imp) \in used})

-----------------------------------------------------------------------------
(* ParseInterface. *)

\* The files that declare the name as an interface, not as another type.
Declaring(dir) == {i \in DOMAIN dir : dir[i].declares = "interface"}

FindInterface(dir) ==
  /\ parser = "idle" /\ Declaring(dir) # {}
  /\ \E i \in Declaring(dir) :
       (\A j \in Declaring(dir) : i <= j) /\ file' = dir[i]
  /\ parser' = "reading" /\ declared' = << >> /\ methods' = << >>
  /\ UNCHANGED read

NotFound(dir) ==
  /\ parser = "idle" /\ Declaring(dir) = {}
  /\ parser' = "missing"
  /\ UNCHANGED <<file, declared, methods, read>>

\* The directory is not there, or a file of it does not parse.
ReadDirFails ==
  /\ parser = "idle" /\ parser' = "missing"
  /\ UNCHANGED <<file, declared, methods, read>>

\* The next method of the interface is declared as d.
ReadsMethod(d) ==
  /\ parser = "reading" /\ read < MaxMethods
  /\ declared' = Append(declared, d) /\ read' = read + 1
  /\ UNCHANGED file

\* Nothing is asked of a method without a query, nor of an embedded interface.
SkipMethod(d) ==
  /\ ReadsMethod(d) /\ d.query = "none"
  /\ UNCHANGED <<parser, methods>>

WrongAccepted(d) == ParamsAccepted(d.params)

Accepted(d) == ParamsAccepted(d.params) /\ buildReturn(d.results).kind # "rejected"

TakeMethod(d) ==
  /\ ReadsMethod(d) /\ d.query # "none" /\ Accepted(d)
  /\ methods' = Append(methods, [name |-> d.name, kind |-> d.query, params |-> Params(d.params),
                                 return |-> buildReturn(d.results), sql |-> d.sql])
  /\ UNCHANGED parser

RejectMethod(d) ==
  /\ ReadsMethod(d) /\ d.query # "none" /\ ~Accepted(d)
  /\ parser' = "rejected"
  /\ UNCHANGED methods

EndInterface ==
  /\ parser = "reading"
  /\ parser' = "parsed"
  /\ UNCHANGED <<file, declared, methods, read>>

ReadMethod(d) == SkipMethod(d) \/ TakeMethod(d) \/ RejectMethod(d)
=============================================================================
