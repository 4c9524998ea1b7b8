----------------------------- MODULE GeneratedFile -----------------------------
(***************************************************************************)
(* What a user expects of the file the generator wrote: that it builds,    *)
(* that its methods are those of the interface, that they reach the        *)
(* caller's transaction. The rules of Go are stated here on their own, on  *)
(* the declarations as the user wrote them and on the printed file.        *)
(***************************************************************************)
EXTENDS Generator

CONSTANTS
  NewOf,       \* NewOf[n]: New and then n, the name of the constructor
  PackageName, \* PackageName[path]: what the package at path calls itself
  Declares,    \* Declares[p]: the names package p declares at its top
  Exports      \* Exports[path]: the names a dot import of path brings

\* What the packages the generator imports call themselves.
ASSUME PackagesAssumption ==
  /\ PackageName[<< <<"context">> >>] = "context"
  /\ PackageName[<< <<"strings">> >>] = "strings"
  /\ PackageName[<< <<"strconv">> >>] = "strconv"
  /\ PackageName[Errors] = "errors"
  /\ PackageName[Simplesql] = "simplesql"

Predeclared == {"string", "int", "byte", "error", "any"}

Qualifiers(t) == {t[i] : i \in {j \in DOMAIN t : j < Len(t) /\ t[j + 1] = "."}}
Unqualified(t) ==
  {t[i] : i \in {j \in DOMAIN t : /\ t[j] \notin Punctuation
                                  /\ j > 1 => t[j - 1] # "."
                                  /\ j < Len(t) => t[j + 1] # "."}}

\* Imports that are used through a name, and that name.
Named(imports) == {imp \in imports : imp.alias \notin {"_", "."}}
NameOf(imp) == IF imp.alias # "" THEN imp.alias ELSE PackageName[imp.path]
Dotted(imports) == UNION {Exports[imp.path] : imp \in {i \in imports : i.alias = "."}}

\* The names a file can use in its types.
InScope(pkg, imports) == Predeclared \cup Declares[pkg] \cup Dotted(imports)

-----------------------------------------------------------------------------
(* The source. *)

DeclaredTypes(d) ==
  {d.params[i].type : i \in DOMAIN d.params} \cup {d.results[i].type : i \in DOMAIN d.results}

\* The names of a field list.
NamesOf(fields) == FlattenSeq([i \in DOMAIN fields |-> fields[i].names])

\* A name stands once in a list, unless it is blank.
OnceEach(names) == \A i, j \in DOMAIN names : i # j /\ names[i] = names[j] => names[i] = "_"

\* The keys of its maps are neither slices nor maps.
Comparable(t) == \A i \in DOMAIN t : t[i] = "map[" => t[i + 1] \notin {"[]", "map["}

\* The Go compiler accepts declaration d in file f. Only such files are parsed.
Valid(f, d) ==
  /\ \A t \in DeclaredTypes(d) :
       /\ Qualifiers(t) \subseteq {NameOf(imp) : imp \in Named(ToSet(f.imports))}
       /\ Unqualified(t) \subseteq InScope(f.pkg, ToSet(f.imports))
       /\ Comparable(t)
  /\ OnceEach(NamesOf(d.params) \o NamesOf(d.results))

ValidSources ==
  /\ \A i \in DOMAIN declared : Valid(file, declared[i])
  /\ \A i, j \in DOMAIN declared : declared[i].name = declared[j].name => i = j

GoSpec == Init /\ [][Next /\ ValidSources']_vars

\* The types of a field list, one for each of its names.
Flat(fields) ==
  FlattenSeq([i \in DOMAIN fields |->
    IF fields[i].names = << >> THEN << fields[i].type >>
    ELSE [j \in DOMAIN fields[i].names |-> fields[i].type]])

Queried(r) == Keep(r.declared, {d \in ToSet(r.declared) : d.query # "none"})

AllQueried == FlattenSeq([i \in DOMAIN requests |-> Queried(requests[i])])

\* The README's table of signatures.
Documented(d) ==
  LET results == Flat(d.results)
  IN  /\ \/ results \in {<< >>, << Error >>, << <<"int">>, Error >>}
         \/ /\ Len(results) = 2 /\ results[2] = Error
            /\ IsPrefix(<<"*">>, results[1]) \/ IsPrefix(<<"[]">>, results[1])
      /\ \A i \in DOMAIN d.params : d.params[i].names # << >>
      /\ \A t \in DeclaredTypes(d) : ToSet(t) \cap Opaque = {}

\* Neither arrays, which exprToString prints as slices, nor results that share
\* a type, of which buildReturn counts one.
Ordinary(d) ==
  /\ \A t \in DeclaredTypes(d) : ToSet(t) \cap Arrays = {}
  /\ \A i \in DOMAIN d.results : Len(d.results[i].names) <= 1

-----------------------------------------------------------------------------
(* The printed file. *)

PrintedTypes(f) ==
  UNION {{f.methods[i].params[j].type : j \in DOMAIN f.methods[i].params}
           \cup ToSet(f.methods[i].results) : i \in DOMAIN f.methods}

\* The struct and every constructor mention simplesql.
UsedNames(f) ==
  {"simplesql"} \cup (UNION {Qualifiers(t) : t \in PrintedTypes(f)})
    \cup (UNION {f.methods[i].packages : i \in DOMAIN f.methods})

\* Predeclared names that the printed code means.
BodyWords == {"any", "append", "int", "len", "nil"}
FileWords == BodyWords \cup {"error", "string"}

\* What the body of a method means: packages, predeclared names, and the type
\* of the rows where rows are scanned.
Meant(m) ==
  m.packages \cup BodyWords \cup
  IF m.template \in {"selectOne", "selectMany"}
    THEN Qualifiers(m.results[1]) \cup Unqualified(m.results[1]) ELSE {}

\* No parameter is declared twice or hides what the body means, the context
\* has a name, and the template names parameters only.
MethodBuilds(m) ==
  LET names == [i \in DOMAIN m.params |-> m.params[i].name]
  IN  /\ ToSet(names) \cap (Locals(m.template) \cup Meant(m)) = {}
      /\ OnceEach(names) /\ m.ctx # "_" /\ ~m.foreign

\* The methods of a struct differ, also from its field.
MethodsDiffer(f) ==
  \A i, j \in DOMAIN f.methods :
    /\ f.methods[i].name # "cm"
    /\ f.methods[i].request = f.methods[j].request /\ f.methods[i].name = f.methods[j].name => i = j

Disjoint(sets) == \A i, j \in DOMAIN sets : i # j => sets[i] \cap sets[j] = {}

ImportNames(imports) == {NameOf(imp) : imp \in Named(imports)}

\* Every name has one meaning in the file and in its package.
NamesDiffer(f) ==
  LET structs == {f.types[i].struct : i \in DOMAIN f.types}
      constructors == {NewOf[f.types[i].iface] : i \in DOMAIN f.types}
  IN  /\ Disjoint(<<structs, constructors, Declares[f.pkg], ImportNames(f.imports),
                    Dotted(f.imports), FileWords>>)
      /\ (structs \cup constructors) \cap {"_", "init", "main"} = {}
      /\ \A i, j \in DOMAIN f.types : i # j =>
           /\ f.types[i].struct # f.types[j].struct
           /\ NewOf[f.types[i].iface] # NewOf[f.types[j].iface]
      /\ \A imp1, imp2 \in Named(f.imports) : NameOf(imp1) = NameOf(imp2) => imp1 = imp2
      /\ \A imp1, imp2 \in f.imports :
           imp1.alias = "." /\ imp2.alias = "." /\ Exports[imp1.path] \cap Exports[imp2.path] # {}
             => imp1 = imp2

\* The Go compiler accepts f, put into its package. Where the rules of Go
\* depend on more than is modelled, whether a body appends to _args say, this
\* refuses what Go may accept; it accepts nothing that Go refuses.
GoBuilds(f) ==
  /\ NamesDiffer(f)
  /\ UsedNames(f) = ImportNames(f.imports)
  /\ \A imp \in f.imports : imp.alias = "." =>
       \E t \in PrintedTypes(f) : Unqualified(t) \cap Exports[imp.path] # {}
  /\ \A t \in PrintedTypes(f) : Unqualified(t) \subseteq InScope(f.pkg, f.imports) /\ Comparable(t)
  /\ \A i \in DOMAIN f.methods : MethodBuilds(f.methods[i])
  /\ MethodsDiffer(f)

-----------------------------------------------------------------------------
(* Types. *)

TypeOK ==
  /\ parser \in {"idle", "reading", "parsed", "rejected", "missing"}
  /\ state \in {"parse", "compile", "print", "written", "failed"}
  /\ declared \in Seq(Declarations) /\ read \in 0..MaxMethods
  /\ \A i \in DOMAIN methods : methods[i].kind \in QueryKinds /\ methods[i].return.kind \in ReturnKinds
  /\ \A i \in DOMAIN compiled : compiled[i].request \in DOMAIN requests
  /\ \A i \in DOMAIN todo : todo[i].request \in DOMAIN requests
  /\ parser \in {"rejected", "missing"} => state = "failed"

-----------------------------------------------------------------------------
(* Properties. *)

MatchesDeclaration(m, d) ==
  /\ [i \in DOMAIN m.params |-> m.params[i].type] = Flat(d.params)
  /\ [i \in DOMAIN m.params |-> m.params[i].name] =
       FlattenSeq([i \in DOMAIN d.params |-> d.params[i].names])
  /\ m.results = Flat(d.results)

\* The README: what simplesql cannot express "is rejected at generation time
\* with a clear error, rather than generating code that silently doesn't match
\* the interface" (parser.go:274-331).
MatchesInterface ==
  state = "written" =>
    \A i \in DOMAIN out.methods : MatchesDeclaration(out.methods[i], AllQueried[i])

\* The same of declarations without arrays and without results that share a
\* type: each printed method has the names and types the user declared, though
\* it is printed from a template and not from the declaration.
SignaturesAreKept ==
  state = "written" =>
    \A i \in DOMAIN out.methods :
      Ordinary(AllQueried[i]) => MatchesDeclaration(out.methods[i], AllQueried[i])

\* Of ordinary declarations exactly the README's signatures come through: what
\* the parser lets pass although it cannot print it, []func() say, go/format
\* stops, and neither stops a signature of the table (parser.go:233-346,
\* generator.go:96-99).
TableIsEnforced ==
  /\ state = "written" =>
       \A i \in DOMAIN AllQueried : Ordinary(AllQueried[i]) => Documented(AllQueried[i])
  /\ parser = "rejected" => ~Documented(Last(declared))
  /\ state = "failed" /\ parser = "idle" /\ todo = << >> =>
       \E i \in DOMAIN AllQueried : ~Documented(AllQueried[i])

ContextImport == Import(<< <<"context">> >>)

ContextType == <<"context", ".", "Context">>

\* In file f, type t is package context's Context, however the file calls it.
IsContext(f, t) ==
  \E imp \in ToSet(f.imports) :
    /\ imp.path = ContextImport.path
    /\ t = IF imp.alias = "." THEN <<"Context">> ELSE <<NameOf(imp), ".", "Context">>

\* The first parameter is a context.Context, of the package of that name.
TakesContext(f, d) ==
  ContextImport \in ToSet(f.imports) /\ d.params # << >> /\ d.params[1].type = ContextType

\* The first parameter is no context, under whatever name.
TakesNoContext(f, d) ==
  \/ d.params = << >>
  \/ d.params[1].type # ContextType /\ ~IsContext(f, d.params[1].type)

\* The README: a context.Context that comes first is forwarded, so that the
\* method joins the caller's transaction, and is no parameter of the query;
\* without one it is context.Background(). Of several contexts the first is
\* meant, also when they share their type (generator.go:157-164). Of a context
\* under another name, or another type under this name, nothing is said: the
\* code looks at the spelling.
ContextIsForwarded ==
  \A i \in DOMAIN compiled :
    LET c == compiled[i]
        d == AllQueried[i]
        f == requests[c.request].file
        names == NamesOf(d.params)
        bound == [j \in DOMAIN c.bound |-> c.bound[j].name]
    IN  /\ TakesContext(f, d) => c.ctx = names[1] /\ bound = Tail(names)
        /\ TakesNoContext(f, d) => c.ctx = Background /\ bound = names

\* How the id of a new row comes back is decided twice, where the query is
\* compiled and where the method's template is chosen: on Postgres a RETURNING
\* clause is read, appended unless the user wrote the word, elsewhere
\* LastInsertId, and every other method has no such clause appended
\* (compiler.go:72-81, generator.go:116-134).
IdComesBack ==
  state = "written" =>
    \A i \in DOMAIN out.methods :
      LET d == AllQueried[i]
          means == out.methods[i].template
          id == d.query = "INSERT" /\ means \in {"insertID", "insertIDReturning", "execRows"}
      IN  /\ compiled[i].returning => means = "insertIDReturning"
          /\ means = "insertIDReturning" => compiled[i].returning \/ "returning" \in d.sql
          /\ id => means = IF dialect = "postgres" THEN "insertIDReturning" ELSE "insertID"
          /\ d.query # "INSERT" => means \notin {"insertID", "insertIDReturning"}

AllImports == UNION {ToSet(requests[i].file.imports) : i \in DOMAIN requests}
OwnPackages == {"context", "strings", "strconv", "errors", "simplesql"}
OwnImports == FixedImports \cup {Import(<< <<"strconv">> >>)}

\* Imports among which the generator can tell the right ones.
PlainImports ==
  /\ \A imp \in AllImports : imp.alias # "."
  /\ \A imp \in Named(AllImports) :
       /\ imp.alias = "" => defaultImportName(imp.path) = << PackageName[imp.path] >>
       /\ NameOf(imp) \in OwnPackages => imp \in OwnImports
  /\ \A imp1, imp2 \in Named(AllImports) : NameOf(imp1) = NameOf(imp2) => imp1 = imp2

\* Names no parameter should have.
Reserved ==
  {"s", "_", "_sb", "_args", "_query", "_db", "_rows", "_err", "_cols", "_dest", "_ptrs", "_result",
   "_res", "_id", "_n"} \cup OwnPackages \cup BodyWords

\* No package below a map, no parameter with a name that the printed method
\* uses or that its results' types mention, nothing but parameters in the
\* template, and a name other than the struct's field.
PlainDeclaration(d) ==
  /\ Ordinary(d)
  /\ \A t \in DeclaredTypes(d) : Contains(t, ".") => ~Contains(t, "map[")
  /\ \A i \in DOMAIN d.params :
       /\ ToSet(d.params[i].names) \cap Reserved = {}
       /\ \A j \in DOMAIN d.results : \A n \in ToSet(d.params[i].names) :
            n \notin Qualifiers(d.results[j].type) \cup Unqualified(d.results[j].type)
  /\ d.name # "cm" /\ "foreign" \notin d.sql

\* Entries of one package, with structs and constructors of their own, in which
\* no name means two things.
PlainEntries ==
  LET structs == {StructOf(requests[i]) : i \in DOMAIN requests}
      constructors == {NewOf[requests[i].iface] : i \in DOMAIN requests}
  IN  /\ \A i, j \in DOMAIN requests :
           /\ requests[i].file.pkg = requests[j].file.pkg
           /\ i # j => /\ NewOf[requests[i].iface] # NewOf[requests[j].iface]
                       /\ StructOf(requests[i]) # StructOf(requests[j])
      /\ \A i \in DOMAIN requests :
           Disjoint(<<structs, constructors, Declares[requests[i].file.pkg],
                      ImportNames(AllImports) \cup OwnPackages, FileWords>>)
      /\ (structs \cup constructors) \cap {"_", "init", "main"} = {}

\* A file builds whatever methods, results and dialects come together in it, if
\* its sources avoid what the generator does not look at and some method
\* answers something: every package is imported that a type, a template or a
\* query body needs, and no other (parser.go:117-158, generator.go:166-183).
PlainFilesBuild ==
  /\ state = "written" /\ PlainImports /\ PlainEntries
  /\ \A i \in DOMAIN AllQueried : PlainDeclaration(AllQueried[i])
  /\ \E i \in DOMAIN AllQueried : AllQueried[i].results # << >>
  => GoBuilds(out)

\* The README: simplesql turns interfaces "into fully working `database/sql`
\* implementations", whatever rows of its table of signatures they use.
GeneratedFileBuilds ==
  /\ state = "written" /\ AllQueried # << >>
  /\ \A i \in DOMAIN AllQueried : Documented(AllQueried[i])
  => GoBuilds(out)
=============================================================================
