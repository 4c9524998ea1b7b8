----------------------------- MODULE MCGenerator -----------------------------
(* Instances of GeneratedFile for TLC: see the .cfg files. *)
EXTENDS GeneratedFile, TLC

Alias(path, name) == [path |-> path, alias |-> name]
MCFile(pkg, imports) == [pkg |-> pkg, imports |-> imports, declares |-> "interface"]

Context == << <<"context">> >>
Model == << <<"example", "com">>, <<"model">> >>
Yaml == << <<"gopkg", "in">>, <<"yaml", "v3">> >>
Driver == << <<"example", "com">>, <<"driver">>, <<"v2">> >>
Odd == << <<"example", "com">>, <<"go-uuid">> >>
OldErrors == << <<"example", "com">>, <<"errors">> >>

MCPackageName ==
  Context :> "context" @@ Model :> "model" @@ Yaml :> "yaml" @@ Driver :> "driver" @@ Odd :> "uuid"
    @@ OldErrors :> "errors" @@ Errors :> "errors" @@ Simplesql :> "simplesql"
    @@ << <<"strings">> >> :> "strings" @@ << <<"strconv">> >> :> "strconv"
MCDeclares == "repo" :> {"User", "Users", "Orders"} @@ "other" :> {"Orders", "NewOrders"}
MCExports == [p \in DOMAIN MCPackageName |-> IF p = Model THEN {"Item"} ELSE {}]

\* The interface is in the second file that has its name; the first one has
\* another import of the same name.
Plain == MCFile("repo", << Import(Context), Alias(Model, "m"), Import(Yaml), Import(Driver) >>)
MCDirs ==
  { << [Plain EXCEPT !.declares = "other", !.imports = << Alias(Odd, "m") >>], Plain,
       MCFile("repo", << Import(Context), Alias(Driver, "m") >>) >>,
    << MCFile("repo", << Import(Context), Alias(OldErrors, "m"), Alias(Driver, "_"), Alias(Model, ".") >>) >>,
    << MCFile("repo", << Import(Odd), Import(OldErrors), Alias(Context, "std") >>) >>,
    << MCFile("other", << Import(Context), Alias(Model, "m") >>) >>,
    << [Plain EXCEPT !.declares = "nothing"] >> }

Ptr(t) == <<"*">> \o t
Slice(t) == <<"[]">> \o t
In(pkg, name) == <<pkg, ".", name>>
Map(t) == <<"map[", "string", "]">> \o t
F(names, type) == [names |-> names, type |-> type]
One(type) == F(<< >>, type)
Ctx == F(<<"ctx">>, In("context", "Context"))

\* Parameter lists, and result lists.
MCParams ==
  << << >>, <<Ctx>>, <<Ctx, F(<<"a", "b">>, <<"int">>)>>, <<F(<<"c", "d">>, In("context", "Context"))>>,
    <<F(<<"ctx">>, In("std", "Context")), F(<<"a">>, <<"int">>)>>,
    <<F(<<"a">>, <<"int">>), F(<<"ctx">>, In("std", "Context"))>>,
    <<F(<<"a">>, Slice(Ptr(In("yaml", "Node"))))>>,
    <<F(<<"a">>, Map(In("driver", "Value")))>>,
    <<F(<<"a">>, In("uuid", "UUID")), F(<<"b">>, In("errors", "E"))>>, <<F(<<"a">>, <<"Item">>)>>,
    <<F(<<"a">>, <<"[4]", "byte">>)>>, <<F(<<"a">>, <<"func()">>)>>, <<F(<<"a">>, <<"[]", "func()">>)>>,
    <<F(<<"a">>, <<"map[", "interface{}", "]", "int">>)>>,
    <<F(<< >>, <<"int">>)>>, <<F(<<"_">>, In("context", "Context"))>>, <<F(<<"errors">>, <<"string">>)>> >>
User == <<"User">>
MCResults ==
  << << >>, <<One(Error)>>, <<F(<<"n">>, <<"int">>), F(<<"err">>, Error)>>,
    <<One(Ptr(User)), One(Error)>>, <<One(Slice(Ptr(User))), One(Error)>>,
    <<One(Slice(In("driver", "Row"))), One(Error)>>, <<One(Slice(Slice(In("m", "T")))), One(Error)>>,
    <<One(User), One(Error)>>, <<One(Ptr(User)), One(User)>>, <<One(Error), One(Error)>>,
    <<F(<<"a", "b">>, Error)>>, <<F(<<"a", "b">>, Ptr(User)), F(<<"err">>, Error)>>,
    <<One(<<"[4]", "byte">>), One(Error)>>, <<One(<<"func()">>), One(Error)>>,
    <<One(Ptr(<<"func()">>)), One(Error)>> >>

Declaration(name, params, results, query, sql) ==
  [name |-> name, params |-> params, results |-> results, query |-> query, sql |-> sql]

\* The templates bind a, where there is one.
Bound(params) == IF \E i \in DOMAIN params : "a" \in ToSet(params[i].names) THEN {"binds"} ELSE {}

IntError == <<One(<<"int">>), One(Error)>>

UserError == <<One(Ptr(User)), One(Error)>>

\* Every parameter list, every result list, what makes neither, names the
\* printed code needs itself, and templates of every kind.
MCDeclarations ==
  {Declaration("Insert" \o ToString(i), MCParams[i], IntError, "INSERT", Bound(MCParams[i])) : i \in DOMAIN MCParams}
    \cup {Declaration("Select" \o ToString(i), <<Ctx>>, MCResults[i], "SELECT", {}) : i \in DOMAIN MCResults}
    \cup {Declaration("No" \o q, << >>, << >>, q, {}) : q \in {"none", ""}}
    \cup {Declaration("By" \o n, <<Ctx, F(<<n>>, <<"int">>)>>, UserError, "SELECT", {}) : n \in {"_rows", "nil", "User"}}
    \cup {Declaration("cm", <<Ctx>>, <<One(Error)>>, "UPDATE", {}),
          Declaration("Returning", <<Ctx, F(<<"id">>, <<"int">>)>>, IntError, "INSERT", {"returning"}),
          Declaration("Foreign", <<Ctx>>, UserError, "SELECT", {"binds", "foreign"})}

MCEntries ==
  { << [iface |-> "Users", struct |-> "User"] >>,
    << [iface |-> "Users", struct |-> ""], [iface |-> "Orders", struct |-> ""] >> }
MCImplOf == "Users" :> "usersImpl" @@ "Orders" :> "ordersImpl"
MCNewOf == "Users" :> "NewUsers" @@ "Orders" :> "NewOrders"

\* Sources without any of the generator's known limits.
MCPlainDirs == {<< Plain >>}
MCPlainEntries == {<< [iface |-> "Users", struct |-> ""] >>}
MCPlainDeclarations ==
  LET results == << << >>, <<One(Error)>>, IntError, UserError >>
  IN  {Declaration(q \o ToString(i), <<Ctx, F(<<"a">>, <<"int">>)>>, results[i], q, {"binds"}) :
         i \in DOMAIN results, q \in {"SELECT", "INSERT"}}
MCTypedDeclarations ==
  MCPlainDeclarations
    \cup {Declaration("Two", <<Ctx>>, <<F(<<"a", "b">>, Ptr(User)), F(<<"err">>, Error)>>, "SELECT", {}),
          Declaration("Array", <<Ctx>>, <<One(<<"[4]", "byte">>), One(Error)>>, "SELECT", {})}
=============================================================================
