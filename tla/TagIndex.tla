------------------------------- MODULE TagIndex -------------------------------
(***************************************************************************)
(* buildTagIndex, collectTagIndex and fieldPointersFromIndex of scan.go:   *)
(* which field of a struct a column of the result is written to.           *)
(*                                                                         *)
(* A struct type is the sequence of its fields. A field is a record        *)
(* [embedded, exported, tag, fields]: the fields of an embedded struct are *)
(* in fields, a tag is the sequence of its parts between commas. An        *)
(* embedded pointer is not an embedded struct. A field's index path is the *)
(* sequence of its positions, as reflect.Value.FieldByIndex takes it.      *)
(*                                                                         *)
(* WrongEntered is a mistake one could make in Entered; nothing uses it.   *)
(***************************************************************************)
EXTENDS Integers, Sequences, SequencesExt

CONSTANT
  Structs  \* the struct types of a program, each after those it embeds

Tagged(f) == f.tag \notin {<< >>, <<"">>, <<"-">>}

\* Go has no struct that embeds itself.
ASSUME StructsAssumption ==
  /\ Structs \in Seq(ToSet(Structs))
  /\ \A k \in DOMAIN Structs : /\ Structs[k] \in Seq(ToSet(Structs[k]))
                             /\ \A i \in DOMAIN Structs[k] :
                                  LET f == Structs[k][i]
                                  IN  /\ f.embedded \in BOOLEAN /\ f.tag \in Seq(STRING)
                                      /\ f.embedded => \E j \in 1..(k - 1) : f.fields = Structs[j]

\* The first fields of a struct, as far as the loop has come.
Heads == UNION {{SubSeq(Structs[k], 1, n) : n \in 0..Len(Structs[k])} : k \in DOMAIN Structs}

Paths == Seq(Nat)
Names == {h[Len(h)].tag[1] : h \in {g \in Heads : g # << >> /\ Tagged(g[Len(g)])}}

\* An index has a path for every name a tag can have. The empty path stands for
\* a name that is not in the map, and for a variable that is dropped.
Discard == << >>
Indexes == [Names -> Paths]
Empty == [name \in Names |-> Discard]

FieldIndex(prefix, i) == Append(prefix, i)

WrongEntered(m, name, path) == IF m[name] = Discard THEN [m EXCEPT ![name] = path] ELSE m

\* A later field takes the name from an earlier one.
Entered(m, name, path) == [m EXCEPT ![name] = path]

\* The index m after the fields of a struct that is embedded at prefix.
collectTagIndex[fields \in Heads] ==
  [prefix \in Paths |-> [m \in Indexes |->
    IF fields = << >> THEN m
    ELSE LET f == Last(fields)
             idx == FieldIndex(prefix, Len(fields))
             sofar == collectTagIndex[Front(fields)][prefix][m]
         IN  IF f.embedded THEN collectTagIndex[f.fields][idx][sofar]
             ELSE IF ~Tagged(f) THEN sofar
             ELSE Entered(sofar, f.tag[1], idx)]]

buildTagIndex(type) == collectTagIndex[type][<< >>][Empty]

\* Where each column goes.
fieldPointersFromIndex(cols, index) ==
  [i \in DOMAIN cols |-> IF cols[i] \in DOMAIN index THEN index[cols[i]] ELSE Discard]

-----------------------------------------------------------------------------
(* What the fields of a struct are, on its own. *)

Embeddings(type) == {i \in DOMAIN type : type[i].embedded}

\* The fields of a struct at every depth by their paths, embedded structs not
\* counted.
Fields[type \in Heads] ==
  [path \in {<<i>> : i \in DOMAIN type \ Embeddings(type)}
               \cup UNION {{<<i>> \o p : p \in DOMAIN Fields[type[i].fields]} : i \in Embeddings(type)} |->
     LET f == type[path[1]]
     IN  IF f.embedded THEN Fields[f.fields][Tail(path)] ELSE f]

Leaves(type) == DOMAIN Fields[type]
FieldAt(type, path) == Fields[type][path]

\* p is declared before q.
Before(p, q) ==
  \E i \in DOMAIN p \cap DOMAIN q : p[i] < q[i] /\ \A j \in 1..(i - 1) : p[j] = q[j]

\* The fields that a column called name may go to.
FieldsOf(type, name) ==
  {p \in Leaves(type) : Tagged(FieldAt(type, p)) /\ FieldAt(type, p).tag[1] = name}
=============================================================================
