------------------------------ MODULE DocComment ------------------------------
(***************************************************************************)
(* parserImpl.extractSQL and what follows it: the comments above an        *)
(* interface method are read line by line, what stands after @sql is the   *)
(* template, and the tokenizer cuts it up.                                 *)
(*                                                                         *)
(* A line is a sequence of symbols, the slashes that make it a comment     *)
(* being the first. Definitions whose name starts with Wrong are mistakes  *)
(* one could make in the definition that follows them; nothing uses them.  *)
(***************************************************************************)
EXTENDS Tokenizer

CONSTANTS
  Docs,   \* the doc comments, sequences of lines
  KindOf  \* the query kind of the words that begin with an SQL keyword

\* Comments that begin with slashes; a block comment is one text with its delimiters.
ASSUME DocsAssumption ==
  \A d \in Docs : d \in Seq(Seq(Symbols)) /\ \A i \in DOMAIN d : d[i] # << >> /\ d[i][1] = "//"
ASSUME KindsAssumption == \A w \in DOMAIN KindOf : KindOf[w] \in {"SELECT", "INSERT", "UPDATE", "DELETE"}

VARIABLES
  doc,    \* history: the whole doc comment
  left,   \* the lines that were not read yet
  lines,  \* the lines of the query
  inSQL,  \* the tag was seen
  kind    \* "unread", then the QueryKind ("": none of them), or "skipped"

docVars == <<doc, left, lines, inSQL, kind>>
vars == <<docVars, tokenizerVars>>

QueryKinds == {"SELECT", "INSERT", "UPDATE", "DELETE"}

TypeOK ==
  /\ TokensTypeOK
  /\ doc \in Seq(Seq(Symbols))
  /\ left \in Seq(Seq(Symbols)) /\ lines \in Seq(Seq(Symbols))
  /\ inSQL \in BOOLEAN
  /\ kind \in QueryKinds \cup {"unread", "skipped", ""}

Init ==
  /\ doc \in Docs /\ left = doc /\ lines = << >> /\ inSQL = FALSE /\ kind = "unread"
  /\ TokenizerInit

-----------------------------------------------------------------------------

TrimPrefix(s, symbol) == IF s # << >> /\ s[1] = symbol THEN Tail(s) ELSE s

\* What stands in a comment line.
Text(line) == TrimPrefix(TrimPrefix(line, "//"), " ")

\* What stands after the first tag of a line.
AfterTag(s) ==
  LET i == CHOOSE i \in DOMAIN s : s[i] = "@sql" /\ \A j \in 1..(i - 1) : s[j] # "@sql"
  IN  From(s, i + 1)

ReadsLine == kind = "unread" /\ left # << >> /\ left' = Tail(left)

Prose ==
  /\ ReadsLine /\ ~inSQL /\ ~Contains(Text(Head(left)), "@sql")
  /\ UNCHANGED <<doc, lines, inSQL, kind, tokenizerVars>>

WrongTag ==
  /\ ReadsLine /\ ~inSQL /\ Contains(Text(Head(left)), "@sql")
  /\ inSQL' = TRUE
  /\ UNCHANGED <<doc, lines, kind, tokenizerVars>>

\* The query begins after the tag, or on the next line.
TagLine ==
  /\ ReadsLine /\ ~inSQL /\ Contains(Text(Head(left)), "@sql")
  /\ inSQL' = TRUE
  /\ LET rest == TrimSpace(AfterTag(Text(Head(left))))
     IN  lines' = IF rest = << >> THEN lines ELSE Append(lines, rest)
  /\ UNCHANGED <<doc, kind, tokenizerVars>>

SQLLine ==
  /\ ReadsLine /\ inSQL
  /\ lines' = Append(lines, Text(Head(left)))
  /\ UNCHANGED <<doc, inSQL, kind, tokenizerVars>>

WrongJoin(ls) == FlattenSeq(ls)

\* strings.Join with newlines.
Join(ls) ==
  FlattenSeq([i \in DOMAIN ls |-> IF i = 1 THEN ls[i] ELSE <<NL>> \o ls[i]])

WrongKind(ls) ==
  LET first == TrimSpace(Last(ls))
  IN  IF first # << >> /\ first[1] \in DOMAIN KindOf THEN KindOf[first[1]] ELSE ""

\* The first line alone tells the kind of the query.
Kind(ls) ==
  LET first == TrimSpace(ls[1])
  IN  IF first # << >> /\ first[1] \in DOMAIN KindOf THEN KindOf[first[1]] ELSE ""

ReadAll == kind = "unread" /\ left = << >>

\* No tag, or nothing after it: the method is left out.
SkipMethod ==
  /\ ReadAll /\ Join(lines) = << >>
  /\ kind' = "skipped"
  /\ UNCHANGED <<doc, left, lines, inSQL, tokenizerVars>>

TakeMethod ==
  /\ ReadAll /\ Join(lines) # << >>
  /\ kind' = Kind(lines)
  /\ Tokenize(Join(lines))
  /\ UNCHANGED <<doc, left, lines, inSQL>>

Next ==
  \/ Prose \/ TagLine \/ SQLLine
  \/ SkipMethod \/ TakeMethod
  \/ TokenizerNext /\ UNCHANGED docVars

Spec == Init /\ [][Next]_vars

-----------------------------------------------------------------------------
(* Properties. *)

\* What is kept of symbol i: no space, but one before a word that is not the first.
Piece(s, i) ==
  LET before == {j \in 1..(i - 1) : s[j] \notin Space}
  IN  IF s[i] \in Space THEN << >>
      ELSE IF before # {} /\ (i - 1) \notin before THEN <<" ", s[i]>> ELSE <<s[i]>>

\* Text up to the width of its spaces: each run of them is one, none at the ends.
Normal(s) == FlattenSeq([i \in DOMAIN s |-> Piece(s, i)])

\* The comment as its reader sees it, without slashes, and what of it is after @sql.
Bare(ls) == FlattenSeq([i \in DOMAIN ls |-> Append(Tail(ls[i]), NL)])
RestOf(s) == IF Contains(s, "@sql") THEN AfterTag(s) ELSE << >>
Rest == RestOf(Bare(doc))

\* The README: everything from @sql to the end of the comment is the template,
\* and a method is skipped if there is none. No line is lost, and the words at
\* a line's end and at the next one's beginning stay apart (parser.go:189-217).
TemplateIsTheRest ==
  /\ kind = "skipped" => Normal(Rest) = << >>
  /\ state # "idle" => Normal(input) = Normal(Rest)

\* A query kind decides between the new row's id and a number of rows: it is
\* the keyword the query begins with, wherever the query begins, as long as it
\* is not an empty line (parser.go:217-228).
KindIsLeadingKeyword ==
  state # "idle" /\ Normal(lines[1]) # << >> =>
    LET first == Normal(Rest)[1]
    IN  kind = IF first \in DOMAIN KindOf THEN KindOf[first] ELSE ""
=============================================================================
