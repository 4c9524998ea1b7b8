------------------------------ MODULE Tokenizer ------------------------------
(***************************************************************************)
(* internal.Tokenizer.tokenize: the text of a template is cut at "{{" and  *)
(* "}}". A template is a sequence of symbols: the single braces and spaces *)
(* that decide where an action begins and ends, and whole words. DocComment *)
(* says where templates come from.                                         *)
(*                                                                         *)
(* The definitions whose name starts with Wrong are mistakes one could     *)
(* make in the definition that follows them; nothing uses them.            *)
(***************************************************************************)
EXTENDS Integers, Sequences, FiniteSets, SequencesExt

CONSTANTS
  Symbols,  \* what a template is made of
  Words     \* the ones that are identifiers, besides the keywords

Keywords == {"if", "else", "end"}
NL == "newline"
Space == {" ", NL}

ASSUME SymbolsAssumption == Keywords \cup Words \cup {"{", "}"} \cup Space \subseteq Symbols
ASSUME WordsAssumption == Words \cap ({"{", "}"} \cup Space) = {}

VARIABLES
  input,   \* history: the whole template
  sql,     \* what is left of it
  tokens,  \* the tokens so far
  state    \* "idle", "reading", "done" or "rejected"

tokenizerVars == <<input, sql, tokens, state>>

Tok(kind, text) == [kind |-> kind, text |-> text]
Kinds == {"text", "if", "elseif", "else", "end", "subst"}

\* An expression is not empty and has no spaces around it.
TokensTypeOK ==
  /\ input \in Seq(Symbols)
  /\ sql \in Seq(Symbols)
  /\ tokens \in Seq([kind : Kinds, text : Seq(Symbols)])
  /\ \A i \in DOMAIN tokens :
       tokens[i].kind \in {"if", "elseif"} =>
         tokens[i].text # << >> /\ tokens[i].text[1] \notin Space /\ Last(tokens[i].text) \notin Space
  /\ state \in {"idle", "reading", "done", "rejected"}

-----------------------------------------------------------------------------
(* strings.Index, strings.TrimSpace, strings.HasPrefix. *)

\* Where the brace stands twice for the first time; 0: nowhere.
Index(s, brace) ==
  LET at == {i \in 1..Len(s) - 1 : s[i] = brace /\ s[i + 1] = brace}
  IN  IF at = {} THEN 0 ELSE CHOOSE i \in at : \A j \in at : i <= j

From(s, i) == SubSeq(s, i, Len(s))
To(s, i) == SubSeq(s, 1, i)

TrimSpace(s) ==
  LET solid == {i \in DOMAIN s : s[i] \notin Space}
  IN  IF solid = {} THEN << >>
      ELSE LET first == CHOOSE i \in solid : \A j \in solid : i <= j
               last == CHOOSE i \in solid : \A j \in solid : j <= i
           IN  SubSeq(s, first, last)

\* The token an action stands for, or none.
ElseIfPrefix == <<"else", " ", "if", " ">>
IfPrefix == <<"if", " ">>

IsIdent(s) == Len(s) = 1 /\ s[1] \in Words \cup Keywords

WrongClassifyAction(s) ==
  CASE s = <<"end">> -> {Tok("end", << >>)}
    [] s = <<"else">> -> {Tok("else", << >>)}
    [] IsPrefix(ElseIfPrefix, s) -> {Tok("elseif", From(s, 4))}
    [] IsPrefix(IfPrefix, s) -> {Tok("if", From(s, 3))}
    [] OTHER -> IF IsIdent(s) THEN {Tok("subst", s)} ELSE {}

ClassifyAction(s) ==
  CASE s = <<"end">> -> {Tok("end", << >>)}
    [] s = <<"else">> -> {Tok("else", << >>)}
    [] IsPrefix(ElseIfPrefix, s) -> {Tok("elseif", TrimSpace(From(s, 4)))}
    [] IsPrefix(IfPrefix, s) -> {Tok("if", TrimSpace(From(s, 2)))}
    [] OTHER -> IF IsIdent(s) THEN {Tok("subst", s)} ELSE {}

-----------------------------------------------------------------------------

TokenizerInit == input = << >> /\ sql = << >> /\ tokens = << >> /\ state = "idle"

\* tokenize is called with s.
Tokenize(s) ==
  /\ state = "idle"
  /\ input' = s /\ sql' = s /\ state' = "reading"
  /\ UNCHANGED tokens

Open == Index(sql, "{")
AfterOpen == From(sql, Open + 2)
Close == Index(AfterOpen, "}")

WrongLeading == IF Open > 1 THEN <<Tok("text", TrimSpace(To(sql, Open - 1)))>> ELSE << >>

\* The text before the next action.
Leading == IF Open > 1 THEN <<Tok("text", To(sql, Open - 1))>> ELSE << >>

Reading == state = "reading" /\ sql # << >>

TailText ==
  /\ Reading /\ Open = 0
  /\ tokens' = Append(tokens, Tok("text", sql))
  /\ sql' = << >>
  /\ UNCHANGED <<input, state>>

WrongAction ==
  /\ Reading /\ Open > 0 /\ Close > 0
  /\ \E tk \in ClassifyAction(TrimSpace(To(AfterOpen, Close - 1))) :
       tokens' = tokens \o <<Tok("text", To(sql, Open - 1)), tk>>
  /\ sql' = From(AfterOpen, Close + 2)
  /\ UNCHANGED <<input, state>>

Action ==
  /\ Reading /\ Open > 0 /\ Close > 0
  /\ \E tk \in ClassifyAction(TrimSpace(To(AfterOpen, Close - 1))) :
       tokens' = tokens \o Leading \o <<tk>>
  /\ sql' = From(AfterOpen, Close + 2)
  /\ UNCHANGED <<input, state>>

\* "unclosed {{", or an action that is none of the known ones.
Reject ==
  /\ Reading /\ Open > 0
  /\ Close > 0 => ClassifyAction(TrimSpace(To(AfterOpen, Close - 1))) = {}
  /\ state' = "rejected"
  /\ UNCHANGED <<input, sql, tokens>>

Finish ==
  /\ state = "reading" /\ sql = << >>
  /\ state' = "done"
  /\ UNCHANGED <<input, sql, tokens>>

TokenizerNext == TailText \/ Action \/ Reject \/ Finish

-----------------------------------------------------------------------------
(* Properties. *)

\* s has spaces around t.
Padded(s, t) ==
  \E a \in 0..Len(s) - Len(t) :
    /\ SubSeq(s, a + 1, a + Len(t)) = t
    /\ \A i \in DOMAIN s : i \in a + 1..a + Len(t) \/ s[i] \in Space

Keyword(tk) ==
  CASE tk.kind = "if" -> IfPrefix
    [] tk.kind = "elseif" -> ElseIfPrefix
    [] tk.kind = "subst" -> << >>
    [] OTHER -> <<tk.kind>>

\* The words of an action: a keyword, then an expression or a name.
Says(tk, words) ==
  \E k \in 0..Len(words) :
    Padded(To(words, k), Keyword(tk)) /\ Padded(From(words, k + 1), tk.text)

Braced(words) == <<"{", "{">> \o words \o <<"}", "}">>

\* The piece s of a template is what the token stands for: a text to the letter,
\* of an action everything but the spaces around its keyword and expression.
Stands(tk, s) ==
  IF tk.kind = "text" THEN s = tk.text
  ELSE Len(s) >= 4 /\ LET words == SubSeq(s, 3, Len(s) - 2)
                      IN  s = Braced(words) /\ Says(tk, words)

\* How many symbols of s the tokens, one after the other, may stand for.
Covers(ts, s) ==
  LET upTo[i \in 0..Len(ts)] ==
        IF i = 0 THEN {0}
        ELSE UNION {{q \in p..Len(s) : Stands(ts[i], SubSeq(s, p + 1, q))} : p \in upTo[i - 1]}
  IN  upTo[Len(ts)]

\* The tokens stand for what was read of the template, piece by piece, and the
\* rest is left: nothing is lost, repeated or moved, and no space that belongs
\* to a text (tokenizer.go:35-92).
NothingLost ==
  LET read == Len(input) - Len(sql)
  IN  read \in Covers(tokens, input) /\ sql = From(input, read + 1)

\* What the compiler relies on: no text is empty, holds an action, or follows
\* another text, so a text is looked at as a whole for :name.
TextsAreMaximal ==
  \A i \in DOMAIN tokens :
    tokens[i].kind = "text" =>
      /\ tokens[i].text # << >> /\ Index(tokens[i].text, "{") = 0
      /\ i > 1 => tokens[i - 1].kind # "text"
=============================================================================
