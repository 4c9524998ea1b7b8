------------------------------ MODULE Template ------------------------------
(***************************************************************************)
(* What an SQL template of simplesql promises: the template as the         *)
(* sequence of its tokens, when it is well formed, and which query it      *)
(* stands for under given values of the parameters. Nothing here follows   *)
(* the compiler's or the generated code's way of working: blocks are found *)
(* by counting, bound parameters by the colons before a name.              *)
(***************************************************************************)
EXTENDS Integers, Sequences, FiniteSets, SequencesExt

CONSTANTS
  StringParams,  \* the method's parameters of type string
  PtrParams,     \* of type *string
  OtherParams,   \* of any other type
  Undeclared,    \* identifiers that are not parameters
  Exprs,         \* the conditions of {{if}} and {{else if}}
  Texts,         \* the texts between actions, sequences of words and ":"
  Spelled        \* words whose spelling contains RETURNING, in any case

Params == StringParams \cup PtrParams \cup OtherParams
Identifiers == Params \cup Undeclared
Clause == "RETURNING"

ASSUME ParamsAssumption ==
  /\ StringParams \cap PtrParams = {} /\ (StringParams \cup PtrParams) \cap OtherParams = {}
  /\ Params \cap Undeclared = {}
  /\ \A i \in Identifiers : i # ":"
ASSUME TextsAssumption == \A x \in Texts : x \in Seq(STRING) /\ x # << >>

\* A token: the text of "text", the expression of "if" and "elseif", the name
\* of "subst".
Tok(kind, text, arg) == [kind |-> kind, text |-> text, arg |-> arg]
TextTok(x) == Tok("text", x, "")
IfTok(e) == Tok("if", << >>, e)
ElseIfTok(e) == Tok("elseif", << >>, e)
ElseTok == Tok("else", << >>, "")
EndTok == Tok("end", << >>, "")
SubstTok(n) == Tok("subst", << >>, n)

Tokens == {TextTok(x) : x \in Texts} \cup {IfTok(e) : e \in Exprs}
            \cup {ElseIfTok(e) : e \in Exprs} \cup {ElseTok, EndTok}
            \cup {SubstTok(n) : n \in Identifiers}

\* What the statements of a compiled body can speak of.
Words == UNION {ToSet(x) : x \in Texts}
Names == Words \cup Identifiers \cup Exprs \cup {"", ":", Clause}

-----------------------------------------------------------------------------
(* Which templates are well formed. *)

\* How many blocks are open after token i.
Depth(ts, i) == Cardinality({j \in 1..i : ts[j].kind = "if"})
                  - Cardinality({j \in 1..i : ts[j].kind = "end"})

\* Token h heads a branch of a block that is still open at token i, at depth d.
Heads(ts, h, i, d) ==
  /\ ts[h].kind \in {"if", "elseif", "else"}
  /\ Depth(ts, h) = d /\ \A k \in h..i : Depth(ts, k) >= d

\* No {{end}} without a block, no branch outside of one or after its {{else}}.
Nests(ts) ==
  /\ \A i \in DOMAIN ts : Depth(ts, i) >= 0
  /\ \A i \in DOMAIN ts :
       ts[i].kind \in {"elseif", "else"} =>
         /\ Depth(ts, i) > 0
         /\ ~\E h \in 1..(i - 1) : ts[h].kind = "else" /\ Heads(ts, h, i, Depth(ts, i))

\* Only string and *string parameters are substituted directly.
Substitutable(ts) ==
  \A i \in DOMAIN ts : ts[i].kind = "subst" => ts[i].arg \in StringParams \cup PtrParams

\* Nothing is wrong so far: what is, no token that follows can mend.
WellBegun(ts) == Nests(ts) /\ Substitutable(ts)

WellFormed(ts) == WellBegun(ts) /\ Depth(ts, Len(ts)) = 0

-----------------------------------------------------------------------------
(* What a template means: words, bound parameters and substituted values. *)

Word(s) == [kind |-> "word", of |-> s]
Value(n) == [kind |-> "value", of |-> n]
Bound(n) == [kind |-> "param", of |-> n]

\* A name is bound when an odd number of colons stands before it: pairs of
\* colons are type casts.
ColonsBefore(x, i) ==
  CHOOSE n \in 0..(i - 1) :
    /\ \A k \in (i - n)..(i - 1) : x[k] = ":"
    /\ n < i - 1 => x[i - n - 1] # ":"
BoundAt(x, i) ==
  i \in DOMAIN x /\ x[i] \in Identifiers /\ ColonsBefore(x, i) % 2 = 1

MeaningOfText(x) ==
  FlattenSeq([i \in DOMAIN x |-> IF BoundAt(x, i) THEN <<Bound(x[i])>>
                                 ELSE IF BoundAt(x, i + 1) THEN << >>
                                 ELSE <<Word(x[i])>>])

\* Token i counts when, in every block around it, its branch is the first
\* whose condition holds. holds: the conditions that are true.
Active(ts, i, holds) ==
  \A d \in 1..Depth(ts, i) :
    LET heads == {h \in 1..i : Heads(ts, h, i, d)}
        true(h) == ts[h].kind = "else" \/ ts[h].arg \in holds
    IN  \E h \in heads : true(h) /\ \A k \in heads : (k > h \/ true(k)) => k = h

\* nils: the *string parameters that are nil.
MeaningOfToken(ts, i, holds, nils) ==
  IF ~Active(ts, i, holds) THEN << >>
  ELSE IF ts[i].kind = "text" THEN MeaningOfText(ts[i].text)
  ELSE IF ts[i].kind = "subst" /\ ts[i].arg \notin nils THEN <<Value(ts[i].arg)>>
  ELSE << >>

Meaning(ts, holds, nils) ==
  FlattenSeq([i \in DOMAIN ts |-> MeaningOfToken(ts, i, holds, nils)])

\* The template has a RETURNING clause of its own, somewhere.
Mentions(ts, words) == \E i \in DOMAIN ts : \E w \in words : Contains(ts[i].text, w)
=============================================================================
