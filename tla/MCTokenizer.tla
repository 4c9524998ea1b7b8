---------------------------- MODULE MCTokenizer ----------------------------
EXTENDS DocComment, TLC

MCSymbols ==
  {"{", "}", " ", NL, "if", "else", "end", "a", "//", "@sql", "insert", "INSERT", "selected"}

\* Every template of up to six symbols.
MCInputs == BoundedSeq({"{", "}", " ", "if", "else", "a"}, 6)

\* Longer ones: a text, an action of several words or a brace too many.
MCBlocks ==
  LET texts == {<< >>, <<" ", "a", " ">>, <<"{">>, <<"}">>}
      inner == {<<" ", "else", " ", "if", " ", "a">>, <<"else", " ", " ", "if", " ", "a">>,
                <<"if", " ", " ", "a", " ">>, <<"if", " ", "{", "a">>, <<"end">>, <<"else", "if">>}
  IN  {t \o <<"{", "{">> \o i \o <<"}", "}">> \o u \o <<"{", "{">> \o j \o <<"}", "}">> \o v :
         t \in texts, i \in inner, u \in texts, j \in inner, v \in texts}

\* The template alone on the line after the tag.
OnItsOwnLine(x) == << <<"//", " ", "@sql">>, <<"//">> \o x >>

\* Doc comments of up to three lines: prose, tags, queries and empty lines.
MCLines ==
  {<<"//">>, <<"//", " ">>, <<"//", " ", "a", " ", "insert">>, <<"//", "insert", " ", "a">>,
   <<"//", " ", "@sql">>, <<"//", " ", "@sql", " ", "INSERT", " ", "a">>,
   <<"//", " ", "a", " ", "@sql", " ", " ", "selected", " ">>,
   <<"//", " ", " ", "{", "{", "if", " ", "a">>, <<"//", " ", "}", "}", "@sql">>,
   <<"//", " ", "@sql", "@sql", "{", "{", "end", "}", "}">>}

MCDocs == {OnItsOwnLine(x) : x \in MCInputs \cup MCBlocks} \cup BoundedSeq(MCLines, 3)

MCKindOf == "INSERT" :> "INSERT" @@ "insert" :> "INSERT" @@ "selected" :> "SELECT"
=============================================================================
