----------------------------- MODULE MCTemplate -----------------------------
EXTENDS GeneratedBody

\* Two parameters; a cast to a type called like a parameter, a cast right before a
\* parameter, and a colon that binds nothing.
MCTexts == {<<":", "n", ":", "id">>, <<":", ":", "n", ":", ":", ":", "id", ":">>}

\* Texts of an INSERT, some with a clause of their own or a word that contains it.
MCInsertTexts == {<<"insert", ":", "id">>, <<"RETURNING">>, <<"returning_at">>}
=============================================================================
