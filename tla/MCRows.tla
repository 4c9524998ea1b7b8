------------------------------- MODULE MCRows -------------------------------
EXTENDS Scanning, TLC

CONSTANTS c1, c2  \* model values: the calls

MCKindOf == (c1 :> "one") @@ (c2 :> "many")

Field(tag) == [embedded |-> FALSE, exported |-> TRUE, tag |-> tag, fields |-> << >>]
Hidden(tag) == [Field(tag) EXCEPT !.exported = FALSE]
Embedded(fields) == [Field(<< >>) EXCEPT !.embedded = TRUE, !.fields = fields]
Pair(type, cols) == [type |-> type, cols |-> cols]

UserFields == << Field(<<"id">>), Field(<<"name", "omitempty">>) >>
Balance == << Field(<<"user_id">>), Field(<<"id">>) >>

LeftOut == << Field(<<"-">>), Field(<< >>), Field(<<"id">>) >>
Joined == << Embedded(UserFields), Embedded(Balance) >>
Twice == << Embedded(UserFields), Embedded(UserFields) >>
Inner == << Field(<<"x">>), Embedded(Balance) >>
Outer == << Field(<<"id">>), Embedded(Inner), Field(<<"x">>) >>
Secret == << Hidden(<<"id">>), Field(<<"name">>) >>

MCStructs == << UserFields, Balance, LeftOut, Joined, Twice, Inner, Outer, Secret >>

MCShapes ==
  { \* a plain struct, columns in another order, one that is not wanted, none
    Pair(UserFields, <<"name", "other", "id">>), Pair(UserFields, << >>),
    \* a field without a tag, and one that is left out
    Pair(LeftOut, <<"-", "id">>),
    \* two embedded entities that both have an id, and one of them twice
    Pair(Joined, <<"id", "name", "user_id", "id">>), Pair(Twice, <<"name", "id">>),
    \* an embedded struct in an embedded struct, after a field of the same name
    Pair(Outer, <<"x", "id", "user_id">>),
    \* a tagged field that is not exported, named by a column or not
    Pair(Secret, <<"name", "id">>), Pair(Secret, <<"name">>) }
=============================================================================
