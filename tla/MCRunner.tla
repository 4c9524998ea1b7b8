------------------------------ MODULE MCRunner ------------------------------
EXTENDS Runner, TLC

\* Two repositories share a file, one has its own; the shared file's keys are
\* not neighbours in the order of the keys and are in different directories.
MCKeyOrder == <<"repo/Audit", "repo2/Order", "repo2/Tag">>
MCDirOf == ("repo/Audit" :> "repo") @@ ("repo2/Order" :> "repo2") @@ ("repo2/Tag" :> "repo2")
MCOutputOf == ("repo/Audit" :> "misc_gen.go") @@ ("repo2/Tag" :> "misc_gen.go")
                @@ ("repo2/Order" :> "order_gen.go")

\* The outputs have a directory of their own, or are beside the interfaces.
MCLayouts == {[o \in {"misc_gen.go", "order_gen.go"} |-> d] : d \in {"gen", "repo2"}}
=============================================================================
