------------------------ MODULE MCConnectionManager ------------------------
(* Instances of ConnectionManager for TLC: see the .cfg files. *)
EXTENDS ConnectionManager, TLC

\* Transactions and statements are interchangeable; so are requests, which are
\* only named by the contexts derived from them.
TxStmtSymmetry == Permutations(Txs) \cup Permutations(Stmts)
=============================================================================
