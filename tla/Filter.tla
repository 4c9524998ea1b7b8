-------------------------------- MODULE Filter --------------------------------
(***************************************************************************)
(* The loops of the code that take some of the elements of a slice, in     *)
(* their order. SelectSeq says the same; what it computes cannot be        *)
(* reasoned about, what FlattenSeq computes can.                           *)
(***************************************************************************)
EXTENDS Sequences, SequencesExt

\* The elements of s that are in S.
Keep(s, S) == FlattenSeq([i \in DOMAIN s |-> IF s[i] \in S THEN <<s[i]>> ELSE << >>])
=============================================================================
