----------------------------- MODULE UnitOfWork -----------------------------
(***************************************************************************)
(* What a caller of ConnectionManager.StartTransaction is promised, with   *)
(* no goroutines, contexts, call frames or connection pools in sight.      *)
(*                                                                         *)
(* A unit of work is the transaction that one call of StartTransaction     *)
(* owns.  Its body (the callback) stages statements and then either        *)
(* succeeds or fails.  The staged statements of a unit become durable all  *)
(* at once, only after its body has succeeded, or they are all discarded.  *)
(* A statement sent outside every unit is durable on its own.              *)
(*                                                                         *)
(* ConnectionManager implements this specification; the mapping is at the  *)
(* end of that module.                                                     *)
(***************************************************************************)
CONSTANTS
  Units,      \* the units of work
  Databases,  \* the databases they may run against
  Stmts       \* the statements

VARIABLES
  phase,      \* phase[u]: how far unit u has come
  staged,     \* staged[u]: the statements that ran inside u
  durable     \* durable[d]: the statements whose effect database d keeps

unitVars == <<phase, staged, durable>>

Phases == {"new", "running", "succeeded", "failed", "applied", "undone"}

UnitTypeOK ==
  /\ phase \in [Units -> Phases]
  /\ staged \in [Units -> SUBSET Stmts]
  /\ durable \in [Databases -> SUBSET Stmts]

UnitInit ==
  /\ phase = [u \in Units |-> "new"]
  /\ staged = [u \in Units |-> {}]
  /\ durable = [d \in Databases |-> {}]

Open(u) ==
  /\ phase[u] = "new"
  /\ phase' = [phase EXCEPT ![u] = "running"]
  /\ UNCHANGED <<staged, durable>>

\* A context that outlives its callback can still reach the unit until the
\* unit is closed, so a statement may be staged after the body has ended.
Stage(u, s) ==
  /\ phase[u] \in {"running", "succeeded", "failed"}
  /\ staged' = [staged EXCEPT ![u] = @ \cup {s}]
  /\ UNCHANGED <<phase, durable>>

Succeed(u) ==
  /\ phase[u] = "running"
  /\ phase' = [phase EXCEPT ![u] = "succeeded"]
  /\ UNCHANGED <<staged, durable>>

\* A goroutine that exits abandons every unit whose body it was running.
Fail(us) ==
  /\ \A u \in us : phase[u] = "running"
  /\ phase' = [u \in Units |-> IF u \in us THEN "failed" ELSE phase[u]]
  /\ UNCHANGED <<staged, durable>>

Apply(u, d) ==
  /\ phase[u] = "succeeded"
  /\ phase' = [phase EXCEPT ![u] = "applied"]
  /\ durable' = [durable EXCEPT ![d] = @ \cup staged[u]]
  /\ UNCHANGED staged

\* A unit can be undone at any time before it is applied: its body failed, its
\* context was cancelled, or the database refused the commit.
Undo(u) ==
  /\ phase[u] \in {"running", "succeeded", "failed"}
  /\ phase' = [phase EXCEPT ![u] = "undone"]
  /\ UNCHANGED <<staged, durable>>

Autocommit(s, d) ==
  /\ durable' = [durable EXCEPT ![d] = @ \cup {s}]
  /\ UNCHANGED <<phase, staged>>

UnitNext ==
  \/ \E u \in Units :
       \/ Open(u) \/ Succeed(u) \/ Undo(u)
       \/ \E s \in Stmts : Stage(u, s)
       \/ \E d \in Databases : Apply(u, d)
  \/ \E us \in SUBSET Units : Fail(us)
  \/ \E s \in Stmts, d \in Databases : Autocommit(s, d)

UnitSpec == UnitInit /\ [][UnitNext]_unitVars
=============================================================================
