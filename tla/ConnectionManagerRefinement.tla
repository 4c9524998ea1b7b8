--------------------- MODULE ConnectionManagerRefinement ---------------------
(* ConnectionManager implements UnitOfWork, and a statement shares the fate of *)
(* the transaction its context carries, for every value of the constants.     *)
EXTENDS ConnectionManagerProofs

Phase == [t \in Txs |-> PhaseOf(t)]

\* A step of the abstract specification, or none.
WorkStep == Work!UnitNext \/ UNCHANGED <<Phase, pending, store>>

-----------------------------------------------------------------------------
(* Which phase a transaction is in, by its status and its verdict. *)

\* The phase of a unit of work for every status of its transaction.
LEMMA PhaseCases ==
  ASSUME NEW t \in Txs
  PROVE  /\ status[t] \in {"unused", "beginning", "refused"} => Phase[t] = "new"
         /\ status[t] = "open" /\ verdict[t] = "none" => Phase[t] = "running"
         /\ status[t] = "open" /\ verdict[t] = "nil" => Phase[t] = "succeeded"
         /\ status[t] = "open" /\ verdict[t] \notin {"none", "nil"} => Phase[t] = "failed"
         /\ status[t] = "open" => Phase[t] \in {"running", "succeeded", "failed"}
         /\ status[t] = "committed" => Phase[t] = "applied"
         /\ status[t] = "rolledback" => Phase[t] = "undone"
PROOF
  BY DEF Phase, PhaseOf

\* The same for the next state.
LEMMA NextPhaseCases ==
  ASSUME NEW t \in Txs
  PROVE  /\ status'[t] \in {"unused", "beginning", "refused"} => Phase'[t] = "new"
         /\ status'[t] = "open" /\ verdict'[t] = "none" => Phase'[t] = "running"
         /\ status'[t] = "open" /\ verdict'[t] = "nil" => Phase'[t] = "succeeded"
         /\ status'[t] = "open" /\ verdict'[t] \notin {"none", "nil"} => Phase'[t] = "failed"
         /\ status'[t] = "committed" => Phase'[t] = "applied"
         /\ status'[t] = "rolledback" => Phase'[t] = "undone"
PROOF
  BY DEF Phase, PhaseOf

\* Phases are a function of status and verdict, so what leaves both of a
\* transaction alone leaves its phase alone.
LEMMA SamePhase ==
  ASSUME NEW t \in Txs, status'[t] = status[t], verdict'[t] = verdict[t]
  PROVE  Phase'[t] = Phase[t]
PROOF
  BY DEF Phase, PhaseOf

\* The phase function after a step, pointwise.
LEMMA PhaseFunction ==
  ASSUME NEW f, f = [t \in Txs |-> f[t]], \A t \in Txs : Phase'[t] = f[t]
  PROVE  Phase' = f
PROOF
  <1>1. Phase' = [t \in Txs |-> Phase'[t]]
    BY DEF Phase
  <1> QED BY <1>1

-----------------------------------------------------------------------------
(* The steps that move a unit. *)

\* A step that concerns one transaction moves one unit of work.
LEMMA OneUnitMoves ==
  ASSUME NEW t \in Txs, NEW p,
         \A u \in Txs \ {t} : status'[u] = status[u] /\ verdict'[u] = verdict[u],
         Phase'[t] = p
  PROVE  Phase' = [Phase EXCEPT ![t] = p]
PROOF
  <1> DEFINE f == [Phase EXCEPT ![t] = p]
  <1>1. f = [u \in Txs |-> IF u = t THEN p ELSE Phase[u]]
    BY DEF Phase
  <1>2. \A u \in Txs : Phase'[u] = f[u]
    BY <1>1, SamePhase
  <1> HIDE DEF f
  <1>3. f = [u \in Txs |-> f[u]]
    BY <1>1
  <1>4. Phase' = f
    BY <1>2, <1>3, PhaseFunction
  <1> QED BY <1>4 DEF f

\* A step that changes no phase is a stutter of UnitOfWork.
LEMMA NoUnitMoves ==
  ASSUME \A u \in Txs : Phase'[u] = Phase[u]
  PROVE  Phase' = Phase
PROOF
  <1>1. Phase = [u \in Txs |-> Phase[u]]
    BY DEF Phase
  <1> QED BY <1>1, PhaseFunction

\* A transaction that was begun is a unit that runs.
LEMMA RunMapping ==
  ASSUME IInv, NEW g \in Goroutines, NEW t \in Txs, BeginOK(g, t)
  PROVE  WorkStep
PROOF
  <1>1. status[t] = "beginning" /\ verdict[t] = "none"
    BY DEF IInv, BeginInv, OutcomeInv, BeginOK
  <1>2. /\ UNCHANGED <<pending, store, verdict>>
        /\ status'[t] = "open" /\ \A u \in Txs \ {t} : status'[u] = status[u]
    BY DEF BeginOK, IInv, TypeOK, history
  <1>3. Phase[t] = "new" /\ Phase'[t] = "running"
    BY <1>1, <1>2, PhaseCases, NextPhaseCases
  <1>4. Phase' = [Phase EXCEPT ![t] = "running"]
    BY <1>2, <1>3, OneUnitMoves
  <1>5. Work!Open(t)
    BY <1>2, <1>3, <1>4 DEF Work!Open, Phase
  <1> QED BY <1>5 DEF WorkStep, Work!UnitNext

\* The owner's callback ends: its unit has succeeded or failed.
LEMMA EndMapping ==
  ASSUME IInv, NEW g \in Goroutines, NEW t \in Txs, NEW o \in Outcomes, OwnerEnds(g, t, o)
  PROVE  WorkStep
PROOF
  <1> USE DEF txVars
  <1>1. FrameFacts /\ TypeOK
    BY FrameInvIsFrameFacts DEF IInv
  <1>2. o \in {"nil", "err", "panic"}
    BY ChoicesAssumption DEF OwnerEnds, CallbackOutcomes
  <1>3. OwnerAt(g, Len(stack[g]), t) /\ ~Closing(g)
    BY DEF OwnerEnds, Closing
  <1>4. status[t] \in {"open", "rolledback"} /\ verdict[t] = "none"
    BY <1>1, <1>3 DEF FrameFacts
  <1>5. /\ UNCHANGED <<pending, store, status>>
        /\ verdict'[t] = o /\ \A u \in Txs \ {t} : verdict'[u] = verdict[u]
    BY <1>1 DEF OwnerEnds, TypeOK
  <1>6. CASE status[t] = "open" /\ o = "nil"
    <2>1. Phase[t] = "running" /\ Phase'[t] = "succeeded"
      BY <1>4, <1>5, <1>6, PhaseCases, NextPhaseCases
    <2>2. Phase' = [Phase EXCEPT ![t] = "succeeded"]
      BY <1>5, <2>1, OneUnitMoves
    <2>3. Work!Succeed(t)
      BY <1>5, <2>1, <2>2 DEF Work!Succeed, Phase
    <2> QED BY <2>3 DEF WorkStep, Work!UnitNext
  <1>7. CASE status[t] = "open" /\ o # "nil"
    <2>1. Phase[t] = "running" /\ Phase'[t] = "failed"
      BY <1>2, <1>4, <1>5, <1>7, PhaseCases, NextPhaseCases
    <2>2. \A u \in Txs : Phase'[u] = IF u \in {t} THEN "failed" ELSE Phase[u]
      BY <1>5, <2>1, SamePhase
    <2>3. Phase' = [u \in Txs |-> IF u \in {t} THEN "failed" ELSE Phase[u]]
      BY <2>2 DEF Phase
    <2>4. Work!Fail({t})
      BY <1>5, <2>1, <2>3 DEF Work!Fail, Phase
    <2>5. PICK us \in SUBSET Txs : us = {t}
      OBVIOUS
    <2>6. Work!Fail(us)
      BY <2>4, <2>5 DEF Work!Fail
    <2> QED BY <2>6, Zenon DEF WorkStep, Work!UnitNext
  <1>8. CASE status[t] = "rolledback"
    <2>1. \A u \in Txs : Phase'[u] = Phase[u]
      BY <1>5, <1>8, PhaseCases, NextPhaseCases, SamePhase
    <2> QED BY <1>5, <2>1, NoUnitMoves DEF WorkStep
  <1> QED BY <1>4, <1>6, <1>7, <1>8

\* Goexit fails the units of all the frames it removes, in one step.
LEMMA GoexitMapping ==
  ASSUME IInv, NEW g \in Goroutines, Goexit(g)
  PROVE  WorkStep
PROOF
  <1> USE DEF txVars
  <1> DEFINE lost == {t \in Txs : Owns(g, t) /\ status[t] = "open"}
  <1>1. FrameFacts /\ TypeOK
    BY FrameInvIsFrameFacts DEF IInv
  <1>2. /\ UNCHANGED <<pending, store, status>> /\ ~Closing(g)
        /\ \A t \in Txs : verdict'[t] = IF Owns(g, t) THEN "goexit" ELSE verdict[t]
    BY <1>1 DEF Goexit, Closing, TypeOK
  <1>3. ASSUME NEW t \in Txs, Owns(g, t)
        PROVE  status[t] \in {"open", "rolledback"} /\ verdict[t] = "none"
    <2>1. PICK i : OwnerAt(g, i, t)
      BY <1>3, OwnsByFrame
    <2> QED BY <1>1, <1>2, <2>1 DEF FrameFacts
  <1>4. \A t \in lost : Phase[t] = "running" /\ Phase'[t] = "failed"
    BY <1>2, <1>3, PhaseCases, NextPhaseCases
  <1>5. \A t \in Txs \ lost : Phase'[t] = Phase[t]
    BY <1>2, <1>3, PhaseCases, NextPhaseCases, SamePhase
  <1>6. PICK us \in SUBSET Txs : us = lost
    OBVIOUS
  <1> HIDE DEF lost
  <1>7. \A t \in Txs : Phase'[t] = IF t \in us THEN "failed" ELSE Phase[t]
    BY <1>4, <1>5, <1>6
  <1>8. Phase' = [t \in Txs |-> IF t \in us THEN "failed" ELSE Phase[t]]
    BY <1>7 DEF Phase
  <1>9. Work!Fail(us)
    BY <1>2, <1>4, <1>6, <1>8 DEF Work!Fail, Phase
  <1> QED BY <1>9, Zenon DEF WorkStep, Work!UnitNext

\* A unit whose transaction goes from open to rolled back is undone.
LEMMA UndoMapping ==
  ASSUME NEW t \in Txs, status[t] = "open", status'[t] = "rolledback",
         \A u \in Txs \ {t} : status'[u] = status[u],
         verdict' = verdict, pending' = pending, store' = store
  PROVE  WorkStep
PROOF
  <1>1. Phase[t] \in {"running", "succeeded", "failed"} /\ Phase'[t] = "undone"
    BY PhaseCases, NextPhaseCases
  <1>2. Phase' = [Phase EXCEPT ![t] = "undone"]
    BY <1>1, OneUnitMoves
  <1>3. Work!Undo(t)
    BY <1>1, <1>2 DEF Work!Undo, Phase
  <1> QED BY <1>3 DEF WorkStep, Work!UnitNext

\* A step that leaves status, verdict and the data alone is invisible.
LEMMA StutterMapping ==
  ASSUME status' = status, verdict' = verdict, pending' = pending, store' = store
  PROVE  WorkStep
PROOF
  <1>1. \A u \in Txs : Phase'[u] = Phase[u]
    BY SamePhase
  <1> QED BY <1>1, NoUnitMoves DEF WorkStep

\* So is a call or an answer of BeginTx that opens nothing.
LEMMA BeginMapping ==
  ASSUME IInv, NEW g \in Goroutines, NEW t \in Txs,
         BeginFail(g, t) \/ \E m \in Managers, c \in Passable(g) : CallBegin(g, m, c, t)
  PROVE  WorkStep
PROOF
  <1> USE DEF history
  <1>1. TypeOK /\ (pc[g] = "begin" /\ call[g] = t => status[t] = "beginning")
    BY DEF IInv, BeginInv
  <1>2. /\ UNCHANGED <<pending, store, verdict>>
        /\ status[t] \in {"unused", "beginning"} /\ status'[t] \in {"beginning", "refused"}
        /\ \A u \in Txs \ {t} : status'[u] = status[u]
    <2>1. CASE BeginFail(g, t)
      BY <1>1, <2>1 DEF BeginFail, TypeOK
    <2>2. ASSUME NEW m \in Managers, NEW c \in Passable(g), CallBegin(g, m, c, t)
          PROVE  <1>2!:
      BY <1>1, <2>2 DEF CallBegin, TypeOK
    <2> QED BY <2>1, <2>2
  <1>3. Phase[t] = "new" /\ Phase'[t] = "new"
    BY <1>2, PhaseCases, NextPhaseCases
  <1>4. \A u \in Txs : Phase'[u] = Phase[u]
    BY <1>2, <1>3, SamePhase
  <1> QED BY <1>2, <1>4, NoUnitMoves DEF WorkStep

\* Commit applies its unit, or the database undid it before.
LEMMA CommitMapping ==
  ASSUME IInv, NEW g \in Goroutines, NEW t \in Txs, Commit(g, t)
  PROVE  WorkStep
PROOF
  <1>1. FrameFacts /\ OutcomeInv /\ TypeOK
    BY FrameInvIsFrameFacts DEF IInv
  <1>2. OwnerAt(g, Len(stack[g]), t) /\ pending' = pending /\ verdict' = verdict
    BY DEF Commit, Leave
  <1>3. verdict[t] = "nil" /\ origin[t].mgr \in Managers
    BY <1>1, <1>2 DEF FrameFacts, OutcomeInv, Commit
  <1>4. CASE /\ Live(t) /\ status' = [status EXCEPT ![t] = "committed"]
             /\ store' = [store EXCEPT ![origin[t].mgr] = @ \cup pending[t]]
    <2>1. /\ status[t] = "open" /\ status'[t] = "committed"
          /\ \A u \in Txs \ {t} : status'[u] = status[u]
      BY <1>1, <1>4 DEF Live, TypeOK
    <2>2. Phase[t] = "succeeded" /\ Phase'[t] = "applied"
      BY <1>3, <2>1, PhaseCases, NextPhaseCases
    <2>3. Phase' = [Phase EXCEPT ![t] = "applied"]
      BY <1>2, <2>1, <2>2, OneUnitMoves
    <2>4. Work!Apply(t, origin[t].mgr)
      BY <1>2, <1>4, <2>2, <2>3 DEF Work!Apply, Phase
    <2> QED BY <1>3, <2>4 DEF WorkStep, Work!UnitNext
  <1>5. CASE Live(t) /\ status' = [status EXCEPT ![t] = "rolledback"] /\ store' = store
    <2>1. /\ status[t] = "open" /\ status'[t] = "rolledback"
          /\ \A u \in Txs \ {t} : status'[u] = status[u]
      BY <1>1, <1>5 DEF Live, TypeOK
    <2> QED BY <1>2, <1>5, <2>1, UndoMapping
  <1>6. CASE status' = status /\ store' = store
    BY <1>2, <1>6, StutterMapping
  <1> QED BY <1>4, <1>5, <1>6 DEF Commit

\* Both rollbacks undo the unit.
LEMMA RollbackMapping ==
  ASSUME IInv, NEW g \in Goroutines, NEW t \in Txs, Rollback(g, t) \/ Repanic(g, t)
  PROVE  WorkStep
PROOF
  <1>1. FrameFacts /\ TypeOK
    BY FrameInvIsFrameFacts DEF IInv
  <1>2. /\ OwnerAt(g, Len(stack[g]), t) /\ pending' = pending /\ verdict' = verdict
        /\ CloseWithoutCommit(t)
    BY DEF Rollback, Repanic, Leave
  <1>3. status[t] \in {"open", "rolledback"}
    BY <1>1, <1>2 DEF FrameFacts
  <1>4. CASE status[t] = "open"
    <2>1. /\ status'[t] = "rolledback" /\ store' = store
          /\ \A u \in Txs \ {t} : status'[u] = status[u]
      BY <1>1, <1>2, <1>4 DEF CloseWithoutCommit, TypeOK
    <2> QED BY <1>2, <1>4, <2>1, UndoMapping
  <1>5. CASE status[t] = "rolledback"
    <2>1. status' = status /\ store' = store
      BY <1>1, <1>2, <1>5 DEF CloseWithoutCommit, TypeOK
    <2> QED BY <1>2, <2>1, StutterMapping
  <1> QED BY <1>3, <1>4, <1>5

\* A cancelled context undoes its unit.
LEMMA AutoRollbackMapping ==
  ASSUME IInv, NEW t \in Txs, AutoRollback(t)
  PROVE  WorkStep
PROOF
  <1>1. /\ status[t] = "open" /\ status'[t] = "rolledback"
        /\ \A u \in Txs \ {t} : status'[u] = status[u]
        /\ UNCHANGED <<verdict, pending, store>>
    BY DEF AutoRollback, IInv, TypeOK, history
  <1> QED BY <1>1, UndoMapping

-----------------------------------------------------------------------------
(* The steps that stage or apply a statement. *)

\* A statement on a transaction does work in its unit, or none if it is closed.
LEMMA TxStatementMapping ==
  ASSUME NEW g, NEW m, NEW c, NEW s \in Stmts, NEW t \in Txs, ExecOnTx(g, m, c, s, t)
  PROVE  WorkStep
PROOF
  <1>1. UNCHANGED <<status, verdict, store>>
    BY DEF ExecOnTx
  <1>2. CASE status[t] = "open" /\ pending' = [pending EXCEPT ![t] = @ \cup {s}]
    <2>1. Phase[t] \in {"running", "succeeded", "failed"}
      BY <1>2, PhaseCases
    <2>2. Phase' = Phase
      BY <1>1, SamePhase, NoUnitMoves
    <2>3. Work!Stage(t, s)
      BY <1>1, <1>2, <2>1, <2>2 DEF Work!Stage, Phase
    <2> QED BY <2>3 DEF WorkStep, Work!UnitNext
  <1>3. CASE pending' = pending
    BY <1>1, <1>3, StutterMapping
  <1> QED BY <1>2, <1>3 DEF ExecOnTx

\* A statement on the pool concerns no unit.
LEMMA PoolStatementMapping ==
  ASSUME IInv, NEW g, NEW s \in Stmts, PoolAnswers(g, s)
  PROVE  WorkStep
PROOF
  <1>1. UNCHANGED <<status, verdict, pending>>
    BY DEF PoolAnswers
  <1>2. store \in [Managers -> SUBSET Stmts]
    BY DEF IInv, TypeOK
  <1>3. CASE /\ store' = [store EXCEPT ![stmt[s].mgr] = @ \cup {s}]
             /\ stmt[s].mgr \in Managers
    <2>1. Phase' = Phase
      BY <1>1, SamePhase, NoUnitMoves
    <2>2. Work!Autocommit(s, stmt[s].mgr)
      BY <1>1, <1>3, <2>1 DEF Work!Autocommit, Phase
    <2> QED BY <1>3, <2>2 DEF WorkStep, Work!UnitNext
  <1>4. CASE store' = store
    BY <1>1, <1>4, StutterMapping
  <1>5. CASE /\ store' = [store EXCEPT ![stmt[s].mgr] = @ \cup {s}]
             /\ stmt[s].mgr \notin Managers
    <2>1. store' = store
      BY <1>2, <1>5
    <2> QED BY <1>1, <2>1, StutterMapping
  <1> QED BY <1>3, <1>4, <1>5 DEF PoolAnswers

-----------------------------------------------------------------------------
(* The theorems. *)

\* The initial states are initial states of UnitOfWork.
LEMMA InitMapping == Init => Work!UnitInit
PROOF
  <1> SUFFICES ASSUME Init PROVE Work!UnitInit
    OBVIOUS
  <1>1. \A t \in Txs : Phase[t] = "new"
    BY PhaseCases DEF Init
  <1>2. Phase = [t \in Txs |-> "new"]
    BY <1>1 DEF Phase
  <1> QED BY <1>2 DEF Init, Work!UnitInit, Phase

\* Every step is a step of UnitOfWork or a stutter.
LEMMA StepMapping == IInv /\ [Next]_vars => WorkStep
PROOF
  <1> SUFFICES ASSUME IInv, [Next]_vars PROVE WorkStep
    OBVIOUS
  <1> USE DEF txVars, history
  <1>1. ASSUME NEW g \in Goroutines, CallbackEnds(g) PROVE WorkStep
    <2>1. CASE NestedEnds(g)
      BY <2>1, StutterMapping DEF NestedEnds
    <2> QED BY <1>1, <2>1, EndMapping DEF CallbackEnds
  <1>2. ASSUME NEW g \in Goroutines, UserSteps(g) PROVE WorkStep
    <2>1. CASE Panic(g) \/ Recover(g)
      BY <2>1, StutterMapping DEF Panic, Recover
    <2>2. CASE Goexit(g)
      BY <2>2, GoexitMapping
    <2>3. ASSUME NEW c \in Passable(g), CallNested(g, c) PROVE WorkStep
      BY <2>3, StutterMapping DEF CallNested
    <2>4. ASSUME NEW c \in Passable(g), NEW m \in Managers, NEW t \in Txs, CallBegin(g, m, c, t)
          PROVE  WorkStep
      BY <2>4, BeginMapping
    <2>5. ASSUME NEW c \in Passable(g), NEW m \in Managers, NEW s \in Stmts,
                 ExecOnPool(g, m, c, s)
          PROVE  WorkStep
      BY <2>5, StutterMapping DEF ExecOnPool
    <2>6. ASSUME NEW c \in Passable(g), NEW m \in Managers, NEW s \in Stmts, NEW t \in Txs,
                 ExecOnTx(g, m, c, s, t)
          PROVE  WorkStep
      BY <2>6, TxStatementMapping
    <2>7. ASSUME NEW c \in Passable(g), NEW w \in Workers, Spawn(g, w, c) PROVE WorkStep
      BY <2>7, StutterMapping DEF Spawn
    <2> QED BY <1>2, <2>1, <2>2, <2>3, <2>4, <2>5, <2>6, <2>7 DEF UserSteps
  <1>3. ASSUME NEW g \in Goroutines, LibrarySteps(g) PROVE WorkStep
    BY <1>3, RunMapping, BeginMapping, CommitMapping, RollbackMapping, PoolStatementMapping
    DEF LibrarySteps
  <1>4. ASSUME NEW r \in Roots, Cancel(r) PROVE WorkStep
    BY <1>4, StutterMapping DEF Cancel
  <1>5. ASSUME NEW t \in Txs, AutoRollback(t) PROVE WorkStep
    BY <1>5, AutoRollbackMapping
  <1>6. CASE UNCHANGED vars
    BY <1>6, StutterMapping DEF vars
  <1> QED BY <1>1, <1>2, <1>3, <1>4, <1>5, <1>6 DEF Next

\* Every behaviour of ConnectionManager is one of UnitOfWork: statements of a
\* transaction are applied all at once after its callback succeeded, or never.
THEOREM Refinement == Spec => UnitRefinement
PROOF
  <1>1. WorkStep => [Work!UnitNext]_(Work!unitVars)
    BY DEF WorkStep, Work!unitVars, Phase
  <1> QED
    BY <1>1, InitMapping, StepMapping, Invariance, PTL DEF Spec, UnitRefinement, Work!UnitSpec

-----------------------------------------------------------------------------
(* Statements and the transaction of their context. *)

\* A goroutine that waits for the pool waits with a statement whose context
\* carries no transaction.
PoolInv ==
  \A g \in Goroutines, s \in Stmts :
    pc[g] = "exec" /\ call[g] = s => stmt[s].phase # "new" /\ stmt[s].via = NoTx

\* A transaction holds exactly the statements that succeeded with a context that
\* carries it, and such a statement is durable only by its commit.
ViaInv ==
  \A s \in Stmts :
    /\ stmt[s].phase = "new" => \A m \in Managers : s \notin store[m]
    /\ \A t \in Txs : s \in pending[t] => stmt[s].phase = "acked" /\ stmt[s].via = t
    /\ stmt[s].phase = "acked" /\ stmt[s].via # NoTx => s \in pending[stmt[s].via]
    /\ \A m \in Managers :
         s \in store[m] /\ stmt[s].via # NoTx =>
           stmt[s].phase = "acked" /\ status[stmt[s].via] = "committed"

SharedFate == PoolInv /\ ViaInv

\* Initially nothing was issued.
LEMMA StmtInit == Init => SharedFate
PROOF
  BY DEF Init, SharedFate, PoolInv, ViaInv

\* A step that leaves statements and data alone, closes no committed transaction
\* and sends nobody to wait for the pool preserves the invariant.
LEMMA StmtKept ==
  ASSUME SharedFate, stmt' = stmt, pending' = pending, store' = store,
         \A t \in Txs : status[t] = "committed" => status'[t] = "committed",
         \A g \in Goroutines : pc'[g] = "exec" => pc[g] = "exec" /\ call'[g] = call[g],
         TypeOK
  PROVE  SharedFate'
PROOF
  <1>1. PoolInv'
    BY DEF SharedFate, PoolInv
  <1>2. \A s \in Stmts : stmt[s].via # NoTx => stmt[s].via \in Txs
    BY DEF TypeOK, StmtRecords
  <1>3. ViaInv'
    BY <1>2 DEF SharedFate, ViaInv
  <1> QED BY <1>1, <1>3 DEF SharedFate

\* A statement sent to a transaction joins it if it succeeds.
LEMMA StmtOnTx ==
  ASSUME IInv, SharedFate, NEW g \in Goroutines, NEW c \in Passable(g), NEW m \in Managers,
         NEW s \in Stmts, NEW t \in Txs, ExecOnTx(g, m, c, s, t)
  PROVE  SharedFate'
PROOF
  <1>1. TypeOK /\ c \in Contexts
    BY PassableIsContext DEF IInv
  <1>2. c.tx = t
    BY <1>1, ManagersAssumption DEF ExecOnTx, DB, Carries, Contexts
  <1>3. PICK ph \in {"acked", "failed"} :
          /\ stmt' = [stmt EXCEPT ![s] = Issued(g, m, c, s, ph)]
          /\ pending' = IF ph = "acked" THEN [pending EXCEPT ![t] = @ \cup {s}] ELSE pending
    BY DEF ExecOnTx
  <1>4. /\ stmt'[s].phase = ph /\ stmt'[s].via = t
        /\ \A u \in Stmts \ {s} : stmt'[u] = stmt[u]
    BY <1>1, <1>2, <1>3 DEF Issued, TypeOK
  <1>5. /\ \A u \in Txs, v \in Stmts : v \in pending'[u] <=>
             v \in pending[u] \/ (u = t /\ v = s /\ ph = "acked")
    BY <1>1, <1>3 DEF TypeOK
  <1>6. UNCHANGED <<pc, call, store, status>> /\ stmt[s].phase = "new"
    BY DEF ExecOnTx
  <1>7. PoolInv'
    BY <1>4, <1>6 DEF SharedFate, PoolInv
  <1>8. ASSUME NEW v \in Stmts
        PROVE  ViaInv!(v)'
    <2>1. CASE v = s
      BY <1>4, <1>5, <1>6, <2>1, TxsAssumption DEF SharedFate, ViaInv
    <2>2. CASE v # s
      <3>1. stmt'[v] = stmt[v] /\ \A u \in Txs : v \in pending'[u] <=> v \in pending[u]
        BY <1>4, <1>5, <2>2
      <3>2. stmt[v].via # NoTx => stmt[v].via \in Txs
        BY <1>1 DEF TypeOK, StmtRecords
      <3> QED BY <1>6, <3>1, <3>2 DEF SharedFate, ViaInv
    <2> QED BY <2>1, <2>2
  <1>9. ViaInv'
    BY <1>8 DEF ViaInv
  <1> QED BY <1>7, <1>9 DEF SharedFate

\* One sent to the pool has a context without a transaction.
LEMMA StmtOnPool ==
  ASSUME IInv, SharedFate, NEW g \in Goroutines, NEW c \in Passable(g), NEW m \in Managers,
         NEW s \in Stmts, ExecOnPool(g, m, c, s)
  PROVE  SharedFate'
PROOF
  <1>1. TypeOK /\ c \in Contexts
    BY PassableIsContext DEF IInv
  <1>2. c.tx = NoTx
    BY <1>1, ManagersAssumption DEF ExecOnPool, DB, Carries, Contexts
  <1>3. /\ stmt'[s].phase = "waiting" /\ stmt'[s].via = NoTx
        /\ \A u \in Stmts \ {s} : stmt'[u] = stmt[u]
    BY <1>1, <1>2 DEF ExecOnPool, Issued, TypeOK
  <1>4. /\ UNCHANGED <<store, status, pending>> /\ stmt[s].phase = "new"
        /\ \A h \in Goroutines \ {g} : pc'[h] = pc[h] /\ call'[h] = call[h]
        /\ call'[g] = s
    BY <1>1 DEF ExecOnPool, TypeOK, txVars
  <1>5. PoolInv'
    BY <1>3, <1>4 DEF SharedFate, PoolInv
  <1>6. \A u \in Stmts : stmt[u].via # NoTx => stmt[u].via \in Txs
    BY <1>1 DEF TypeOK, StmtRecords
  <1>7. ViaInv'
    BY <1>3, <1>4, <1>6 DEF SharedFate, ViaInv
  <1> QED BY <1>5, <1>7 DEF SharedFate

\* The pool's answer concerns a statement without a transaction.
LEMMA StmtAnswered ==
  ASSUME IInv, SharedFate, NEW g \in Goroutines, NEW s \in Stmts, PoolAnswers(g, s)
  PROVE  SharedFate'
PROOF
  <1>1. TypeOK
    BY DEF IInv
  <1>2. stmt[s].via = NoTx /\ stmt[s].phase # "new"
    BY DEF PoolAnswers, SharedFate, PoolInv
  <1>3. PICK ph \in {"acked", "failed"} : stmt' = [stmt EXCEPT ![s].phase = ph]
    BY DEF PoolAnswers
  <1>4. /\ stmt'[s].phase = ph /\ stmt'[s].via = NoTx
        /\ \A u \in Stmts \ {s} : stmt'[u] = stmt[u]
    BY <1>1, <1>2, <1>3 DEF TypeOK, StmtRecords
  <1>5. \A m \in Managers, u \in Stmts \ {s} : u \in store'[m] <=> u \in store[m]
    BY <1>1 DEF PoolAnswers, TypeOK
  <1>6. /\ UNCHANGED <<status, pending>>
        /\ \A h \in Goroutines : pc'[h] = "exec" => pc[h] = "exec" /\ call'[h] = call[h]
    BY <1>1 DEF PoolAnswers, TypeOK
  <1>7. PoolInv'
    BY <1>2, <1>4, <1>6 DEF SharedFate, PoolInv
  <1>8. s \notin UNION {pending[t] : t \in Txs}
    BY <1>2, TxsAssumption DEF SharedFate, ViaInv
  <1>9. ASSUME NEW v \in Stmts
        PROVE  ViaInv!(v)'
    <2>1. CASE v = s
      BY <1>4, <1>6, <1>8, <2>1 DEF SharedFate, ViaInv
    <2>2. CASE v # s
      <3>1. stmt'[v] = stmt[v] /\ \A m \in Managers : v \in store'[m] <=> v \in store[m]
        BY <1>4, <1>5, <2>2
      <3> QED BY <1>6, <3>1 DEF SharedFate, ViaInv
    <2> QED BY <2>1, <2>2
  <1>10. ViaInv'
    BY <1>9 DEF ViaInv
  <1> QED BY <1>7, <1>10 DEF SharedFate

\* A commit makes durable what its transaction holds; nothing else closes it.
LEMMA StmtClosed ==
  ASSUME IInv, SharedFate, NEW g \in Goroutines, NEW t \in Txs,
         Commit(g, t) \/ Rollback(g, t) \/ Repanic(g, t)
  PROVE  SharedFate'
PROOF
  <1>1. TypeOK /\ FrameFacts
    BY FrameInvIsFrameFacts DEF IInv
  <1>2. /\ UNCHANGED <<call, stmt, pending>> /\ status[t] \in {"open", "rolledback"}
        /\ \A h \in Goroutines : pc'[h] = "exec" => pc[h] = "exec"
    BY <1>1 DEF Commit, Rollback, Repanic, Leave, FrameFacts, TypeOK
  <1>3. CASE store' = store
    <2>1. \A u \in Txs : status[u] = "committed" => status'[u] = "committed"
      BY <1>1, <1>2 DEF Commit, Rollback, Repanic, CloseWithoutCommit, TypeOK
    <2> QED BY <1>1, <1>2, <1>3, <2>1, StmtKept
  <1>4. CASE /\ status' = [status EXCEPT ![t] = "committed"]
             /\ store' = [store EXCEPT ![origin[t].mgr] = @ \cup pending[t]]
    <2>1. \A m \in Managers, s \in Stmts : s \in store'[m] => s \in store[m] \/ s \in pending[t]
      BY <1>1, <1>4 DEF TypeOK
    <2>2. \A u \in Txs : status[u] = "committed" => status'[u] = "committed"
      BY <1>1, <1>4 DEF TypeOK
    <2>3. status'[t] = "committed"
      BY <1>1, <1>4 DEF TypeOK
    <2>4. \A s \in Stmts : stmt[s].via # NoTx => stmt[s].via \in Txs
      BY <1>1 DEF TypeOK, StmtRecords
    <2>5. ViaInv'
      BY <1>2, <2>1, <2>2, <2>3, <2>4 DEF SharedFate, ViaInv
    <2>6. PoolInv'
      BY <1>2 DEF SharedFate, PoolInv
    <2> QED BY <2>5, <2>6 DEF SharedFate
  <1> QED BY <1>3, <1>4 DEF Commit, Rollback, Repanic, CloseWithoutCommit

\* The other steps touch neither statements nor data.
LEMMA StmtUntouched ==
  ASSUME IInv, SharedFate,
         \/ UNCHANGED vars
         \/ \E g \in Goroutines :
              \/ CallbackEnds(g) \/ Panic(g) \/ Recover(g) \/ Goexit(g)
              \/ \E c \in Passable(g) : CallNested(g, c)
              \/ \E c \in Passable(g), m \in Managers, t \in Txs : CallBegin(g, m, c, t)
              \/ \E c \in Passable(g), w \in Workers : Spawn(g, w, c)
              \/ \E t \in Txs : BeginOK(g, t) \/ BeginFail(g, t)
         \/ \E r \in Roots : Cancel(r)
         \/ \E t \in Txs : AutoRollback(t)
  PROVE  SharedFate'
PROOF
  <1> USE DEF txVars, history
  <1>1. TypeOK /\ BeginInv
    BY DEF IInv
  <1>2. stmt' = stmt /\ pending' = pending /\ store' = store
    BY DEF vars, CallbackEnds, NestedEnds, OwnerEnds, Panic, Recover, Goexit, CallNested,
           CallBegin, Spawn, BeginOK, BeginFail, Cancel, AutoRollback
  <1>3. \A t \in Txs : status[t] = "committed" => status'[t] = "committed"
    <2>1. ASSUME NEW g \in Goroutines, NEW t \in Txs, BeginOK(g, t) \/ BeginFail(g, t)
          PROVE  <1>3
      BY <1>1, <2>1 DEF BeginOK, BeginFail, BeginInv, TypeOK
    <2>2. ASSUME NEW g \in Goroutines, NEW c \in Passable(g), NEW m \in Managers,
                 NEW t \in Txs, CallBegin(g, m, c, t)
          PROVE  <1>3
      BY <1>1, <2>2 DEF CallBegin, TypeOK
    <2>3. ASSUME NEW t \in Txs, AutoRollback(t) PROVE <1>3
      BY <1>1, <2>3 DEF AutoRollback, TypeOK
    <2>4. ASSUME UNCHANGED status PROVE <1>3
      BY <2>4
    <2> QED BY <2>1, <2>2, <2>3, <2>4
        DEF vars, CallbackEnds, NestedEnds, OwnerEnds, Panic, Recover, Goexit, CallNested,
            Spawn, Cancel
  <1>4. \A h \in Goroutines : pc'[h] = "exec" => pc[h] = "exec" /\ call'[h] = call[h]
    <2>1. ASSUME NEW g \in Goroutines, NestedEnds(g) \/ Panic(g) \/ Recover(g) \/ Goexit(g)
          PROVE  <1>4
      BY <1>1, <2>1 DEF NestedEnds, Panic, Recover, Goexit, TypeOK
    <2>2. ASSUME NEW g \in Goroutines, NEW t \in Txs, NEW o \in Outcomes, OwnerEnds(g, t, o)
          PROVE  <1>4
      <3>1. NextPC(o) # "exec"
        BY <2>2, ChoicesAssumption DEF OwnerEnds, NextPC, CallbackOutcomes
      <3> QED BY <1>1, <2>2, <3>1 DEF OwnerEnds, TypeOK
    <2>3. ASSUME NEW g \in Goroutines, NEW c \in Passable(g),
                 \/ CallNested(g, c)
                 \/ \E m \in Managers, t \in Txs : CallBegin(g, m, c, t)
                 \/ \E w \in Workers : Spawn(g, w, c)
          PROVE  <1>4
      BY <1>1, <2>3 DEF CallNested, CallBegin, Spawn, Goroutines, TypeOK
    <2>4. ASSUME NEW g \in Goroutines, NEW t \in Txs, BeginOK(g, t) \/ BeginFail(g, t)
          PROVE  <1>4
      BY <1>1, <2>4 DEF BeginOK, BeginFail, TypeOK
    <2>5. ASSUME UNCHANGED <<pc, call>> PROVE <1>4
      BY <2>5
    <2> QED BY <2>1, <2>2, <2>3, <2>4, <2>5 DEF CallbackEnds, Cancel, AutoRollback, vars
  <1> QED BY <1>1, <1>2, <1>3, <1>4, StmtKept

\* Every step preserves the invariant.
LEMMA StmtStep == IInv /\ SharedFate /\ [Next]_vars => SharedFate'
PROOF
  BY StmtOnTx, StmtOnPool, StmtAnswered, StmtClosed, StmtUntouched
  DEF Next, UserSteps, LibrarySteps

\* Whoever still holds the context of a transaction, and whichever manager began
\* it: a statement issued with it is durable exactly when it succeeded and the
\* transaction was committed.
THEOREM FollowsTheContext == Spec => []EffectsFollowTheContext
PROOF
  <1>1. IInv /\ SharedFate => EffectsFollowTheContext
    <2> SUFFICES ASSUME IInv, SharedFate, NEW s \in Stmts, stmt[s].via # NoTx
                 PROVE  Effective(s) <=> /\ stmt[s].phase = "acked"
                                         /\ status[stmt[s].via] = "committed"
      BY DEF EffectsFollowTheContext
    <2>1. stmt[s].via \in Txs
      BY DEF IInv, TypeOK, StmtRecords
    <2>2. ASSUME stmt[s].phase = "acked", status[stmt[s].via] = "committed"
          PROVE  Effective(s)
      <3>1. s \in pending[stmt[s].via]
        BY <2>2 DEF SharedFate, ViaInv
      <3>2. /\ origin[stmt[s].via].mgr \in Managers
            /\ pending[stmt[s].via] \subseteq store[origin[stmt[s].via].mgr]
        BY <2>1, <2>2 DEF IInv, OutcomeInv
      <3> QED BY <3>1, <3>2 DEF Effective
    <2> QED BY <2>2 DEF SharedFate, ViaInv, Effective
  <1> QED BY <1>1, StmtInit, StmtStep, Invariance, PTL DEF Spec
=============================================================================
