----------------------- MODULE ConnectionManagerProofs -----------------------
(* Theorems about ConnectionManager, for every value of its constants. *)
EXTENDS ConnectionManager, SequenceTheorems, TLAPS

-----------------------------------------------------------------------------
(* Stacks. *)

\* What Top and Pop return.
LEMMA PopProperties ==
  ASSUME NEW S, NEW s \in Seq(S), s # << >>
  PROVE  /\ Len(s) \in Nat \ {0}
         /\ Top(s) \in S
         /\ Pop(s) \in Seq(S)
         /\ Len(Pop(s)) = Len(s) - 1
         /\ \A i \in 1..Len(s) - 1 : Pop(s)[i] = s[i]
PROOF
  <1>1. Len(s) \in Nat \ {0}
    BY EmptySeq
  <1>2. \A i \in 1..Len(s) : s[i] \in S
    BY ElementOfSeq
  <1>3. Top(s) \in S
    BY <1>1, <1>2 DEF Top
  <1>4. /\ Pop(s) \in Seq(S)
        /\ Len(Pop(s)) = Len(s) - 1
        /\ \A i \in 1..Len(s) - 1 : Pop(s)[i] = s[i]
    <2>1. \A i \in 1..Len(s) - 1 : s[i] \in S
      BY <1>1, <1>2
    <2>2. 1 \in Int /\ Len(s) - 1 \in Int
      BY <1>1
    <2> DEFINE n == Len(s) - 1
    <2>3. n \in Nat /\ \A i \in 1..n : s[i] \in S
      BY <1>1, <2>1
    <2> HIDE DEF n
    <2>4. /\ SubSeq(s, 1, n) \in Seq(S)
          /\ Len(SubSeq(s, 1, n)) = IF 1 <= n THEN n - 1 + 1 ELSE 0
          /\ \A i \in 1..n - 1 + 1 : SubSeq(s, 1, n)[i] = s[1 + i - 1]
      BY <2>2, <2>3, SubSeqProperties
    <2>5. Len(SubSeq(s, 1, n)) = n
      BY <2>3, <2>4
    <2>6. ASSUME NEW i \in 1..n PROVE SubSeq(s, 1, n)[i] = s[i]
      <3>1. 1 + i - 1 = i /\ n - 1 + 1 = n
        BY <2>3
      <3> QED BY <2>4, <3>1
    <2> QED BY <2>4, <2>5, <2>6 DEF Pop, n
  <1> QED BY <1>1, <1>3, <1>4

\* A context user code can hand on is a context.
LEMMA PassableIsContext ==
  ASSUME TypeOK, NEW g \in Goroutines
  PROVE  Current(g) \in Contexts /\ Passable(g) \subseteq Contexts
PROOF
  <1>1. stack[g] \in Seq(Frames) /\ base[g] \in Contexts
    BY DEF TypeOK
  <1>2. \A i \in 1..Len(stack[g]) : stack[g][i].ctx \in Contexts
    <2>1. \A i \in 1..Len(stack[g]) : stack[g][i] \in Frames
      BY <1>1, ElementOfSeq
    <2> QED BY <2>1 DEF Frames
  <1>3. Current(g) \in Contexts
    <2>1. CASE stack[g] = << >>
      BY <2>1, <1>1 DEF Current
    <2>2. CASE stack[g] # << >>
      <3>1. Top(stack[g]) \in Frames
        BY <2>2, <1>1, PopProperties
      <3> QED BY <2>2, <3>1 DEF Current, Frames
    <2> QED BY <2>1, <2>2
  <1>4. Background \in Contexts
    BY DEF Background, Contexts
  <1> QED BY <1>1, <1>2, <1>3, <1>4 DEF Passable

-----------------------------------------------------------------------------
(* Type correctness. *)

\* A call that pushes a frame, or pops one, leaves a stack of frames.
LEMMA StackTyping ==
  ASSUME TypeOK, NEW g \in Goroutines, NEW f \in Frames
  PROVE  /\ [stack EXCEPT ![g] = Append(@, f)] \in [Goroutines -> Seq(Frames)]
         /\ stack[g] # << >> =>
              [stack EXCEPT ![g] = Pop(@)] \in [Goroutines -> Seq(Frames)]
         /\ [stack EXCEPT ![g] = << >>] \in [Goroutines -> Seq(Frames)]
PROOF
  <1>1. stack \in [Goroutines -> Seq(Frames)]
    BY DEF TypeOK
  <1>2. Append(stack[g], f) \in Seq(Frames)
    BY <1>1, AppendProperties
  <1>3. stack[g] # << >> => Pop(stack[g]) \in Seq(Frames)
    BY <1>1, PopProperties
  <1>4. << >> \in Seq(Frames)
    BY EmptySeq
  <1> QED BY <1>1, <1>2, <1>3, <1>4

\* An owner's frame is on a stack that is not empty.
LEMMA OwnerHasStack ==
  ASSUME TypeOK, NEW g \in Goroutines, NEW i, NEW t, OwnerAt(g, i, t)
  PROVE  stack[g] # << >>
PROOF
  <1>1. stack[g] \in Seq(Frames) /\ i \in 1..Len(stack[g])
    BY DEF TypeOK, OwnerAt
  <1>2. Len(<< >>) = 0
    BY EmptySeq
  <1> QED BY <1>1, <1>2

\* Nothing runs and no transaction exists at the start.
LEMMA InitTyping == Init => TypeOK
PROOF
  <1> SUFFICES ASSUME Init PROVE TypeOK
    OBVIOUS
  <1>1. << >> \in Seq(Frames)
    BY EmptySeq
  <1>2. Background \in Contexts
    BY DEF Background, Contexts
  <1> QED
    BY <1>1, <1>2 DEF Init, TypeOK, Contexts, PCs, Statuses, StmtRecords, Targets, Goroutines

\* Closing a transaction, whatever it does to status and store, keeps the types.
LEMMA LeaveTyping ==
  ASSUME TypeOK, NEW g \in Goroutines, NEW t \in Txs,
         NEW answer \in {"nil", "err", "panic"}, NEW next \in {"run", "panicking"},
         Leave(g, t, answer, next),
         status' \in [Txs -> Statuses], store' \in [Managers -> SUBSET Stmts],
         stmt' = stmt
  PROVE  TypeOK'
PROOF
  <1>1. OwnerAt(g, Len(stack[g]), t)
    BY DEF Leave
  <1>2. stack[g] # << >>
    BY <1>1, OwnerHasStack
  <1>3. PICK f : f \in Frames
    BY <1>2, PopProperties DEF TypeOK
  <1>4. stack' \in [Goroutines -> Seq(Frames)]
    BY <1>2, <1>3, StackTyping DEF Leave
  <1> QED BY <1>4 DEF TypeOK, Leave, PCs

\* Every action keeps the types.
LEMMA StepTyping == TypeOK /\ [Next]_vars => TypeOK'
PROOF
  <1> SUFFICES ASSUME TypeOK, [Next]_vars PROVE TypeOK'
    OBVIOUS
  <1> USE DEF txVars, history
  <1>1. ASSUME NEW g \in Goroutines, NestedEnds(g) PROVE TypeOK'
    <2>1. PICK f : f \in Frames
      BY <1>1, PopProperties DEF NestedEnds, TypeOK
    <2>2. stack' \in [Goroutines -> Seq(Frames)]
      BY <1>1, <2>1, StackTyping DEF NestedEnds
    <2> QED BY <1>1, <2>2 DEF NestedEnds, TypeOK
  <1>2. ASSUME NEW g \in Goroutines, NEW t \in Txs, NEW o \in Outcomes, OwnerEnds(g, t, o)
        PROVE  TypeOK'
    BY <1>2, ChoicesAssumption DEF OwnerEnds, NextPC, CallbackOutcomes, TypeOK, PCs
  <1>3. ASSUME NEW g \in Goroutines, Panic(g) \/ Recover(g) PROVE TypeOK'
    BY <1>3 DEF Panic, Recover, TypeOK, PCs
  <1>4. ASSUME NEW g \in Goroutines, Goexit(g) PROVE TypeOK'
    <2>1. stack' \in [Goroutines -> Seq(Frames)]
      BY <1>4, EmptySeq DEF Goexit, TypeOK
    <2> QED BY <1>4, <2>1 DEF Goexit, TypeOK, PCs, CallbackOutcomes
  <1>5. ASSUME NEW g \in Goroutines, NEW c \in Passable(g), CallNested(g, c) PROVE TypeOK'
    <2>1. [ctx |-> c, owns |-> FALSE] \in Frames
      BY <1>5, PassableIsContext DEF Frames
    <2>2. stack' \in [Goroutines -> Seq(Frames)]
      BY <1>5, <2>1, StackTyping DEF CallNested
    <2> QED BY <1>5, <2>2 DEF CallNested, TypeOK
  <1>6. ASSUME NEW g \in Goroutines, NEW c \in Passable(g), NEW m \in Managers, NEW t \in Txs,
               CallBegin(g, m, c, t)
        PROVE  TypeOK'
    <2>1. c.scope \in Roots \cup {NoScope}
      BY <1>6, PassableIsContext DEF Contexts
    <2> QED BY <1>6, <2>1 DEF CallBegin, TypeOK, PCs, Statuses
  <1>7. ASSUME NEW g \in Goroutines, NEW c \in Passable(g), NEW m \in Managers, NEW s \in Stmts,
               ExecOnPool(g, m, c, s)
        PROVE  TypeOK'
    <2>1. Issued(g, m, c, s, "waiting") \in StmtRecords
      BY <1>7, PassableIsContext DEF Issued, DB, Carries, Contexts, StmtRecords, Targets
    <2> QED BY <1>7, <2>1 DEF ExecOnPool, TypeOK, PCs
  <1>8. ASSUME NEW g \in Goroutines, NEW c \in Passable(g), NEW m \in Managers, NEW s \in Stmts,
               NEW t \in Txs, ExecOnTx(g, m, c, s, t)
        PROVE  TypeOK'
    <2>1. \A ph \in {"acked", "failed"} : Issued(g, m, c, s, ph) \in StmtRecords
      BY <1>8, PassableIsContext DEF Issued, DB, Carries, Contexts, StmtRecords, Targets
    <2>2. stmt' \in [Stmts -> StmtRecords]
      BY <1>8, <2>1 DEF ExecOnTx, TypeOK
    <2>3. pending' \in [Txs -> SUBSET Stmts]
      <3>1. [pending EXCEPT ![t] = @ \cup {s}] \in [Txs -> SUBSET Stmts]
        BY DEF TypeOK
      <3>2. pending' = [pending EXCEPT ![t] = @ \cup {s}] \/ pending' = pending
        BY <1>8 DEF ExecOnTx
      <3> QED BY <3>1, <3>2 DEF TypeOK
    <2> QED BY <1>8, <2>2, <2>3 DEF ExecOnTx, TypeOK
  <1>9. ASSUME NEW g \in Goroutines, NEW c \in Passable(g), NEW w \in Workers, Spawn(g, w, c)
        PROVE  TypeOK'
    BY <1>9, PassableIsContext DEF Spawn, TypeOK, PCs
  <1>10. ASSUME NEW g \in Goroutines, NEW t \in Txs, BeginOK(g, t) PROVE TypeOK'
    <2>1. [ctx |-> [tx |-> t, scope |-> origin[t].scope], owns |-> TRUE] \in Frames
      BY DEF TypeOK, Frames, Contexts
    <2>2. stack' \in [Goroutines -> Seq(Frames)]
      BY <1>10, <2>1, StackTyping DEF BeginOK
    <2> QED BY <1>10, <2>2 DEF BeginOK, TypeOK, PCs, Statuses
  <1>11. ASSUME NEW g \in Goroutines, NEW t \in Txs, BeginFail(g, t) PROVE TypeOK'
    BY <1>11 DEF BeginFail, TypeOK, PCs, Statuses
  <1>12. ASSUME NEW g \in Goroutines, NEW t \in Txs, Commit(g, t) PROVE TypeOK'
    <2>1. stmt' = stmt /\ \E answer \in {"nil", "err"} : Leave(g, t, answer, "run")
      BY <1>12 DEF Commit, Leave
    <2>2. /\ \/ status' = status
             \/ \E s \in {"committed", "rolledback"} : status' = [status EXCEPT ![t] = s]
          /\ \/ store' = store
             \/ store' = [store EXCEPT ![origin[t].mgr] = @ \cup pending[t]]
      BY <1>12 DEF Commit
    <2>3. status' \in [Txs -> Statuses]
      BY <2>2 DEF TypeOK, Statuses
    <2>4. store' \in [Managers -> SUBSET Stmts]
      <3>1. store \in [Managers -> SUBSET Stmts] /\ pending[t] \in SUBSET Stmts
        BY DEF TypeOK
      <3> QED BY <2>2, <3>1
    <2> QED BY <2>1, <2>3, <2>4, LeaveTyping
  <1>13. ASSUME NEW g \in Goroutines, NEW t \in Txs, Rollback(g, t) \/ Repanic(g, t)
         PROVE  TypeOK'
    <2>1. stmt' = stmt /\ \/ Leave(g, t, "err", "run")
                          \/ Leave(g, t, "panic", "panicking")
      BY <1>13 DEF Rollback, Repanic, Leave
    <2>2. status' \in [Txs -> Statuses] /\ store' \in [Managers -> SUBSET Stmts]
      BY <1>13 DEF Rollback, Repanic, CloseWithoutCommit, TypeOK, Statuses
    <2> QED BY <2>1, <2>2, LeaveTyping
  <1>14. ASSUME NEW g \in Goroutines, NEW s \in Stmts, PoolAnswers(g, s) PROVE TypeOK'
    <2>1. stmt' \in [Stmts -> StmtRecords]
      <3>1. stmt \in [Stmts -> StmtRecords]
        BY DEF TypeOK
      <3>2. \A ph \in {"acked", "failed"} :
              [stmt[s] EXCEPT !.phase = ph] \in StmtRecords
        BY <3>1 DEF StmtRecords
      <3>3. \A ph \in {"acked", "failed"} :
              [stmt EXCEPT ![s].phase = ph] = [stmt EXCEPT ![s] = [stmt[s] EXCEPT !.phase = ph]]
        BY <3>1
      <3>4. \A ph \in {"acked", "failed"} :
              [stmt EXCEPT ![s].phase = ph] \in [Stmts -> StmtRecords]
        BY <3>1, <3>2, <3>3
      <3> QED BY <1>14, <3>4 DEF PoolAnswers
    <2>2. store' \in [Managers -> SUBSET Stmts]
      <3>1. \A m \in Managers :
              [store EXCEPT ![m] = @ \cup {s}] \in [Managers -> SUBSET Stmts]
        BY DEF TypeOK
      <3>2. \A m : m \notin Managers => [store EXCEPT ![m] = @ \cup {s}] = store
        BY DEF TypeOK
      <3>3. store' = [store EXCEPT ![stmt[s].mgr] = @ \cup {s}] \/ store' = store
        BY <1>14 DEF PoolAnswers
      <3>4. store \in [Managers -> SUBSET Stmts]
        BY DEF TypeOK
      <3>5. CASE stmt[s].mgr \in Managers
        BY <3>1, <3>3, <3>4, <3>5
      <3>6. CASE stmt[s].mgr \notin Managers
        BY <3>2, <3>3, <3>4, <3>6
      <3> QED BY <3>5, <3>6
    <2>3. /\ pc' = [pc EXCEPT ![g] = "run"] /\ call' = [call EXCEPT ![g] = NoCall]
          /\ UNCHANGED <<stack, base, status, origin, pending, cancelled, verdict, reply>>
      BY <1>14 DEF PoolAnswers
    <2> QED BY <2>1, <2>2, <2>3 DEF TypeOK, PCs
  <1>15. ASSUME NEW r \in Roots, Cancel(r) PROVE TypeOK'
    BY <1>15 DEF Cancel, TypeOK
  <1>16. ASSUME NEW t \in Txs, AutoRollback(t) PROVE TypeOK'
    BY <1>16 DEF AutoRollback, TypeOK, Statuses
  <1>17. CASE UNCHANGED vars
    BY <1>17 DEF vars, TypeOK
  <1> QED
    BY <1>1, <1>2, <1>3, <1>4, <1>5, <1>6, <1>7, <1>8, <1>9, <1>10, <1>11, <1>12, <1>13,
       <1>14, <1>15, <1>16, <1>17
    DEF Next, CallbackEnds, UserSteps, LibrarySteps

\* Every variable keeps its type in every reachable state.
THEOREM Typing == Spec => []TypeOK
PROOF
  BY InitTyping, StepTyping, PTL DEF Spec
-----------------------------------------------------------------------------
(* How each kind of step changes which frame owns which transaction. *)

\* FrameInv with the index unbounded: OwnerAt bounds it already.
FrameFacts ==
  \A g \in Goroutines, t \in Txs : \A i :
    OwnerAt(g, i, t) =>
      /\ status[t] \in {"open", "rolledback"}
      /\ verdict[t] = "none" \/ (i = Len(stack[g]) /\ Closing(g))
      /\ i = Len(stack[g]) /\ pc[g] = "commit" => verdict[t] = "nil"
      /\ \A h \in Goroutines : \A j : OwnerAt(h, j, t) => g = h /\ i = j

\* FrameInv speaks of the frames of a stack; FrameFacts says the same of every
\* position, so that it can be used without bounds.
LEMMA FrameInvIsFrameFacts ==
  (FrameInv <=> FrameFacts) /\ (FrameInv' <=> FrameFacts')
PROOF
  <1>1. \A g, i, t : /\ OwnerAt(g, i, t) => i \in 1..Len(stack[g])
                     /\ OwnerAt(g, i, t)' => i \in 1..Len(stack'[g])
    BY DEF OwnerAt
  <1>2. FrameInv <=> FrameFacts
    BY <1>1 DEF FrameInv, FrameFacts
  <1>3. FrameInv' <=> FrameFacts'
    BY <1>1 DEF FrameInv, FrameFacts
  <1> QED BY <1>2, <1>3

\* A goroutine owns a transaction by one of its frames.
LEMMA OwnsByFrame ==
  \A g, t : (Owns(g, t) <=> \E i : OwnerAt(g, i, t)) /\ (Owns(g, t)' <=> \E i : OwnerAt(g, i, t)')
PROOF
  BY DEF Owns, OwnerAt

\* A frame owns at most one transaction.
LEMMA FrameOwnsOne ==
  \A g, i, t, u : OwnerAt(g, i, t) /\ OwnerAt(g, i, u) => t = u
PROOF
  BY DEF OwnerAt

\* Who owns what is read from the stacks only.
LEMMA SameFrames ==
  ASSUME stack' = stack
  PROVE  \A g, i, t : OwnerAt(g, i, t)' <=> OwnerAt(g, i, t)
PROOF
  BY DEF OwnerAt

\* A call that begins adds one owner at most: its own frame.
LEMMA PushFrames ==
  ASSUME TypeOK, NEW g \in Goroutines, NEW f \in Frames,
         stack' = [stack EXCEPT ![g] = Append(@, f)]
  PROVE  /\ Len(stack'[g]) = Len(stack[g]) + 1 /\ Len(stack[g]) \in Nat
         /\ \A h \in Goroutines \ {g} : stack'[h] = stack[h]
         /\ \A h \in Goroutines : \A i, t :
              OwnerAt(h, i, t)' <=> \/ OwnerAt(h, i, t)
                                    \/ /\ h = g /\ i = Len(stack[g]) + 1
                                       /\ f.owns /\ f.ctx.tx = t
PROOF
  <1>1. stack \in [Goroutines -> Seq(Frames)]
    BY DEF TypeOK
  <1>2. stack'[g] = Append(stack[g], f) /\ \A h \in Goroutines \ {g} : stack'[h] = stack[h]
    BY <1>1
  <1>3. /\ Len(stack[g]) \in Nat
        /\ Len(stack'[g]) = Len(stack[g]) + 1
        /\ \A i \in 1..Len(stack[g]) : stack'[g][i] = stack[g][i]
        /\ stack'[g][Len(stack[g]) + 1] = f
    BY <1>1, <1>2, AppendProperties, LenProperties
  <1>4. ASSUME NEW i, NEW t
        PROVE  OwnerAt(g, i, t)' <=> \/ OwnerAt(g, i, t)
                                     \/ i = Len(stack[g]) + 1 /\ f.owns /\ f.ctx.tx = t
    <2>1. CASE i \in 1..Len(stack[g])
      <3>1. i \in 1..Len(stack'[g]) /\ stack'[g][i] = stack[g][i] /\ i # Len(stack[g]) + 1
        BY <2>1, <1>3
      <3>2. OwnerAt(g, i, t)' <=> OwnerAt(g, i, t)
        BY <2>1, <3>1, Zenon DEF OwnerAt
      <3> QED BY <3>1, <3>2
    <2>2. CASE i = Len(stack[g]) + 1
      <3>1. i \in 1..Len(stack'[g]) /\ stack'[g][i] = f /\ i \notin 1..Len(stack[g])
        BY <2>2, <1>3
      <3> QED BY <2>2, <3>1 DEF OwnerAt
    <2>3. CASE i \notin 1..Len(stack[g]) /\ i # Len(stack[g]) + 1
      <3>1. i \notin 1..Len(stack'[g])
        BY <2>3, <1>3
      <3> QED BY <2>3, <3>1 DEF OwnerAt
    <2> QED BY <2>1, <2>2, <2>3
  <1>5. ASSUME NEW h \in Goroutines \ {g}, NEW i, NEW t
        PROVE  OwnerAt(h, i, t)' <=> OwnerAt(h, i, t)
    BY <1>2 DEF OwnerAt
  <1>6. ASSUME NEW h \in Goroutines, NEW i, NEW t
        PROVE  OwnerAt(h, i, t)' <=> \/ OwnerAt(h, i, t)
                                     \/ /\ h = g /\ i = Len(stack[g]) + 1
                                        /\ f.owns /\ f.ctx.tx = t
    BY <1>4, <1>5, Zenon
  <1> QED BY <1>2, <1>3, <1>6

\* A call that ends takes away the owner at the top of its stack.
LEMMA PopFrames ==
  ASSUME TypeOK, NEW g \in Goroutines, stack[g] # << >>,
         stack' = [stack EXCEPT ![g] = Pop(@)]
  PROVE  /\ Len(stack'[g]) = Len(stack[g]) - 1 /\ Len(stack[g]) \in Nat \ {0}
         /\ \A h \in Goroutines \ {g} : stack'[h] = stack[h]
         /\ \A h \in Goroutines : \A i, t :
              OwnerAt(h, i, t)' <=> OwnerAt(h, i, t) /\ ~(h = g /\ i = Len(stack[g]))
PROOF
  <1>1. stack \in [Goroutines -> Seq(Frames)]
    BY DEF TypeOK
  <1>2. stack'[g] = Pop(stack[g]) /\ \A h \in Goroutines \ {g} : stack'[h] = stack[h]
    BY <1>1
  <1>3. /\ Len(stack[g]) \in Nat \ {0}
        /\ Len(stack'[g]) = Len(stack[g]) - 1
        /\ \A i \in 1..Len(stack[g]) - 1 : stack'[g][i] = stack[g][i]
    <2>1. stack[g] \in Seq(Frames)
      BY <1>1
    <2>2. /\ Len(stack[g]) \in Nat \ {0}
          /\ Len(Pop(stack[g])) = Len(stack[g]) - 1
          /\ \A i \in 1..Len(stack[g]) - 1 : Pop(stack[g])[i] = stack[g][i]
      BY <2>1, PopProperties
    <2> QED BY <1>2, <2>2
  <1>4. ASSUME NEW i, NEW t
        PROVE  OwnerAt(g, i, t)' <=> OwnerAt(g, i, t) /\ i # Len(stack[g])
    <2>1. CASE i \in 1..Len(stack[g]) - 1
      <3>1. i \in 1..Len(stack'[g]) /\ stack'[g][i] = stack[g][i] /\ i # Len(stack[g])
            /\ i \in 1..Len(stack[g])
        BY <2>1, <1>3
      <3> QED BY <3>1 DEF OwnerAt
    <2>2. CASE i \notin 1..Len(stack[g]) - 1
      <3>1. i \notin 1..Len(stack'[g]) /\ (i \notin 1..Len(stack[g]) \/ i = Len(stack[g]))
        BY <2>2, <1>3
      <3> QED BY <3>1 DEF OwnerAt
    <2> QED BY <2>1, <2>2
  <1>5. ASSUME NEW h \in Goroutines \ {g}, NEW i, NEW t
        PROVE  OwnerAt(h, i, t)' <=> OwnerAt(h, i, t)
    BY <1>2 DEF OwnerAt
  <1>6. ASSUME NEW h \in Goroutines, NEW i, NEW t
        PROVE  OwnerAt(h, i, t)' <=> OwnerAt(h, i, t) /\ ~(h = g /\ i = Len(stack[g]))
    <2>1. CASE h = g
      BY <2>1, <1>4
    <2>2. CASE h # g
      BY <2>2, <1>5
    <2> QED BY <2>1, <2>2
  <1> QED BY <1>2, <1>3, <1>6

\* Goexit takes away all owners of its goroutine.
LEMMA ClearFrames ==
  ASSUME TypeOK, NEW g \in Goroutines, stack' = [stack EXCEPT ![g] = << >>]
  PROVE  /\ \A h \in Goroutines \ {g} : stack'[h] = stack[h]
         /\ \A h \in Goroutines : \A i, t :
              OwnerAt(h, i, t)' <=> OwnerAt(h, i, t) /\ h # g
PROOF
  <1>1. stack \in [Goroutines -> Seq(Frames)]
    BY DEF TypeOK
  <1>2. stack'[g] = << >> /\ \A h \in Goroutines \ {g} : stack'[h] = stack[h]
    BY <1>1
  <1>3. Len(stack'[g]) = 0
    BY <1>2, EmptySeq
  <1>4. ASSUME NEW i, NEW t PROVE ~OwnerAt(g, i, t)'
    BY <1>3 DEF OwnerAt
  <1>5. ASSUME NEW h \in Goroutines \ {g}, NEW i, NEW t
        PROVE  OwnerAt(h, i, t)' <=> OwnerAt(h, i, t)
    BY <1>2 DEF OwnerAt
  <1> QED BY <1>2, <1>4, <1>5

-----------------------------------------------------------------------------
(* The inductive invariant, one lemma per kind of step. *)

\* Steps of user code and of the pool that open, close and end nothing.
LEMMA QuietStep ==
  ASSUME IInv, stack' = stack, status' = status, origin' = origin,
         verdict' = verdict, reply' = reply, cancelled \subseteq cancelled',
         \A t \in Txs : status[t] = "open" \/ pending'[t] = pending[t],
         \A m \in Managers : store[m] \subseteq store'[m],
         \A h \in Goroutines : (Closing(h) \/ Closing(h)') => pc'[h] = pc[h],
         \A h \in Goroutines : pc'[h] = "begin" => pc[h] = "begin" /\ call'[h] = call[h]
  PROVE  BeginInv' /\ FrameFacts' /\ OutcomeInv'
PROOF
  <1>1. FrameFacts /\ BeginInv /\ OutcomeInv
    BY FrameInvIsFrameFacts DEF IInv
  <1>2. BeginInv'
    BY <1>1 DEF BeginInv
  <1>3. FrameFacts'
    BY <1>1, SameFrames DEF FrameFacts, Closing
  <1>4. \A g, t : Owns(g, t) => Owns(g, t)'
    BY SameFrames, OwnsByFrame
  <1>5. OutcomeInv'
    BY <1>1, <1>4 DEF OutcomeInv
  <1> QED BY <1>2, <1>3, <1>5

\* The owner's callback ends: its transaction gets its verdict.
LEMMA OwnerEndsStep ==
  ASSUME IInv, NEW g \in Goroutines, NEW t \in Txs, NEW o \in Outcomes, OwnerEnds(g, t, o)
  PROVE  BeginInv' /\ FrameFacts' /\ OutcomeInv'
PROOF
  <1> USE DEF txVars
  <1>1. FrameFacts /\ BeginInv /\ OutcomeInv /\ TypeOK
    BY FrameInvIsFrameFacts DEF IInv
  <1>2. /\ OwnerAt(g, Len(stack[g]), t) /\ ~Closing(g) /\ pc[g] # "begin"
        /\ Closing(g)' /\ pc' = [pc EXCEPT ![g] = NextPC(o)] /\ pc'[g] # "begin"
        /\ verdict' = [verdict EXCEPT ![t] = o]
        /\ pc'[g] = "commit" => o = "nil"
    <2>1. o \in {"nil", "err", "panic"}
      BY ChoicesAssumption DEF OwnerEnds, CallbackOutcomes
    <2> QED BY <1>1, <2>1 DEF OwnerEnds, NextPC, Closing, TypeOK
  <1>3. /\ UNCHANGED <<stack, base, call, status, origin, pending, store, cancelled, reply>>
        /\ \A h \in Goroutines \ {g} : pc'[h] = pc[h]
        /\ \A u \in Txs : verdict'[u] = IF u = t THEN o ELSE verdict[u]
    BY <1>1 DEF OwnerEnds, TypeOK
  <1>4. \A h, i, u : OwnerAt(h, i, u)' <=> OwnerAt(h, i, u)
    BY <1>3, SameFrames
  <1>5. status[t] \in {"open", "rolledback"}
    BY <1>1, <1>2 DEF FrameFacts
  <1>6. BeginInv'
    BY <1>1, <1>2, <1>3 DEF BeginInv
  <1>7. FrameFacts'
    <2> SUFFICES ASSUME NEW h \in Goroutines, NEW u \in Txs, NEW i, OwnerAt(h, i, u)
                 PROVE  /\ status[u] \in {"open", "rolledback"}
                        /\ verdict'[u] = "none" \/ (i = Len(stack[h]) /\ Closing(h)')
                        /\ i = Len(stack[h]) /\ pc'[h] = "commit" => verdict'[u] = "nil"
                        /\ \A k \in Goroutines : \A j : OwnerAt(k, j, u) => h = k /\ i = j
      BY <1>3, <1>4 DEF FrameFacts
    <2>1. CASE u = t
      <3>1. h = g /\ i = Len(stack[g])
        BY <1>1, <1>2, <2>1 DEF FrameFacts
      <3>2. \A k \in Goroutines : \A j : OwnerAt(k, j, u) => h = k /\ i = j
        BY <1>1 DEF FrameFacts
      <3>3. verdict'[u] = o /\ (pc'[h] = "commit" => o = "nil") /\ Closing(h)'
        BY <1>2, <1>3, <2>1, <3>1
      <3> QED BY <1>5, <2>1, <3>1, <3>2, <3>3
    <2>2. CASE u # t
      <3>1. ~(h = g /\ i = Len(stack[g]))
        BY <1>2, <2>2, FrameOwnsOne
      <3>2. CASE h = g
        BY <1>1, <1>2, <1>3, <2>2, <3>1, <3>2 DEF FrameFacts
      <3>3. CASE h # g
        BY <1>1, <1>3, <2>2, <3>3 DEF FrameFacts, Closing
      <3> QED BY <3>2, <3>3
    <2> QED BY <2>1, <2>2
  <1>8. \A h, u : Owns(h, u)' <=> Owns(h, u)
    BY <1>4, OwnsByFrame
  <1>9. Owns(g, t)
    BY <1>2, OwnsByFrame
  <1>10. OutcomeInv'
    BY <1>1, <1>3, <1>5, <1>8, <1>9 DEF OutcomeInv
  <1> QED BY <1>6, <1>7, <1>10

\* A nested callback starts, or one ends.
LEMMA NestedStep ==
  ASSUME IInv, NEW g \in Goroutines,
         NestedEnds(g) \/ \E c \in Passable(g) : CallNested(g, c)
  PROVE  BeginInv' /\ FrameFacts' /\ OutcomeInv'
PROOF
  <1> USE DEF txVars, history
  <1>1. FrameFacts /\ BeginInv /\ OutcomeInv /\ TypeOK
    BY FrameInvIsFrameFacts DEF IInv
  <1>2. /\ UNCHANGED <<base, pc, call, txVars, cancelled, history>>
        /\ ~Closing(g)
    BY DEF NestedEnds, CallNested, Closing
  <1>3. /\ \A h \in Goroutines \ {g} : stack'[h] = stack[h]
        /\ \A h \in Goroutines : \A i, t : OwnerAt(h, i, t)' <=> OwnerAt(h, i, t)
    <2>1. CASE NestedEnds(g)
      <3>1. \A t : ~OwnerAt(g, Len(stack[g]), t)
        BY <2>1 DEF NestedEnds, OwnerAt, Top
      <3>2. stack[g] # << >> /\ stack' = [stack EXCEPT ![g] = Pop(@)]
        BY <2>1 DEF NestedEnds
      <3>3. /\ \A h \in Goroutines \ {g} : stack'[h] = stack[h]
            /\ \A h \in Goroutines : \A i, t :
                 OwnerAt(h, i, t)' <=> OwnerAt(h, i, t) /\ ~(h = g /\ i = Len(stack[g]))
        BY <1>1, <3>2, PopFrames
      <3> QED BY <3>1, <3>3
    <2>2. ASSUME NEW c \in Passable(g), CallNested(g, c)
          PROVE  <1>3!:
      <3> DEFINE f == [ctx |-> c, owns |-> FALSE]
      <3>1. f \in Frames /\ ~f.owns
        BY <1>1, PassableIsContext DEF Frames
      <3>2. stack' = [stack EXCEPT ![g] = Append(@, f)]
        BY <2>2 DEF CallNested
      <3> HIDE DEF f
      <3> QED BY <1>1, <3>1, <3>2, PushFrames
    <2> QED BY <2>1, <2>2
  <1>4. BeginInv'
    BY <1>1, <1>2 DEF BeginInv
  <1>5. FrameFacts'
    BY <1>1, <1>2, <1>3 DEF FrameFacts, Closing
  <1>6. \A h \in Goroutines : \A t : Owns(h, t)' <=> Owns(h, t)
    BY <1>3, OwnsByFrame
  <1>7. OutcomeInv'
    BY <1>1, <1>2, <1>6 DEF OutcomeInv
  <1> QED BY <1>4, <1>5, <1>7

\* runtime.Goexit takes every frame of the goroutine away.
LEMMA GoexitStep ==
  ASSUME IInv, NEW g \in Goroutines, Goexit(g)
  PROVE  BeginInv' /\ FrameFacts' /\ OutcomeInv'
PROOF
  <1> USE DEF txVars
  <1>1. FrameFacts /\ BeginInv /\ OutcomeInv /\ TypeOK
    BY FrameInvIsFrameFacts DEF IInv
  <1>2. /\ stack' = [stack EXCEPT ![g] = << >>]
        /\ UNCHANGED <<base, call, status, origin, pending, store, cancelled, reply>>
        /\ pc'[g] = "exited" /\ \A h \in Goroutines \ {g} : pc'[h] = pc[h]
        /\ \A t \in Txs : verdict'[t] = IF Owns(g, t) THEN "goexit" ELSE verdict[t]
    BY <1>1 DEF Goexit, TypeOK
  <1>3. /\ \A h \in Goroutines \ {g} : stack'[h] = stack[h]
        /\ \A h \in Goroutines : \A i, t :
             OwnerAt(h, i, t)' <=> OwnerAt(h, i, t) /\ h # g
    BY <1>1, <1>2, ClearFrames
  <1>4. ASSUME NEW t \in Txs, Owns(g, t)
        PROVE  /\ status[t] \in {"open", "rolledback"}
               /\ \A h \in Goroutines : \A i : ~OwnerAt(h, i, t)'
    <2>1. PICK i : OwnerAt(g, i, t)
      BY <1>4, OwnsByFrame
    <2> QED BY <1>1, <1>3, <2>1 DEF FrameFacts
  <1>5. BeginInv'
    BY <1>1, <1>2 DEF BeginInv
  <1>6. FrameFacts'
    BY <1>1, <1>2, <1>3, <1>4 DEF FrameFacts, Closing
  <1>7. \A h \in Goroutines \ {g} : \A t : Owns(h, t)' <=> Owns(h, t)
    BY <1>3, OwnsByFrame
  <1>8. OutcomeInv'
    BY <1>1, <1>2, <1>4, <1>7 DEF OutcomeInv
  <1> QED BY <1>5, <1>6, <1>8

\* BeginTx is asked for a connection.
LEMMA CallBeginStep ==
  ASSUME IInv, NEW g \in Goroutines, NEW c, NEW m \in Managers, NEW t \in Txs,
         CallBegin(g, m, c, t)
  PROVE  BeginInv' /\ FrameFacts' /\ OutcomeInv'
PROOF
  <1> USE DEF history
  <1>1. FrameFacts /\ BeginInv /\ OutcomeInv /\ TypeOK
    BY FrameInvIsFrameFacts DEF IInv
  <1>2. /\ UNCHANGED <<stack, base, pending, store, cancelled, verdict, reply>>
        /\ status[t] = "unused" /\ pc[g] = "run"
        /\ pc'[g] = "begin" /\ \A h \in Goroutines \ {g} : pc'[h] = pc[h]
        /\ call'[g] = t /\ \A h \in Goroutines \ {g} : call'[h] = call[h]
        /\ \A u \in Txs : status'[u] = IF u = t THEN "beginning" ELSE status[u]
        /\ \A u \in Txs \ {t} : origin'[u] = origin[u]
        /\ origin'[t].mgr = m
    BY <1>1 DEF CallBegin, TypeOK
  <1>3. \A h, i, u : OwnerAt(h, i, u)' <=> OwnerAt(h, i, u)
    BY <1>2, SameFrames
  <1>4. BeginInv'
    BY <1>1, <1>2 DEF BeginInv
  <1>5. FrameFacts'
    BY <1>1, <1>2, <1>3 DEF FrameFacts, Closing
  <1>6. \A h, u : Owns(h, u)' <=> Owns(h, u)
    BY <1>3, OwnsByFrame
  <1>7. OutcomeInv'
    BY <1>1, <1>2, <1>6 DEF OutcomeInv
  <1> QED BY <1>4, <1>5, <1>7

\* BeginTx answers a transaction.
LEMMA BeginOKStep ==
  ASSUME IInv, NEW g \in Goroutines, NEW t \in Txs, BeginOK(g, t)
  PROVE  BeginInv' /\ FrameFacts' /\ OutcomeInv'
PROOF
  <1> USE DEF history
  <1> DEFINE f == [ctx |-> [tx |-> t, scope |-> origin[t].scope], owns |-> TRUE]
  <1>1. FrameFacts /\ BeginInv /\ OutcomeInv /\ TypeOK
    BY FrameInvIsFrameFacts DEF IInv
  <1>2. /\ UNCHANGED <<base, origin, pending, store, cancelled, verdict, reply>>
        /\ pc[g] = "begin" /\ call[g] = t
        /\ pc'[g] = "run" /\ \A h \in Goroutines \ {g} : pc'[h] = pc[h]
        /\ \A h \in Goroutines \ {g} : call'[h] = call[h]
        /\ \A u \in Txs : status'[u] = IF u = t THEN "open" ELSE status[u]
        /\ stack' = [stack EXCEPT ![g] = Append(@, f)]
    BY <1>1 DEF BeginOK, TypeOK
  <1>3. f \in Frames /\ f.owns /\ f.ctx.tx = t
    BY <1>1 DEF Frames, Contexts, TypeOK
  <1> HIDE DEF f
  <1>4. /\ Len(stack'[g]) = Len(stack[g]) + 1 /\ Len(stack[g]) \in Nat
        /\ \A h \in Goroutines \ {g} : stack'[h] = stack[h]
        /\ \A h \in Goroutines : \A i, u :
             OwnerAt(h, i, u)' <=> \/ OwnerAt(h, i, u)
                                   \/ h = g /\ i = Len(stack[g]) + 1 /\ u = t
    <2>1. stack' = [stack EXCEPT ![g] = Append(@, f)]
      BY <1>2
    <2>2. /\ Len(stack'[g]) = Len(stack[g]) + 1 /\ Len(stack[g]) \in Nat
          /\ \A h \in Goroutines \ {g} : stack'[h] = stack[h]
          /\ \A h \in Goroutines : \A i, u :
               OwnerAt(h, i, u)' <=> \/ OwnerAt(h, i, u)
                                     \/ /\ h = g /\ i = Len(stack[g]) + 1
                                        /\ f.owns /\ f.ctx.tx = u
      BY <1>1, <1>3, <2>1, PushFrames
    <2> QED BY <1>3, <2>2
  <1>5. status[t] = "beginning" /\ verdict[t] = "none"
    BY <1>1, <1>2 DEF BeginInv, OutcomeInv
  <1>6. \A h \in Goroutines : \A i : ~OwnerAt(h, i, t)
    BY <1>1, <1>5 DEF FrameFacts
  <1>7. BeginInv'
    BY <1>1, <1>2 DEF BeginInv
  <1>8. FrameFacts'
    <2> SUFFICES ASSUME NEW h \in Goroutines, NEW u \in Txs, NEW i, OwnerAt(h, i, u)'
                 PROVE  /\ status'[u] \in {"open", "rolledback"}
                        /\ \/ verdict'[u] = "none"
                           \/ i = Len(stack'[h]) /\ Closing(h)'
                        /\ i = Len(stack'[h]) /\ pc'[h] = "commit" => verdict'[u] = "nil"
                        /\ \A k \in Goroutines : \A j :
                             OwnerAt(k, j, u)' => h = k /\ i = j
      BY Zenon DEF FrameFacts
    <2>1. CASE u = t
      BY <1>2, <1>4, <1>5, <1>6, <2>1
    <2>2. CASE u # t
      <3>1. OwnerAt(h, i, u) /\ \A k \in Goroutines : \A j :
              OwnerAt(k, j, u)' => h = k /\ i = j
        BY <1>1, <1>4, <2>2 DEF FrameFacts
      <3>2. CASE h = g
        BY <1>1, <1>2, <2>2, <3>1, <3>2 DEF FrameFacts, Closing
      <3>3. CASE h # g
        BY <1>1, <1>2, <1>4, <2>2, <3>1, <3>3 DEF FrameFacts, Closing
      <3> QED BY <3>2, <3>3
    <2> QED BY <2>1, <2>2
  <1>9. Owns(g, t)' /\ \A h \in Goroutines, u \in Txs : Owns(h, u) => Owns(h, u)'
    BY <1>4, OwnsByFrame
  <1>10. OutcomeInv'
    BY <1>1, <1>2, <1>5, <1>9 DEF OutcomeInv
  <1> QED BY <1>7, <1>8, <1>10

\* BeginTx answers an error.
LEMMA BeginFailStep ==
  ASSUME IInv, NEW g \in Goroutines, NEW t \in Txs, BeginFail(g, t)
  PROVE  BeginInv' /\ FrameFacts' /\ OutcomeInv'
PROOF
  <1>1. FrameFacts /\ BeginInv /\ OutcomeInv /\ TypeOK
    BY FrameInvIsFrameFacts DEF IInv
  <1>2. /\ UNCHANGED <<stack, base, origin, pending, store, cancelled, verdict>>
        /\ pc[g] = "begin" /\ call[g] = t
        /\ pc'[g] = "run" /\ \A h \in Goroutines \ {g} : pc'[h] = pc[h]
        /\ \A h \in Goroutines \ {g} : call'[h] = call[h]
        /\ \A u \in Txs : status'[u] = IF u = t THEN "refused" ELSE status[u]
        /\ \A u \in Txs : reply'[u] = IF u = t THEN "err" ELSE reply[u]
    BY <1>1 DEF BeginFail, TypeOK
  <1>3. \A h, i, u : OwnerAt(h, i, u)' <=> OwnerAt(h, i, u)
    BY <1>2, SameFrames
  <1>4. status[t] = "beginning"
    BY <1>1, <1>2 DEF BeginInv
  <1>5. BeginInv'
    BY <1>1, <1>2 DEF BeginInv
  <1>6. FrameFacts'
    <2>1. \A h \in Goroutines : \A j : ~OwnerAt(h, j, t)
      BY <1>1, <1>4 DEF FrameFacts
    <2> QED BY <1>1, <1>2, <1>3, <2>1 DEF FrameFacts, Closing
  <1>7. \A h, u : Owns(h, u)' <=> Owns(h, u)
    BY <1>3, OwnsByFrame
  <1>8. OutcomeInv'
    BY <1>1, <1>2, <1>4, <1>7 DEF OutcomeInv
  <1> QED BY <1>5, <1>6, <1>8

\* The owner leaves, having closed its transaction as far as it could.
LEMMA LeaveStep ==
  ASSUME IInv, NEW g \in Goroutines, NEW t \in Txs, NEW answer, NEW next,
         Leave(g, t, answer, next), Closing(g), next \in {"run", "panicking"},
         \A u \in Txs \ {t} : status'[u] = status[u],
         \A m \in Managers : store[m] \subseteq store'[m],
         status'[t] = "open" => origin[t].scope \in cancelled,
         status'[t] \in {"open", "committed", "rolledback"},
         status'[t] = "committed" => /\ verdict[t] = "nil"
                                     /\ pending[t] \subseteq store'[origin[t].mgr],
         answer = "nil" => status'[t] = "committed",
         answer = "panic" => status'[t] = "rolledback"
  PROVE  BeginInv' /\ FrameFacts' /\ OutcomeInv'
PROOF
  <1>1. FrameFacts /\ BeginInv /\ OutcomeInv /\ TypeOK
    BY FrameInvIsFrameFacts DEF IInv
  <1>2. /\ UNCHANGED <<base, call, origin, pending, cancelled, verdict>>
        /\ OwnerAt(g, Len(stack[g]), t)
        /\ stack' = [stack EXCEPT ![g] = Pop(@)]
        /\ pc'[g] = next /\ \A h \in Goroutines \ {g} : pc'[h] = pc[h]
        /\ \A u \in Txs : reply'[u] = IF u = t THEN answer ELSE reply[u]
    BY <1>1 DEF Leave, TypeOK
  <1>3. stack[g] # << >>
    BY <1>1, <1>2, OwnerHasStack
  <1>4. /\ \A h \in Goroutines \ {g} : stack'[h] = stack[h]
        /\ \A h \in Goroutines : \A i, u :
             OwnerAt(h, i, u)' <=> OwnerAt(h, i, u) /\ ~(h = g /\ i = Len(stack[g]))
    BY <1>1, <1>2, <1>3, PopFrames
  <1>5. \A h \in Goroutines : \A i : ~OwnerAt(h, i, t)'
    BY <1>1, <1>2, <1>4 DEF FrameFacts
  <1>6. BeginInv'
    <2>1. \A h \in Goroutines, u \in Txs : pc[h] = "begin" /\ call[h] = u => u # t
      BY <1>1, <1>2 DEF BeginInv, FrameFacts
    <2> QED BY <1>1, <1>2, <2>1 DEF BeginInv
  <1>7. FrameFacts'
    <2> SUFFICES ASSUME NEW h \in Goroutines, NEW u \in Txs, NEW i, OwnerAt(h, i, u)'
                 PROVE  /\ status'[u] \in {"open", "rolledback"}
                        /\ \/ verdict'[u] = "none"
                           \/ i = Len(stack'[h]) /\ Closing(h)'
                        /\ i = Len(stack'[h]) /\ pc'[h] = "commit" => verdict'[u] = "nil"
                        /\ \A k \in Goroutines : \A j :
                             OwnerAt(k, j, u)' => h = k /\ i = j
      BY Zenon DEF FrameFacts
    <2>1. u # t
      BY <1>5
    <2>2. OwnerAt(h, i, u) /\ \A k \in Goroutines : \A j : OwnerAt(k, j, u)' => h = k /\ i = j
      BY <1>1, <1>4 DEF FrameFacts
    <2>3. CASE h = g
      <3>1. i # Len(stack[g])
        BY <1>4, <2>3
      <3> QED BY <1>1, <1>2, <2>1, <2>2, <2>3, <3>1 DEF FrameFacts
    <2>4. CASE h # g
      BY <1>1, <1>2, <1>4, <2>1, <2>2, <2>4 DEF FrameFacts, Closing
    <2> QED BY <2>3, <2>4
  <1>8. \A h \in Goroutines, u \in Txs \ {t} : Owns(h, u) => Owns(h, u)'
    <2> SUFFICES ASSUME NEW h \in Goroutines, NEW u \in Txs \ {t}, Owns(h, u)
                 PROVE  Owns(h, u)'
      OBVIOUS
    <2>1. PICK i : OwnerAt(h, i, u)
      BY OwnsByFrame
    <2>2. ~(h = g /\ i = Len(stack[g]))
      BY <1>2, <2>1, FrameOwnsOne
    <2> QED BY <1>4, <2>1, <2>2, OwnsByFrame
  <1>9. OutcomeInv'
    <2> SUFFICES ASSUME NEW u \in Txs
                 PROVE  (/\ status[u] # "unused" => origin[u].mgr \in Managers
                         /\ status[u] \in {"unused", "beginning", "refused"} => verdict[u] = "none"
                         /\ status[u] = "committed" =>
                              verdict[u] = "nil" /\ pending[u] \subseteq store[origin[u].mgr]
                         /\ reply[u] = "nil" => status[u] = "committed"
                         /\ reply[u] = "panic" => status[u] = "rolledback"
                         /\ status[u] = "open" => \/ \E h \in Goroutines : Owns(h, u)
                                                  \/ verdict[u] = "goexit"
                                                  \/ origin[u].scope \in cancelled)'
      BY Zenon DEF OutcomeInv
    <2>1. CASE u = t
      <3>1. status[t] # "unused"
        BY <1>1, <1>2 DEF FrameFacts
      <3> QED BY <1>1, <1>2, <2>1, <3>1 DEF OutcomeInv
    <2>2. CASE u # t
      BY <1>1, <1>2, <1>8, <2>2 DEF OutcomeInv
    <2> QED BY <2>1, <2>2
  <1> QED BY <1>6, <1>7, <1>9

\* Commit closes a transaction of a callback that returned nil, whatever becomes
\* of its acknowledgement.
LEMMA CommitStep ==
  ASSUME IInv, NEW g \in Goroutines, NEW t \in Txs, Commit(g, t)
  PROVE  BeginInv' /\ FrameFacts' /\ OutcomeInv'
PROOF
  <1>1. FrameFacts /\ OutcomeInv /\ TypeOK
    BY FrameInvIsFrameFacts DEF IInv
  <1>2. Closing(g) /\ OwnerAt(g, Len(stack[g]), t)
    BY DEF Commit, Leave, Closing
  <1>3. verdict[t] = "nil" /\ status[t] \in {"open", "rolledback"} /\ origin[t].mgr \in Managers
    BY <1>1, <1>2 DEF FrameFacts, OutcomeInv, Commit
  <1>4. CASE Live(t) /\ status' = [status EXCEPT ![t] = "committed"]
    <2>1. PICK answer \in {"nil", "err"} :
            /\ Leave(g, t, answer, "run")
            /\ store' = [store EXCEPT ![origin[t].mgr] = @ \cup pending[t]]
      BY <1>1, <1>4 DEF Commit, TypeOK, Live
    <2>2. /\ \A u \in Txs \ {t} : status'[u] = status[u]
          /\ status'[t] = "committed"
          /\ \A m \in Managers : store[m] \subseteq store'[m]
          /\ pending[t] \subseteq store'[origin[t].mgr]
      BY <1>1, <1>3, <1>4, <2>1 DEF TypeOK
    <2> QED BY <1>2, <1>3, <2>1, <2>2, LeaveStep
  <1>5. CASE Live(t) /\ status' = [status EXCEPT ![t] = "rolledback"]
    <2>1. Leave(g, t, "err", "run") /\ store' = store
      BY <1>1, <1>5 DEF Commit, TypeOK, Live
    <2>2. status'[t] = "rolledback" /\ \A u \in Txs \ {t} : status'[u] = status[u]
      BY <1>1, <1>5 DEF TypeOK
    <2> QED BY <1>2, <2>1, <2>2, LeaveStep
  <1>6. CASE ~Live(t)
    <2>1. Leave(g, t, "err", "run") /\ store' = store /\ status' = status
      BY <1>6 DEF Commit
    <2>2. status[t] = "open" => origin[t].scope \in cancelled
      BY <1>6 DEF Live
    <2> QED BY <1>2, <1>3, <2>1, <2>2, LeaveStep
  <1> QED BY <1>4, <1>5, <1>6 DEF Commit

\* A rollback, after an error or a panic, closes the owner's transaction.
LEMMA RollbackStep ==
  ASSUME IInv, NEW g \in Goroutines, NEW t \in Txs, Rollback(g, t) \/ Repanic(g, t)
  PROVE  BeginInv' /\ FrameFacts' /\ OutcomeInv'
PROOF
  <1>1. FrameFacts /\ TypeOK
    BY FrameInvIsFrameFacts DEF IInv
  <1>2. Closing(g) /\ OwnerAt(g, Len(stack[g]), t)
    BY DEF Rollback, Repanic, Leave, Closing
  <1>3. status[t] \in {"open", "rolledback"}
    BY <1>1, <1>2 DEF FrameFacts
  <1>4. /\ status'[t] = "rolledback" /\ \A u \in Txs \ {t} : status'[u] = status[u]
        /\ store' = store
    BY <1>1, <1>3 DEF Rollback, Repanic, CloseWithoutCommit, TypeOK
  <1>5. CASE Rollback(g, t)
    <2>1. Leave(g, t, "err", "run")
      BY <1>5 DEF Rollback
    <2> QED BY <1>2, <1>4, <2>1, LeaveStep
  <1>6. CASE Repanic(g, t)
    <2>1. Leave(g, t, "panic", "panicking")
      BY <1>6 DEF Repanic
    <2> QED BY <1>2, <1>4, <2>1, LeaveStep
  <1> QED BY <1>5, <1>6

\* database/sql rolls back a cancelled transaction under its owner.
LEMMA AutoRollbackStep ==
  ASSUME IInv, NEW t \in Txs, AutoRollback(t)
  PROVE  BeginInv' /\ FrameFacts' /\ OutcomeInv'
PROOF
  <1> USE DEF history
  <1>1. FrameFacts /\ BeginInv /\ OutcomeInv /\ TypeOK
    BY FrameInvIsFrameFacts DEF IInv
  <1>2. /\ UNCHANGED <<stack, base, pc, call, origin, pending, store, cancelled,
                       verdict, reply>>
        /\ status[t] = "open"
        /\ \A u \in Txs : status'[u] = IF u = t THEN "rolledback" ELSE status[u]
    BY <1>1 DEF AutoRollback, TypeOK
  <1>3. \A h, i, u : OwnerAt(h, i, u)' <=> OwnerAt(h, i, u)
    BY <1>2, SameFrames
  <1>4. BeginInv'
    BY <1>1, <1>2 DEF BeginInv
  <1>5. FrameFacts'
    BY <1>1, <1>2, <1>3 DEF FrameFacts, Closing
  <1>6. \A h, u : Owns(h, u)' <=> Owns(h, u)
    BY <1>3, OwnsByFrame
  <1>7. OutcomeInv'
    BY <1>1, <1>2, <1>6 DEF OutcomeInv
  <1> QED BY <1>4, <1>5, <1>7

-----------------------------------------------------------------------------
(* The theorems. *)

\* No transaction exists at the start.
LEMMA InitInvariant == Init => IInv
PROOF
  <1> SUFFICES ASSUME Init PROVE IInv
    OBVIOUS
  <1>1. \A g \in Goroutines : Len(stack[g]) = 0
    BY EmptySeq DEF Init
  <1>2. FrameInv
    BY <1>1 DEF FrameInv
  <1>3. BeginInv /\ OutcomeInv
    BY DEF Init, BeginInv, OutcomeInv, Goroutines
  <1> QED BY <1>2, <1>3, InitTyping DEF IInv

\* Every action keeps the inductive invariant.
LEMMA StepInvariant == IInv /\ [Next]_vars => IInv'
PROOF
  <1> SUFFICES ASSUME IInv, [Next]_vars PROVE IInv'
    OBVIOUS
  <1> DEFINE Goal == BeginInv' /\ FrameFacts' /\ OutcomeInv'
  <1> USE DEF txVars, history
  <1>1. TypeOK /\ TypeOK'
    BY StepTyping DEF IInv
  <1>2. ASSUME NEW g \in Goroutines, CallbackEnds(g) PROVE Goal
    BY <1>2, NestedStep, OwnerEndsStep DEF CallbackEnds
  <1>3. ASSUME NEW g \in Goroutines, Panic(g) \/ Recover(g) PROVE Goal
    BY <1>1, <1>3, QuietStep DEF Panic, Recover, Closing, TypeOK
  <1>4. ASSUME NEW g \in Goroutines, Goexit(g) PROVE Goal
    BY <1>4, GoexitStep
  <1>5. ASSUME NEW g \in Goroutines, NEW c \in Passable(g), CallNested(g, c) PROVE Goal
    BY <1>5, NestedStep
  <1>6. ASSUME NEW g \in Goroutines, NEW c \in Passable(g), NEW m \in Managers,
               NEW t \in Txs, CallBegin(g, m, c, t)
        PROVE  Goal
    BY <1>6, CallBeginStep
  <1>7. ASSUME NEW g \in Goroutines, NEW c \in Passable(g), NEW m \in Managers,
               NEW s \in Stmts, ExecOnPool(g, m, c, s)
        PROVE  Goal
    BY <1>1, <1>7, QuietStep DEF ExecOnPool, Closing, TypeOK
  <1>8. ASSUME NEW g \in Goroutines, NEW c \in Passable(g), NEW m \in Managers,
               NEW s \in Stmts, NEW t \in Txs, ExecOnTx(g, m, c, s, t)
        PROVE  Goal
    <2>1. \A u \in Txs : status[u] = "open" \/ pending'[u] = pending[u]
      <3>1. \/ status[t] = "open" /\ pending' = [pending EXCEPT ![t] = @ \cup {s}]
            \/ pending' = pending
        BY <1>8 DEF ExecOnTx
      <3> QED BY <1>1, <3>1 DEF TypeOK
    <2>2. UNCHANGED <<stack, base, pc, call, status, origin, store, cancelled, verdict, reply>>
      BY <1>8 DEF ExecOnTx
    <2> QED BY <2>1, <2>2, QuietStep DEF Closing
  <1>9. ASSUME NEW g \in Goroutines, NEW c \in Passable(g), NEW w \in Workers, Spawn(g, w, c)
        PROVE  Goal
    <2>1. w \in Goroutines
      BY DEF Goroutines
    <2> QED BY <1>1, <1>9, <2>1, QuietStep DEF Spawn, Closing, TypeOK
  <1>10. ASSUME NEW g \in Goroutines, NEW t \in Txs, BeginOK(g, t) \/ BeginFail(g, t)
         PROVE  Goal
    BY <1>10, BeginOKStep, BeginFailStep
  <1>11. ASSUME NEW g \in Goroutines, NEW t \in Txs,
                Commit(g, t) \/ Rollback(g, t) \/ Repanic(g, t)
         PROVE  Goal
    BY <1>11, CommitStep, RollbackStep
  <1>12. ASSUME NEW g \in Goroutines, NEW s \in Stmts, PoolAnswers(g, s) PROVE Goal
    <2>1. \A m \in Managers : store[m] \subseteq store'[m]
      <3>1. store' = [store EXCEPT ![stmt[s].mgr] = @ \cup {s}] \/ store' = store
        BY <1>12 DEF PoolAnswers
      <3>2. store \in [Managers -> SUBSET Stmts]
        BY <1>1 DEF TypeOK
      <3> QED BY <3>1, <3>2
    <2>2. /\ UNCHANGED <<stack, base, status, origin, pending, cancelled, verdict, reply>>
          /\ pc[g] = "exec" /\ pc' = [pc EXCEPT ![g] = "run"]
          /\ call' = [call EXCEPT ![g] = NoCall]
      BY <1>12 DEF PoolAnswers
    <2> QED BY <1>1, <2>1, <2>2, QuietStep DEF Closing, TypeOK
  <1>13. ASSUME NEW r \in Roots, Cancel(r) PROVE Goal
    BY <1>13, QuietStep DEF Cancel, Closing
  <1>14. ASSUME NEW t \in Txs, AutoRollback(t) PROVE Goal
    BY <1>14, AutoRollbackStep
  <1>15. ASSUME UNCHANGED vars PROVE Goal
    <2>1. UNCHANGED <<stack, pc, call, status, origin, pending, store, cancelled,
                      verdict, reply>>
      BY <1>15 DEF vars
    <2> QED BY <2>1, QuietStep DEF Closing
  <1> HIDE DEF Goal
  <1>16. Goal
    <2>1. ASSUME NEW g \in Goroutines, UserSteps(g) PROVE Goal
      BY <2>1, <1>3, <1>4, <1>5, <1>6, <1>7, <1>8, <1>9 DEF UserSteps
    <2>2. ASSUME NEW g \in Goroutines, LibrarySteps(g) PROVE Goal
      BY <2>2, <1>10, <1>11, <1>12 DEF LibrarySteps
    <2> QED BY <2>1, <2>2, <1>2, <1>13, <1>14, <1>15 DEF Next
  <1> QED BY <1>1, <1>16, FrameInvIsFrameFacts DEF IInv, Goal

\* The invariant the other theorems follow from.
THEOREM Invariance == Spec => []IInv
PROOF
  BY InitInvariant, StepInvariant, PTL DEF Spec

\* Whatever contexts callers hand on, and however callbacks end, only a callback
\* that returned nil is ever committed.
THEOREM CommitNeedsSuccess == Spec => []FailedCallbackNeverCommits
PROOF
  <1>1. IInv => FailedCallbackNeverCommits
    BY DEF IInv, OutcomeInv, FailedCallbackNeverCommits
  <1> QED BY <1>1, Invariance, PTL

\* The answer of StartTransaction can be trusted.
THEOREM RepliesAreTrue == Spec => []ReplyTellsTheOutcome
PROOF
  <1>1. IInv => ReplyTellsTheOutcome
    BY DEF IInv, OutcomeInv, ReplyTellsTheOutcome
  <1> QED BY <1>1, Invariance, PTL

\* No transaction is left open without an owner, but for the two exceptions.
THEOREM NoOrphans == Spec => []OpenTxIsOwned
PROOF
  <1>1. IInv => OpenTxIsOwned
    BY DEF IInv, OutcomeInv, FrameInv, OpenTxIsOwned
  <1> QED BY <1>1, Invariance, PTL

-----------------------------------------------------------------------------
(* When user code hands on the context it was given and no other, as the   *)
(* README tells it to.                                                     *)

\* User code hands on the context its callback was given.
HandsOnItsOwn == Passes = {"own"}

-----------------------------------------------------------------------------
(* The inductive invariants. *)

\* All callbacks on a stack have contexts with the same transaction, which the
\* outermost may own; a call that waits for BeginTx is the outermost.
StackInv ==
  \A g \in Goroutines :
    /\ pc[g] = "begin" => stack[g] = << >>
    /\ \A i \in 1..Len(stack[g]) :
         /\ stack[g][i].ctx.tx # NoTx
         /\ stack[g][i].ctx.tx = stack[g][1].ctx.tx
         /\ stack[g][i].owns => i = 1

\* A statement issued inside a transaction is pending there, and nowhere else,
\* when it succeeded; it reaches a database only by that transaction's commit.
StmtAgrees(s) ==
  /\ stmt[s].phase = "new" => stmt[s].within = NoTx /\ ~Effective(s)
  /\ \A t \in Txs : s \in pending[t] <=> stmt[s].within = t /\ stmt[s].phase = "acked"
  /\ Effective(s) /\ stmt[s].within # NoTx =>
       stmt[s].phase = "acked" /\ status[stmt[s].within] = "committed"

\* A goroutine that waits for the pool sent its statement outside transactions.
PoolCalls ==
  \A g \in Goroutines : pc[g] = "exec" =>
    /\ call[g] \in Stmts
    /\ stmt[call[g]].phase # "new" /\ stmt[call[g]].within = NoTx

StmtInv == PoolCalls /\ \A s \in Stmts : StmtAgrees(s)

-----------------------------------------------------------------------------
(* Stacks. *)

\* Only the context of the callback on top can be handed on.
LEMMA OnlyItsOwn ==
  ASSUME HandsOnItsOwn, NEW g, NEW c \in Passable(g)
  PROVE  c = Current(g)
PROOF
  BY DEF HandsOnItsOwn, Passable

\* A call that begins comes from outside all callbacks, a nested one carries
\* the transaction of the callbacks around it.
LEMMA CurrentCarries ==
  ASSUME TypeOK, StackInv, NEW g \in Goroutines, stack[g] # << >>
  PROVE  /\ 1 \in 1..Len(stack[g])
         /\ Current(g).tx = stack[g][1].ctx.tx /\ Carries(Current(g))
PROOF
  <1>1. Len(stack[g]) \in Nat \ {0}
    BY EmptySeq DEF TypeOK
  <1>2. 1 \in 1..Len(stack[g]) /\ Len(stack[g]) \in 1..Len(stack[g])
    BY <1>1
  <1> QED BY <1>2 DEF StackInv, Current, Top, Carries

\* A step that moves no frame and asks for no transaction.
LEMMA QuietStack ==
  ASSUME StackInv, stack' = stack,
         \A g \in Goroutines : pc'[g] = "begin" => pc[g] = "begin"
  PROVE  StackInv'
PROOF
  BY DEF StackInv

\* A callback that ends takes its frame away.
LEMMA PopStack ==
  ASSUME TypeOK, StackInv, NEW g \in Goroutines, stack[g] # << >>,
         stack' = [stack EXCEPT ![g] = Pop(@)],
         \A h \in Goroutines : pc'[h] = "begin" => pc[h] = "begin"
  PROVE  StackInv'
PROOF
  <1>1. /\ stack'[g] = Pop(stack[g])
        /\ \A h \in Goroutines \ {g} : stack'[h] = stack[h]
    BY DEF TypeOK
  <1>2. /\ Len(stack[g]) \in Nat \ {0}
        /\ Len(stack'[g]) = Len(stack[g]) - 1
        /\ \A i \in 1..Len(stack[g]) - 1 : stack'[g][i] = stack[g][i]
    <2>1. stack[g] \in Seq(Frames)
      BY DEF TypeOK
    <2> QED BY <1>1, <2>1, PopProperties
  <1>3. pc'[g] # "begin"
    BY DEF StackInv
  <1>4. ASSUME NEW i \in 1..Len(stack'[g])
        PROVE  /\ i \in 1..Len(stack[g]) /\ stack'[g][i] = stack[g][i]
               /\ stack'[g][1] = stack[g][1]
    BY <1>2
  <1> QED BY <1>1, <1>3, <1>4 DEF StackInv

\* A call pushes a frame that carries the transaction of the outermost one.
LEMMA PushStack ==
  ASSUME TypeOK, StackInv, NEW g \in Goroutines, NEW f \in Frames,
         stack' = [stack EXCEPT ![g] = Append(@, f)],
         pc'[g] # "begin",
         \A h \in Goroutines \ {g} : pc'[h] = pc[h],
         f.ctx.tx # NoTx,
         stack[g] # << >> => f.ctx.tx = stack[g][1].ctx.tx /\ ~f.owns
  PROVE  StackInv'
PROOF
  <1>1. /\ stack'[g] = Append(stack[g], f)
        /\ \A h \in Goroutines \ {g} : stack'[h] = stack[h]
    BY DEF TypeOK
  <1>2. /\ Len(stack[g]) \in Nat
        /\ Len(stack'[g]) = Len(stack[g]) + 1
        /\ \A i \in 1..Len(stack[g]) : stack'[g][i] = stack[g][i]
        /\ stack'[g][Len(stack[g]) + 1] = f
    BY <1>1, AppendProperties, LenProperties DEF TypeOK
  <1>3. ASSUME NEW i \in 1..Len(stack'[g])
        PROVE  /\ stack'[g][i].ctx.tx # NoTx
               /\ stack'[g][i].ctx.tx = stack'[g][1].ctx.tx
               /\ stack'[g][i].owns => i = 1
    <2>1. CASE stack[g] = << >>
      <3>1. Len(stack[g]) = 0
        BY <2>1, EmptySeq
      <3>2. i = 1 /\ stack'[g][1] = f
        BY <1>2, <3>1
      <3> QED BY <3>2
    <2>2. CASE stack[g] # << >>
      <3>1. 1 \in 1..Len(stack[g]) /\ stack'[g][1] = stack[g][1]
        BY <1>2, <2>2, CurrentCarries
      <3>2. CASE i \in 1..Len(stack[g])
        BY <1>2, <3>1, <3>2 DEF StackInv
      <3>3. CASE i \notin 1..Len(stack[g])
        <4>1. i = Len(stack[g]) + 1
          BY <1>2, <3>3
        <4> QED BY <1>2, <2>2, <3>1, <4>1
      <3> QED BY <3>2, <3>3
    <2> QED BY <2>1, <2>2
  <1> QED BY <1>1, <1>3 DEF StackInv

\* Every step keeps StackInv.
LEMMA StepStack ==
  ASSUME HandsOnItsOwn, TypeOK, StackInv, [Next]_vars
  PROVE  StackInv'
PROOF
  <1> USE DEF txVars, history
  <1>1. ASSUME NEW g \in Goroutines, NestedEnds(g) PROVE StackInv'
    BY <1>1, PopStack DEF NestedEnds
  <1>2. ASSUME NEW g \in Goroutines, NEW t \in Txs, NEW o \in Outcomes, OwnerEnds(g, t, o)
        PROVE  StackInv'
    BY <1>2, QuietStack, ChoicesAssumption DEF OwnerEnds, NextPC, CallbackOutcomes, TypeOK
  <1>3. ASSUME NEW g \in Goroutines, Panic(g) \/ Recover(g) PROVE StackInv'
    BY <1>3, QuietStack DEF Panic, Recover, TypeOK
  <1>4. ASSUME NEW g \in Goroutines, Goexit(g) PROVE StackInv'
    <2>1. /\ stack'[g] = << >> /\ pc'[g] = "exited"
          /\ \A h \in Goroutines \ {g} : stack'[h] = stack[h] /\ pc'[h] = pc[h]
      BY <1>4 DEF Goexit, TypeOK
    <2>2. Len(<< >>) = 0
      BY EmptySeq
    <2>3. 1..Len(stack'[g]) = {}
      BY <2>1, <2>2
    <2> QED BY <2>1, <2>3 DEF StackInv
  <1>5. ASSUME NEW g \in Goroutines, NEW c \in Passable(g), CallNested(g, c) PROVE StackInv'
    <2> DEFINE f == [ctx |-> c, owns |-> FALSE]
    <2>1. f \in Frames
      BY <1>5, PassableIsContext DEF Frames
    <2>2. c = Current(g) /\ c.tx # NoTx
      BY <1>5, OnlyItsOwn DEF CallNested, Carries
    <2>3. stack[g] # << >> => c.tx = stack[g][1].ctx.tx
      BY <2>2, CurrentCarries
    <2>4. /\ stack' = [stack EXCEPT ![g] = Append(@, f)]
          /\ pc'[g] # "begin" /\ pc' = pc
      BY <1>5 DEF CallNested
    <2>5. f.ctx.tx = c.tx /\ ~f.owns
      OBVIOUS
    <2> HIDE DEF f
    <2> QED BY <2>1, <2>2, <2>3, <2>4, <2>5, PushStack
  <1>6. ASSUME NEW g \in Goroutines, NEW c \in Passable(g), NEW m \in Managers, NEW t \in Txs,
               CallBegin(g, m, c, t)
        PROVE  StackInv'
    <2>1. c = Current(g) /\ ~Carries(c)
      BY <1>6, OnlyItsOwn DEF CallBegin
    <2>2. stack[g] = << >>
      BY <2>1, CurrentCarries
    <2>3. stack' = stack /\ \A h \in Goroutines \ {g} : pc'[h] = pc[h]
      BY <1>6 DEF CallBegin, TypeOK
    <2> QED BY <2>2, <2>3 DEF StackInv
  <1>7. ASSUME NEW g \in Goroutines, NEW c \in Passable(g), NEW m \in Managers, NEW s \in Stmts,
               ExecOnPool(g, m, c, s)
        PROVE  StackInv'
    BY <1>7, QuietStack DEF ExecOnPool, TypeOK
  <1>8. ASSUME NEW g \in Goroutines, NEW c \in Passable(g), NEW m \in Managers, NEW s \in Stmts,
               NEW t \in Txs, ExecOnTx(g, m, c, s, t)
        PROVE  StackInv'
    BY <1>8, QuietStack DEF ExecOnTx
  <1>9. ASSUME NEW g \in Goroutines, NEW c \in Passable(g), NEW w \in Workers, Spawn(g, w, c)
        PROVE  StackInv'
    BY <1>9, QuietStack DEF Spawn, TypeOK
  <1>10. ASSUME NEW g \in Goroutines, NEW t \in Txs, BeginOK(g, t) PROVE StackInv'
    <2> DEFINE f == [ctx |-> [tx |-> t, scope |-> origin[t].scope], owns |-> TRUE]
    <2>1. f \in Frames
      BY DEF TypeOK, Frames, Contexts
    <2>2. stack[g] = << >>
      BY <1>10 DEF BeginOK, StackInv
    <2>3. /\ stack' = [stack EXCEPT ![g] = Append(@, f)]
          /\ pc'[g] = "run" /\ \A h \in Goroutines \ {g} : pc'[h] = pc[h]
      BY <1>10 DEF BeginOK, TypeOK
    <2>4. f.ctx.tx # NoTx
      BY TxsAssumption
    <2> HIDE DEF f
    <2> QED BY <2>1, <2>2, <2>3, <2>4, PushStack
  <1>11. ASSUME NEW g \in Goroutines, NEW t \in Txs, BeginFail(g, t) PROVE StackInv'
    BY <1>11, QuietStack DEF BeginFail, TypeOK
  <1>12. ASSUME NEW g \in Goroutines, NEW t \in Txs,
                Commit(g, t) \/ Rollback(g, t) \/ Repanic(g, t)
         PROVE  StackInv'
    <2>1. PICK answer, next : Leave(g, t, answer, next) /\ next \in {"run", "panicking"}
      BY <1>12 DEF Commit, Rollback, Repanic
    <2>2. stack[g] # << >>
      BY <2>1, OwnerHasStack DEF Leave
    <2> QED BY <2>1, <2>2, PopStack DEF Leave, TypeOK
  <1>13. ASSUME NEW g \in Goroutines, NEW s \in Stmts, PoolAnswers(g, s) PROVE StackInv'
    BY <1>13, QuietStack DEF PoolAnswers, TypeOK
  <1>14. ASSUME NEW r \in Roots, Cancel(r) PROVE StackInv'
    BY <1>14, QuietStack DEF Cancel
  <1>15. ASSUME NEW t \in Txs, AutoRollback(t) PROVE StackInv'
    BY <1>15, QuietStack DEF AutoRollback
  <1>16. CASE UNCHANGED vars
    BY <1>16, QuietStack DEF vars
  <1> QED
    BY <1>1, <1>2, <1>3, <1>4, <1>5, <1>6, <1>7, <1>8, <1>9, <1>10, <1>11, <1>12, <1>13,
       <1>14, <1>15, <1>16
    DEF Next, CallbackEnds, UserSteps, LibrarySteps

\* Nothing runs at the start.
LEMMA InitStack == Init => StackInv
PROOF
  <1> SUFFICES ASSUME Init PROVE StackInv
    OBVIOUS
  <1>1. \A g \in Goroutines : stack[g] = << >>
    BY DEF Init
  <1>2. \A g \in Goroutines : 1..Len(stack[g]) = {}
    BY <1>1, EmptySeq
  <1> QED BY <1>1, <1>2 DEF StackInv

\* Where contexts are handed on as given, a goroutine has one transaction,
\* however deep its calls nest (connection_manager.go:40-43).
THEOREM Reentrancy ==
  ASSUME HandsOnItsOwn PROVE Spec => []OneTransactionPerStack
PROOF
  <1>1. TypeOK /\ StackInv /\ [Next]_vars => TypeOK' /\ StackInv'
    BY StepStack, StepTyping
  <1>2. StackInv => OneTransactionPerStack
    BY DEF StackInv, OneTransactionPerStack
  <1> QED BY <1>1, <1>2, InitStack, InitTyping, PTL DEF Spec

-----------------------------------------------------------------------------
(* Statements. *)

\* What DB answers tells what the statement's caller ran in.
LEMMA TargetIsWithin ==
  ASSUME HandsOnItsOwn, TypeOK, NEW g \in Goroutines, NEW c \in Passable(g),
         NEW m \in Managers, NEW s, NEW ph
  PROVE  /\ Issued(g, m, c, s, ph).phase = ph
         /\ DB(m, c) = m => Issued(g, m, c, s, ph).within = NoTx
         /\ \A t \in Txs : DB(m, c) = t => Issued(g, m, c, s, ph).within = t
PROOF
  <1>1. c = Current(g) /\ c.tx \in Txs \cup {NoTx}
    BY OnlyItsOwn, PassableIsContext DEF Contexts
  <1>2. m \notin Txs
    BY ManagersAssumption
  <1> QED BY <1>1, <1>2 DEF Issued, DB, Carries

\* A step that sends and ends no statement and takes no commit back.
LEMMA QuietStmt ==
  ASSUME StmtInv, UNCHANGED <<stmt, pending, store>>,
         \A t \in Txs : status[t] = "committed" => status'[t] = "committed",
         \A g \in Goroutines : pc'[g] = "exec" => pc[g] = "exec" /\ call'[g] = call[g],
         \A s \in Stmts : stmt[s].within \in Txs \cup {NoTx}
  PROVE  StmtInv'
PROOF
  BY DEF StmtInv, StmtAgrees, PoolCalls, Effective

\* A statement is issued, on a transaction or on the pool.
LEMMA IssueStmt ==
  ASSUME TypeOK, StmtInv, NEW s \in Stmts, stmt[s].phase = "new",
         NEW t \in Txs \cup {NoTx}, NEW ph \in {"waiting", "acked", "failed"},
         stmt'[s].phase = ph, stmt'[s].within = t,
         \A u \in Stmts \ {s} : stmt'[u] = stmt[u],
         \A v \in Txs, u \in Stmts :
           u \in pending'[v] <=> u \in pending[v] \/ (u = s /\ v = t /\ ph = "acked"),
         UNCHANGED <<store, status>>
  PROVE  \A u \in Stmts : StmtAgrees(u)'
PROOF
  <1>1. \A u : Effective(u)' <=> Effective(u)
    BY DEF Effective
  <1>2. \A v \in Txs : s \notin pending[v]
    BY TxsAssumption DEF StmtInv, StmtAgrees
  <1>3. ~Effective(s)
    BY DEF StmtInv, StmtAgrees
  <1>4. ASSUME NEW u \in Stmts, u # s
        PROVE  StmtAgrees(u)'
    <2>1. stmt'[u] = stmt[u] /\ StmtAgrees(u)
      BY <1>4 DEF StmtInv
    <2>2. \A v \in Txs : u \in pending'[v] <=> u \in pending[v]
      BY <1>4
    <2> QED BY <1>1, <2>1, <2>2 DEF StmtAgrees
  <1>5. /\ stmt'[s].phase # "new" /\ ~Effective(s)'
        /\ \A v \in Txs : s \in pending'[v] <=> stmt'[s].within = v /\ stmt'[s].phase = "acked"
    BY <1>1, <1>2, <1>3
  <1>6. StmtAgrees(s)'
    BY <1>5 DEF StmtAgrees
  <1> QED BY <1>4, <1>6

\* A commit makes durable what succeeded in the transaction and nothing else.
LEMMA CommitStmt ==
  ASSUME IInv, StmtInv, NEW g \in Goroutines, NEW t \in Txs, Commit(g, t)
  PROVE  StmtInv'
PROOF
  <1>1. TypeOK /\ OwnerAt(g, Len(stack[g]), t)
    BY DEF IInv, Commit, Leave
  <1>2. /\ UNCHANGED <<call, pending, stmt>>
        /\ pc'[g] = "run" /\ \A h \in Goroutines \ {g} : pc'[h] = pc[h]
    BY <1>1 DEF Commit, Leave, TypeOK
  <1>3. \A s \in Stmts : stmt[s].within \in Txs \cup {NoTx}
    BY <1>1 DEF TypeOK, StmtRecords
  <1>4. CASE /\ status' = [status EXCEPT ![t] = "committed"]
             /\ store' = [store EXCEPT ![origin[t].mgr] = @ \cup pending[t]]
    <2>1. \A s : Effective(s)' => Effective(s) \/ s \in pending[t]
      BY <1>1, <1>4 DEF Effective, TypeOK
    <2>2. /\ \A u \in Txs : status[u] = "committed" => status'[u] = "committed"
          /\ status'[t] = "committed"
      BY <1>1, <1>4 DEF TypeOK
    <2>3. ASSUME NEW s \in Stmts
          PROVE  /\ stmt[s].phase = "new" => stmt[s].within = NoTx /\ ~Effective(s)'
                 /\ Effective(s)' /\ stmt[s].within # NoTx =>
                      stmt[s].phase = "acked" /\ status'[stmt[s].within] = "committed"
      <3>1. CASE s \in pending[t]
        BY <2>2, <3>1 DEF StmtInv, StmtAgrees, PoolCalls
      <3>2. CASE s \notin pending[t]
        BY <1>3, <2>1, <2>2, <3>2 DEF StmtInv, StmtAgrees, PoolCalls
      <3> QED BY <3>1, <3>2
    <2>4. \A h \in Goroutines : pc'[h] = "exec" => pc[h] = "exec"
      BY <1>2
    <2> QED BY <1>2, <2>3, <2>4 DEF StmtInv, StmtAgrees, PoolCalls
  <1>5. CASE store' = store /\ \A u \in Txs : status[u] = "committed" => status'[u] = "committed"
    BY <1>2, <1>3, <1>5, QuietStmt
  <1>6. \/ Live(t) /\ store' = store /\ status' = [status EXCEPT ![t] = "rolledback"]
        \/ store' = store /\ status' = status
        \/ /\ status' = [status EXCEPT ![t] = "committed"]
           /\ store' = [store EXCEPT ![origin[t].mgr] = @ \cup pending[t]]
    BY DEF Commit
  <1>7. CASE Live(t) /\ store' = store /\ status' = [status EXCEPT ![t] = "rolledback"]
    BY <1>1, <1>5, <1>7 DEF Live, TypeOK
  <1> QED BY <1>4, <1>5, <1>6, <1>7

\* The pool answers a statement that is in no transaction.
LEMMA PoolStmt ==
  ASSUME TypeOK, StmtInv, NEW g \in Goroutines, NEW s \in Stmts, PoolAnswers(g, s)
  PROVE  StmtInv'
PROOF
  <1>1. /\ UNCHANGED <<status, pending>>
        /\ pc'[g] = "run" /\ \A h \in Goroutines \ {g} : pc'[h] = pc[h] /\ call'[h] = call[h]
        /\ pc[g] = "exec" /\ call[g] = s
    BY DEF PoolAnswers, TypeOK
  <1>2. stmt[s].phase # "new" /\ stmt[s].within = NoTx
    BY <1>1 DEF StmtInv, StmtAgrees, PoolCalls
  <1>3. /\ \A u \in Stmts \ {s} : stmt'[u] = stmt[u]
        /\ stmt'[s].within = NoTx /\ stmt'[s].phase # "new"
    <2>1. PICK ph \in {"acked", "failed"} : stmt' = [stmt EXCEPT ![s].phase = ph]
      BY DEF PoolAnswers
    <2>2. stmt[s] \in StmtRecords
      BY DEF TypeOK
    <2> QED BY <1>2, <2>1, <2>2 DEF TypeOK, StmtRecords
  <1>4. \A u \in Stmts \ {s} : Effective(u)' => Effective(u)
    <2>1. store' = [store EXCEPT ![stmt[s].mgr] = @ \cup {s}] \/ store' = store
      BY DEF PoolAnswers
    <2>2. store \in [Managers -> SUBSET Stmts]
      BY DEF TypeOK
    <2>3. ASSUME NEW u \in Stmts \ {s}, NEW m \in Managers, u \in store'[m] PROVE u \in store[m]
      <3>1. CASE store' = store
        BY <2>3, <3>1
      <3>2. CASE store' = [store EXCEPT ![stmt[s].mgr] = @ \cup {s}]
        <4>1. store'[m] = store[m] \/ store'[m] = store[m] \cup {s}
          BY <2>2, <3>2
        <4> QED BY <2>3, <4>1
      <3> QED BY <2>1, <3>1, <3>2
    <2> QED BY <2>3 DEF Effective
  <1>5. \A v \in Txs : s \notin pending[v]
    BY <1>2, TxsAssumption DEF StmtInv, StmtAgrees, PoolCalls
  <1>6. ASSUME NEW u \in Stmts
        PROVE  StmtAgrees(u)'
    <2>1. CASE u = s
      BY <1>1, <1>3, <1>5, <2>1, TxsAssumption DEF StmtAgrees
    <2>2. CASE u # s
      BY <1>1, <1>3, <1>4, <2>2 DEF StmtInv, StmtAgrees
    <2> QED BY <2>1, <2>2
  <1>7. ASSUME NEW h \in Goroutines, pc'[h] = "exec"
        PROVE  /\ call'[h] \in Stmts
               /\ stmt'[call'[h]].phase # "new" /\ stmt'[call'[h]].within = NoTx
    BY <1>1, <1>3, <1>7 DEF StmtInv, StmtAgrees, PoolCalls
  <1> QED BY <1>6, <1>7 DEF StmtInv, StmtAgrees, PoolCalls

\* Every step keeps StmtInv.
LEMMA StepStmt ==
  ASSUME HandsOnItsOwn, IInv, StmtInv, [Next]_vars
  PROVE  StmtInv'
PROOF
  <1> USE DEF txVars, history
  <1>0. /\ TypeOK /\ BeginInv
        /\ \A s \in Stmts : stmt[s].within \in Txs \cup {NoTx}
    BY DEF IInv, TypeOK, StmtRecords
  <1>1. ASSUME NEW g \in Goroutines, CallbackEnds(g) PROVE StmtInv'
    <2>1. /\ UNCHANGED <<stmt, pending, store, status, call>>
          /\ \A h \in Goroutines : pc'[h] = "exec" => pc[h] = "exec"
      BY <1>0, <1>1, ChoicesAssumption
      DEF CallbackEnds, NestedEnds, OwnerEnds, NextPC, CallbackOutcomes, TypeOK
    <2> QED BY <1>0, <2>1, QuietStmt
  <1>2. ASSUME NEW g \in Goroutines, Panic(g) \/ Recover(g) \/ Goexit(g) PROVE StmtInv'
    BY <1>0, <1>2, QuietStmt DEF Panic, Recover, Goexit, TypeOK
  <1>3. ASSUME NEW g \in Goroutines, NEW c \in Passable(g),
               \/ CallNested(g, c)
               \/ \E m \in Managers, t \in Txs : CallBegin(g, m, c, t)
               \/ \E w \in Workers : Spawn(g, w, c)
        PROVE  StmtInv'
    <2>1. /\ UNCHANGED <<stmt, pending, store>>
          /\ \A t \in Txs : status[t] = "committed" => status'[t] = "committed"
          /\ \A h \in Goroutines : pc'[h] = "exec" => pc[h] = "exec" /\ call'[h] = call[h]
      BY <1>0, <1>3 DEF CallNested, CallBegin, Spawn, TypeOK
    <2> QED BY <1>0, <2>1, QuietStmt
  <1>4. ASSUME NEW g \in Goroutines, NEW c \in Passable(g), NEW m \in Managers, NEW s \in Stmts,
               ExecOnPool(g, m, c, s)
        PROVE  StmtInv'
    <2> DEFINE r == Issued(g, m, c, s, "waiting")
    <2>1. /\ UNCHANGED <<store, status, pending>> /\ stmt[s].phase = "new"
          /\ stmt'[s] = r /\ \A u \in Stmts \ {s} : stmt'[u] = stmt[u]
          /\ call'[g] = s
          /\ \A h \in Goroutines \ {g} : pc'[h] = pc[h] /\ call'[h] = call[h]
      BY <1>0, <1>4 DEF ExecOnPool, TypeOK
    <2>2. r.within = NoTx /\ r.phase = "waiting"
      BY <1>0, <1>4, TargetIsWithin DEF ExecOnPool
    <2>3. stmt'[s].within = NoTx /\ stmt'[s].phase = "waiting"
      BY <2>1, <2>2
    <2>4. \A v \in Txs, u \in Stmts :
            u \in pending'[v] <=> u \in pending[v] \/ (u = s /\ v = NoTx /\ "waiting" = "acked")
      BY <2>1, TxsAssumption
    <2> HIDE DEF r
    <2>5. PoolCalls'
      BY <2>1, <2>3 DEF StmtInv, StmtAgrees, PoolCalls
    <2>6. \A u \in Stmts : StmtAgrees(u)'
      BY <1>0, <2>1, <2>3, <2>4, IssueStmt
    <2> QED BY <2>5, <2>6 DEF StmtInv
  <1>5. ASSUME NEW g \in Goroutines, NEW c \in Passable(g), NEW m \in Managers, NEW s \in Stmts,
               NEW t \in Txs, ExecOnTx(g, m, c, s, t)
        PROVE  StmtInv'
    <2>1. /\ UNCHANGED <<store, status, pc, call>> /\ stmt[s].phase = "new" /\ DB(m, c) = t
      BY <1>5 DEF ExecOnTx
    <2>2. PICK ph \in {"acked", "failed"} :
            /\ stmt' = [stmt EXCEPT ![s] = Issued(g, m, c, s, ph)]
            /\ IF ph = "acked" THEN pending' = [pending EXCEPT ![t] = @ \cup {s}]
               ELSE pending' = pending
      BY <1>5 DEF ExecOnTx
    <2>3. /\ stmt'[s].phase = ph /\ stmt'[s].within = t
          /\ \A u \in Stmts \ {s} : stmt'[u] = stmt[u]
      BY <1>0, <2>1, <2>2, TargetIsWithin DEF TypeOK
    <2>4. \A v \in Txs, u \in Stmts :
            u \in pending'[v] <=> u \in pending[v] \/ (u = s /\ v = t /\ ph = "acked")
      BY <1>0, <2>2 DEF TypeOK
    <2>5. PoolCalls'
      BY <2>1, <2>3 DEF StmtInv, StmtAgrees, PoolCalls
    <2>6. t \in Txs \cup {NoTx} /\ ph \in {"waiting", "acked", "failed"}
      OBVIOUS
    <2>7. UNCHANGED <<store, status>> /\ stmt[s].phase = "new"
      BY <2>1
    <2>8. \A u \in Stmts : StmtAgrees(u)'
      BY <1>0, <2>3, <2>4, <2>6, <2>7, IssueStmt
    <2> QED BY <2>5, <2>8 DEF StmtInv
  <1>6. ASSUME NEW g \in Goroutines, NEW t \in Txs, BeginOK(g, t) \/ BeginFail(g, t)
        PROVE  StmtInv'
    <2>1. status[t] = "beginning"
      BY <1>0, <1>6 DEF BeginOK, BeginFail, BeginInv
    <2>2. /\ UNCHANGED <<stmt, pending, store>>
          /\ \A u \in Txs : status[u] = "committed" => status'[u] = "committed"
          /\ \A h \in Goroutines : pc'[h] = "exec" => pc[h] = "exec" /\ call'[h] = call[h]
      BY <1>0, <1>6, <2>1 DEF BeginOK, BeginFail, TypeOK
    <2> QED BY <1>0, <2>2, QuietStmt
  <1>7. ASSUME NEW g \in Goroutines, NEW t \in Txs, Rollback(g, t) \/ Repanic(g, t)
        PROVE  StmtInv'
    <2>1. /\ UNCHANGED <<stmt, pending, store, call>>
          /\ \A u \in Txs : status[u] = "committed" => status'[u] = "committed"
          /\ \A h \in Goroutines : pc'[h] = "exec" => pc[h] = "exec"
      BY <1>0, <1>7 DEF Rollback, Repanic, Leave, CloseWithoutCommit, TypeOK
    <2> QED BY <1>0, <2>1, QuietStmt
  <1>8. ASSUME NEW r \in Roots, Cancel(r) PROVE StmtInv'
    <2>1. UNCHANGED <<stmt, pending, store, status, pc, call>>
      BY <1>8 DEF Cancel
    <2> QED BY <1>0, <2>1, QuietStmt
  <1>9. ASSUME NEW t \in Txs, AutoRollback(t) PROVE StmtInv'
    BY <1>0, <1>9, QuietStmt DEF AutoRollback, TypeOK
  <1>10. CASE UNCHANGED vars
    <2>1. UNCHANGED <<stmt, pending, store, status, pc, call>>
      BY <1>10 DEF vars
    <2> QED BY <1>0, <2>1, QuietStmt
  <1>11. ASSUME NEW g \in Goroutines, LibrarySteps(g) PROVE StmtInv'
    BY <1>0, <1>6, <1>7, <1>11, CommitStmt, PoolStmt DEF LibrarySteps
  <1>12. ASSUME NEW g \in Goroutines, UserSteps(g) PROVE StmtInv'
    BY <1>2, <1>3, <1>4, <1>5, <1>12 DEF UserSteps
  <1> QED BY <1>1, <1>8, <1>9, <1>10, <1>11, <1>12 DEF Next

\* Nothing was sent at the start.
LEMMA InitStmt == Init => StmtInv
PROOF
  <1> SUFFICES ASSUME Init PROVE StmtInv
    OBVIOUS
  <1>1. \A s \in Stmts : stmt[s].phase = "new" /\ stmt[s].within = NoTx /\ ~Effective(s)
    BY DEF Init, Effective
  <1>2. \A g \in Goroutines : pc[g] # "exec"
    BY DEF Init
  <1>3. \A t \in Txs : pending[t] = {}
    BY DEF Init
  <1> QED BY <1>1, <1>2, <1>3 DEF StmtInv, StmtAgrees, PoolCalls

\* Where contexts are handed on as given, what a callback and everything below
\* it did is durable together or not at all, whatever fails, panics or is
\* cancelled, for any number of goroutines and any depth
\* (connection_manager.go:22-72).
THEOREM Atomicity ==
  ASSUME HandsOnItsOwn PROVE Spec => []CallbackIsAtomic
PROOF
  <1>1. IInv /\ StmtInv /\ [Next]_vars => IInv' /\ StmtInv'
    BY StepStmt, StepInvariant
  <1>2. IInv /\ StmtInv => CallbackIsAtomic
    <2> SUFFICES ASSUME IInv, StmtInv, NEW s \in Stmts, stmt[s].within # NoTx
                 PROVE  Effective(s) <=>
                          stmt[s].phase = "acked" /\ status[stmt[s].within] = "committed"
      BY DEF CallbackIsAtomic
    <2>1. stmt[s].within \in Txs
      BY DEF IInv, TypeOK, StmtRecords
    <2>2. ASSUME stmt[s].phase = "acked", status[stmt[s].within] = "committed"
          PROVE  Effective(s)
      <3>1. s \in pending[stmt[s].within]
        BY <2>1, <2>2 DEF StmtInv, StmtAgrees, PoolCalls
      <3>2. /\ pending[stmt[s].within] \subseteq store[origin[stmt[s].within].mgr]
            /\ origin[stmt[s].within].mgr \in Managers
        BY <2>1, <2>2 DEF IInv, OutcomeInv
      <3> QED BY <3>1, <3>2 DEF Effective
    <2> QED BY <2>2 DEF StmtInv, StmtAgrees, PoolCalls
  <1> QED BY <1>1, <1>2, InitStmt, InitInvariant, PTL DEF Spec

=============================================================================
