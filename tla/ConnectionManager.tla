-------------------------- MODULE ConnectionManager --------------------------
(***************************************************************************)
(* simplesql.ConnectionManager at run time: goroutines that call           *)
(* StartTransaction and DB with contexts, callbacks that return, fail,     *)
(* panic, call runtime.Goexit or start goroutines, and the part of         *)
(* database/sql the manager relies on (a bounded connection pool,          *)
(* transactions, cancellation).                                            *)
(*                                                                         *)
(* A context is a record [tx, scope]: the transaction stored under         *)
(* txContextKey, and the request whose cancellation ends the context.      *)
(* Every call of StartTransaction that finds no transaction in its context *)
(* owns one: the call pushes a frame that owns it, a nested call pushes a  *)
(* frame that does not.                                                    *)
(*                                                                         *)
(* Definitions whose name starts with Wrong are never used: each is a      *)
(* mistake one could make in the definition that follows it, kept to test  *)
(* that the properties notice it.                                          *)
(***************************************************************************)
EXTENDS Integers, Sequences, FiniteSets

CONSTANTS
  Managers,  \* connection managers, each with its own *sql.DB
  Roots,     \* goroutines that serve a request; each has its own context
  Workers,   \* goroutines that other goroutines may start
  Txs,       \* one *sql.Tx for every owning call of StartTransaction
  Stmts,     \* statements; each is issued at most once
  MaxOpen,   \* SetMaxOpenConns of every *sql.DB
  MaxDepth,  \* bound: nested calls of StartTransaction on one goroutine
  Outcomes,  \* how callbacks may end, a subset of CallbackOutcomes
  Passes,    \* which contexts user code hands on, a subset of ContextChoices
  NoTx, NoScope, NoMgr, NoCall

CallbackOutcomes == {"nil", "err", "panic", "goexit"}
ContextChoices == {"own", "background", "captured"}

ASSUME ManagersAssumption ==
  NoMgr \notin Managers /\ Managers \cap Txs = {} /\ NoMgr \notin Txs
ASSUME TxsAssumption == NoTx \notin Txs /\ Txs \cap Stmts = {}
ASSUME GoroutinesAssumption == NoScope \notin Roots /\ Roots \cap Workers = {}
ASSUME CallsAssumption == NoCall \notin Txs \cup Stmts
ASSUME BoundsAssumption == MaxOpen \in Nat \ {0} /\ MaxDepth \in Nat
ASSUME ChoicesAssumption ==
  Outcomes \subseteq CallbackOutcomes /\ Passes \subseteq ContextChoices

VARIABLES
  stack,      \* stack[g]: the callbacks that run on goroutine g, outermost first
  base,       \* base[g]: the context goroutine g was started with
  pc,         \* pc[g]: what g is doing
  call,       \* call[g]: the transaction or statement g waits for the pool with
  status,     \* status[t]: the state of transaction t
  origin,     \* origin[t]: the manager and the scope t was begun with
  pending,    \* pending[t]: the statements that succeeded inside t
  store,      \* store[m]: the statements whose effect is durable in m's database
  cancelled,  \* the requests whose context is cancelled
  verdict,    \* history: how the callback of the owner of t ended
  reply,      \* history: what the owning call of StartTransaction answered
  stmt        \* history: how each statement was issued and what came of it

vars == <<stack, base, pc, call, status, origin, pending, store, cancelled,
          verdict, reply, stmt>>

Goroutines == Roots \cup Workers

Contexts == [tx : Txs \cup {NoTx}, scope : Roots \cup {NoScope}]
Frames == [ctx : Contexts, owns : BOOLEAN]
\* "run": user code runs; "begin", "exec": g waits inside database/sql;
\* "commit", "rollback", "repanic": lines 71, 68 and 57 are next; "panicking":
\* a panic unwinds the callback on top; "exited", "asleep": g does not run.
PCs == {"run", "begin", "exec", "commit", "rollback", "repanic", "panicking",
        "exited", "asleep"}
Statuses == {"unused", "beginning", "refused", "open", "committed", "rolledback"}
Targets == Txs \cup Managers \cup {NoMgr}
StmtRecords == [phase : {"new", "waiting", "acked", "failed"},
                mgr : Managers \cup {NoMgr}, target : Targets,
                within : Txs \cup {NoTx}, via : Txs \cup {NoTx},
                scope : Roots \cup {NoScope}]

TypeOK ==
  /\ stack \in [Goroutines -> Seq(Frames)]
  /\ base \in [Goroutines -> Contexts]
  /\ pc \in [Goroutines -> PCs]
  /\ call \in [Goroutines -> Txs \cup Stmts \cup {NoCall}]
  /\ status \in [Txs -> Statuses]
  /\ origin \in [Txs -> [mgr : Managers \cup {NoMgr}, scope : Roots \cup {NoScope}]]
  /\ pending \in [Txs -> SUBSET Stmts]
  /\ store \in [Managers -> SUBSET Stmts]
  /\ cancelled \subseteq Roots
  /\ verdict \in [Txs -> {"none"} \cup CallbackOutcomes]
  /\ reply \in [Txs -> {"none", "nil", "err", "panic"}]
  /\ stmt \in [Stmts -> StmtRecords]

-----------------------------------------------------------------------------
(* Contexts and frames. *)

Background == [tx |-> NoTx, scope |-> NoScope]
Carries(c) == c.tx # NoTx

WrongDB(m, c) == m

WrongLateDB(m, c) == IF Carries(c) /\ status[c.tx] = "open" THEN c.tx ELSE m

\* The querier a generated method talks to: the transaction of the context,
\* whatever manager began it, or this manager's pool.
DB(m, c) == IF Carries(c) THEN c.tx ELSE m

Top(s) == s[Len(s)]
Pop(s) == SubSeq(s, 1, Len(s) - 1)

\* The context the code that runs on g was handed.
Current(g) == IF stack[g] = << >> THEN base[g] ELSE Top(stack[g]).ctx

\* The contexts the code that runs on g may hand on: the one it was handed,
\* context.Background(), or one of an enclosing function that it captured.
Passable(g) ==
  UNION {IF "own" \in Passes THEN {Current(g)} ELSE {},
         IF "background" \in Passes THEN {Background} ELSE {},
         IF "captured" \in Passes
           THEN {base[g]} \cup {stack[g][i].ctx : i \in 1..Len(stack[g])}
           ELSE {}}

\* The i-th callback on g belongs to the call that began t.
OwnerAt(g, i, t) ==
  i \in 1..Len(stack[g]) /\ stack[g][i].owns /\ stack[g][i].ctx.tx = t
Owns(g, t) == \E i \in 1..Len(stack[g]) : OwnerAt(g, i, t)

\* The pool. A statement outside a transaction borrows a connection only for
\* the one step in which it runs, so between steps only open transactions hold one.
OpenTxs(m) == {t \in Txs : status[t] = "open" /\ origin[t].mgr = m}
ConnAvailable(m) == Cardinality(OpenTxs(m)) < MaxOpen
Live(t) == status[t] = "open" /\ origin[t].scope \notin cancelled

Init ==
  /\ stack = [g \in Goroutines |-> << >>]
  /\ base = [g \in Goroutines |->
               IF g \in Roots THEN [tx |-> NoTx, scope |-> g] ELSE Background]
  /\ pc = [g \in Goroutines |-> IF g \in Roots THEN "run" ELSE "asleep"]
  /\ call = [g \in Goroutines |-> NoCall]
  /\ status = [t \in Txs |-> "unused"]
  /\ origin = [t \in Txs |-> [mgr |-> NoMgr, scope |-> NoScope]]
  /\ pending = [t \in Txs |-> {}]
  /\ store = [m \in Managers |-> {}]
  /\ cancelled = {}
  /\ verdict = [t \in Txs |-> "none"]
  /\ reply = [t \in Txs |-> "none"]
  /\ stmt = [s \in Stmts |-> [phase |-> "new", mgr |-> NoMgr, target |-> NoMgr,
                              within |-> NoTx, via |-> NoTx, scope |-> NoScope]]

txVars == <<status, origin, pending, store>>
history == <<verdict, reply, stmt>>

-----------------------------------------------------------------------------
(* Calls of StartTransaction. *)

\* The context carries a transaction: the callback runs on it at once.
CallNested(g, c) ==
  /\ pc[g] = "run" /\ Len(stack[g]) < MaxDepth
  /\ c \in Passable(g) /\ Carries(c)
  /\ stack' = [stack EXCEPT ![g] = Append(@, [ctx |-> c, owns |-> FALSE])]
  /\ UNCHANGED <<base, pc, call, txVars, cancelled, history>>

WrongCallBegin(g, m, c, t) ==
  /\ pc[g] = "run" /\ Len(stack[g]) < MaxDepth
  /\ c \in Passable(g)
  /\ status[t] = "unused"
  /\ status' = [status EXCEPT ![t] = "beginning"]
  /\ origin' = [origin EXCEPT ![t] = [mgr |-> m, scope |-> c.scope]]
  /\ call' = [call EXCEPT ![g] = t]
  /\ pc' = [pc EXCEPT ![g] = "begin"]
  /\ UNCHANGED <<stack, base, pending, store, cancelled, history>>

\* It carries none: BeginTx asks this manager's pool for a connection.
CallBegin(g, m, c, t) ==
  /\ pc[g] = "run" /\ Len(stack[g]) < MaxDepth
  /\ c \in Passable(g) /\ ~Carries(c)
  /\ status[t] = "unused"
  /\ status' = [status EXCEPT ![t] = "beginning"]
  /\ origin' = [origin EXCEPT ![t] = [mgr |-> m, scope |-> c.scope]]
  /\ call' = [call EXCEPT ![g] = t]
  /\ pc' = [pc EXCEPT ![g] = "begin"]
  /\ UNCHANGED <<stack, base, pending, store, cancelled, history>>

WrongBeginOK(g, t) ==
  /\ pc[g] = "begin" /\ call[g] = t
  /\ ConnAvailable(origin[t].mgr) /\ origin[t].scope \notin cancelled
  /\ status' = [status EXCEPT ![t] = "open"]
  /\ stack' = [stack EXCEPT ![g] = Append(@,
                 [ctx |-> [tx |-> origin[t].mgr, scope |-> origin[t].scope], owns |-> TRUE])]
  /\ call' = [call EXCEPT ![g] = NoCall]
  /\ pc' = [pc EXCEPT ![g] = "run"]
  /\ UNCHANGED <<base, origin, pending, store, cancelled, history>>

\* The callback runs on a context that carries the transaction.
BeginOK(g, t) ==
  /\ pc[g] = "begin" /\ call[g] = t
  /\ ConnAvailable(origin[t].mgr) /\ origin[t].scope \notin cancelled
  /\ status' = [status EXCEPT ![t] = "open"]
  /\ stack' = [stack EXCEPT ![g] = Append(@,
                 [ctx |-> [tx |-> t, scope |-> origin[t].scope], owns |-> TRUE])]
  /\ call' = [call EXCEPT ![g] = NoCall]
  /\ pc' = [pc EXCEPT ![g] = "run"]
  /\ UNCHANGED <<base, origin, pending, store, cancelled, history>>

\* The context is cancelled, or the driver refuses; the callback does not run.
BeginFail(g, t) ==
  /\ pc[g] = "begin" /\ call[g] = t
  /\ ConnAvailable(origin[t].mgr) \/ origin[t].scope \in cancelled
  /\ status' = [status EXCEPT ![t] = "refused"]
  /\ reply' = [reply EXCEPT ![t] = "err"]
  /\ call' = [call EXCEPT ![g] = NoCall]
  /\ pc' = [pc EXCEPT ![g] = "run"]
  /\ UNCHANGED <<stack, base, origin, pending, store, cancelled, verdict, stmt>>

-----------------------------------------------------------------------------
(* The callback ends. *)

WrongNextPC(o) == IF o = "panic" THEN "repanic" ELSE "commit"

\* What the owner of the transaction does next when its callback ends with o.
NextPC(o) == CASE o = "nil" -> "commit" [] o = "err" -> "rollback" [] o = "panic" -> "repanic"

\* The callback on top, which owns t, returns or is left by a panic.
OwnerEnds(g, t, o) ==
  /\ OwnerAt(g, Len(stack[g]), t)
  /\ pc[g] = IF o = "panic" THEN "panicking" ELSE "run"
  /\ o \in Outcomes \ {"goexit"}
  /\ pc' = [pc EXCEPT ![g] = NextPC(o)]
  /\ verdict' = [verdict EXCEPT ![t] = o]
  /\ UNCHANGED <<stack, base, call, txVars, cancelled, reply, stmt>>

\* A nested call hands the callback's result, or its panic, to its caller.
NestedEnds(g) ==
  /\ stack[g] # << >> /\ ~Top(stack[g]).owns
  /\ pc[g] \in {"run", "panicking"}
  /\ stack' = [stack EXCEPT ![g] = Pop(@)]
  /\ UNCHANGED <<base, pc, call, txVars, cancelled, history>>

Panic(g) ==
  /\ pc[g] = "run" /\ stack[g] # << >> /\ "panic" \in Outcomes
  /\ pc' = [pc EXCEPT ![g] = "panicking"]
  /\ UNCHANGED <<stack, base, call, txVars, cancelled, history>>

\* User code around a call of StartTransaction recovers the panic.
Recover(g) ==
  /\ pc[g] = "panicking"
  /\ pc' = [pc EXCEPT ![g] = "run"]
  /\ UNCHANGED <<stack, base, call, txVars, cancelled, history>>

\* runtime.Goexit runs the deferred functions; recover() answers nil in each,
\* so none of them touches its transaction.
Goexit(g) ==
  /\ pc[g] = "run" /\ stack[g] # << >> /\ "goexit" \in Outcomes
  /\ verdict' = [t \in Txs |-> IF Owns(g, t) THEN "goexit" ELSE verdict[t]]
  /\ stack' = [stack EXCEPT ![g] = << >>]
  /\ pc' = [pc EXCEPT ![g] = "exited"]
  /\ UNCHANGED <<base, call, txVars, cancelled, reply, stmt>>

-----------------------------------------------------------------------------
(* The owner closes its transaction. *)

\* The owning call leaves the stack; its caller goes on at pc next.
Leave(g, t, answer, next) ==
  /\ OwnerAt(g, Len(stack[g]), t)
  /\ stack' = [stack EXCEPT ![g] = Pop(@)]
  /\ reply' = [reply EXCEPT ![t] = answer]
  /\ pc' = [pc EXCEPT ![g] = next]
  /\ UNCHANGED <<base, call, origin, pending, cancelled, verdict, stmt>>

WrongCommit(g, t) ==
  /\ pc[g] = "commit"
  /\ Leave(g, t, "nil", "run")
  /\ \/ /\ Live(t)
        /\ status' = [status EXCEPT ![t] = "committed"]
        /\ store' = [store EXCEPT ![origin[t].mgr] = @ \cup pending[t]]
     \/ UNCHANGED <<status, store>>

\* Commit reaches the database unless the context is cancelled or the
\* transaction is already closed. The database may refuse, and its
\* acknowledgement may be lost: an error then hides a durable commit.
Commit(g, t) ==
  /\ pc[g] = "commit"
  /\ \/ /\ Live(t)
        /\ \/ \E answer \in {"nil", "err"} :
                /\ Leave(g, t, answer, "run")
                /\ status' = [status EXCEPT ![t] = "committed"]
                /\ store' = [store EXCEPT ![origin[t].mgr] = @ \cup pending[t]]
           \/ /\ Leave(g, t, "err", "run")
              /\ status' = [status EXCEPT ![t] = "rolledback"]
              /\ UNCHANGED store
     \/ /\ ~Live(t)
        /\ Leave(g, t, "err", "run")
        /\ UNCHANGED <<status, store>>

CloseWithoutCommit(t) ==
  /\ status' = [status EXCEPT ![t] = IF @ = "open" THEN "rolledback" ELSE @]
  /\ UNCHANGED store

WrongRollback(g, t) ==
  /\ pc[g] = "rollback"
  /\ Leave(g, t, "err", "run")
  /\ UNCHANGED <<status, store>>

\* The callback's error is answered, joined with the error of Rollback.
Rollback(g, t) ==
  /\ pc[g] = "rollback"
  /\ Leave(g, t, "err", "run")
  /\ CloseWithoutCommit(t)

WrongRepanic(g, t) ==
  /\ pc[g] = "repanic"
  /\ Leave(g, t, "panic", "panicking")
  /\ status' = [status EXCEPT ![t] = IF @ = "open" THEN "committed" ELSE @]
  /\ store' = [store EXCEPT ![origin[t].mgr] = @ \cup pending[t]]

\* The deferred function rolls back, then the panic goes on to the caller.
Repanic(g, t) ==
  /\ pc[g] = "repanic"
  /\ Leave(g, t, "panic", "panicking")
  /\ CloseWithoutCommit(t)

-----------------------------------------------------------------------------
(* Statements: db := cm.DB(ctx); db.ExecContext(ctx, ...). *)

\* within: the transaction of the callback that issues the statement; via: that
\* of the context it issues it with.
Issued(g, m, c, s, ph) ==
  [phase |-> ph, mgr |-> m, target |-> DB(m, c), within |-> Current(g).tx,
   via |-> c.tx, scope |-> c.scope]

\* DB answers a transaction: it takes the statement if it is still open, and a
\* closed one answers ErrTxDone, as does a cancelled context.
ExecOnTx(g, m, c, s, t) ==
  /\ pc[g] = "run" /\ c \in Passable(g)
  /\ stmt[s].phase = "new" /\ DB(m, c) = t
  /\ \/ /\ status[t] = "open" /\ c.scope \notin cancelled
        /\ pending' = [pending EXCEPT ![t] = @ \cup {s}]
        /\ stmt' = [stmt EXCEPT ![s] = Issued(g, m, c, s, "acked")]
     \/ /\ stmt' = [stmt EXCEPT ![s] = Issued(g, m, c, s, "failed")]
        /\ UNCHANGED pending
  /\ UNCHANGED <<stack, base, pc, call, status, origin, store, cancelled,
                 verdict, reply>>

\* DB answers the pool: the statement needs a connection of its own.
ExecOnPool(g, m, c, s) ==
  /\ pc[g] = "run" /\ c \in Passable(g)
  /\ stmt[s].phase = "new" /\ DB(m, c) = m
  /\ stmt' = [stmt EXCEPT ![s] = Issued(g, m, c, s, "waiting")]
  /\ pc' = [pc EXCEPT ![g] = "exec"]
  /\ call' = [call EXCEPT ![g] = s]
  /\ UNCHANGED <<stack, base, txVars, cancelled, verdict, reply>>

\* The statement runs and commits by itself, or it fails, or only its answer
\* is lost; a cancelled context ends the wait for a connection.
PoolAnswers(g, s) ==
  /\ pc[g] = "exec" /\ call[g] = s
  /\ \/ /\ ConnAvailable(stmt[s].mgr) /\ stmt[s].scope \notin cancelled
        /\ store' = [store EXCEPT ![stmt[s].mgr] = @ \cup {s}]
        /\ \E ph \in {"acked", "failed"} : stmt' = [stmt EXCEPT ![s].phase = ph]
     \/ /\ ConnAvailable(stmt[s].mgr) \/ stmt[s].scope \in cancelled
        /\ stmt' = [stmt EXCEPT ![s].phase = "failed"]
        /\ UNCHANGED store
  /\ pc' = [pc EXCEPT ![g] = "run"]
  /\ call' = [call EXCEPT ![g] = NoCall]
  /\ UNCHANGED <<stack, base, status, origin, pending, cancelled, verdict, reply>>

-----------------------------------------------------------------------------
(* The environment. *)

\* User code starts a goroutine and hands it a context.
Spawn(g, w, c) ==
  /\ pc[g] = "run" /\ pc[w] = "asleep" /\ c \in Passable(g)
  /\ pc' = [pc EXCEPT ![w] = "run"]
  /\ base' = [base EXCEPT ![w] = c]
  /\ UNCHANGED <<stack, call, txVars, cancelled, history>>

Cancel(r) ==
  /\ r \notin cancelled
  /\ cancelled' = cancelled \cup {r}
  /\ UNCHANGED <<stack, base, pc, call, txVars, history>>

\* database/sql rolls back a transaction whose context is cancelled.
AutoRollback(t) ==
  /\ status[t] = "open" /\ origin[t].scope \in cancelled
  /\ status' = [status EXCEPT ![t] = "rolledback"]
  /\ UNCHANGED <<stack, base, pc, call, origin, pending, store, cancelled, history>>

CallbackEnds(g) == NestedEnds(g) \/ \E t \in Txs, o \in Outcomes : OwnerEnds(g, t, o)

UserSteps(g) ==
  \/ Panic(g) \/ Recover(g) \/ Goexit(g)
  \/ \E c \in Passable(g) :
       \/ CallNested(g, c)
       \/ \E m \in Managers, t \in Txs : CallBegin(g, m, c, t)
       \/ \E m \in Managers, s \in Stmts :
            ExecOnPool(g, m, c, s) \/ \E t \in Txs : ExecOnTx(g, m, c, s, t)
       \/ \E w \in Workers : Spawn(g, w, c)

LibrarySteps(g) ==
  \/ \E t \in Txs : BeginOK(g, t) \/ BeginFail(g, t)
  \/ \E t \in Txs : Commit(g, t) \/ Rollback(g, t) \/ Repanic(g, t)
  \/ \E s \in Stmts : PoolAnswers(g, s)

Next ==
  \/ \E g \in Goroutines : CallbackEnds(g) \/ UserSteps(g) \/ LibrarySteps(g)
  \/ \E r \in Roots : Cancel(r)
  \/ \E t \in Txs : AutoRollback(t)

Spec == Init /\ [][Next]_vars

(***************************************************************************)
(* Fairness. Calls into database/sql answer when they can; a callback      *)
(* comes to its end, at every depth, whatever it nested before; awaitDone  *)
(* rolls a cancelled transaction back. Nobody has to cancel a request.     *)
(***************************************************************************)
Fairness ==
  /\ \A g \in Goroutines :
       /\ WF_vars(LibrarySteps(g))
       /\ \A d \in 1..MaxDepth : SF_vars(Len(stack[g]) = d /\ CallbackEnds(g))
  /\ \A t \in Txs : WF_vars(AutoRollback(t))

FairSpec == Spec /\ Fairness

-----------------------------------------------------------------------------
(* Properties. *)

\* Only a callback that returned nil is ever committed: not one that failed,
\* that a panic left, or that vanished with its goroutine
\* (connection_manager.go:50-71).
FailedCallbackNeverCommits ==
  \A t \in Txs : status[t] = "committed" => verdict[t] = "nil"

\* When StartTransaction answers nil, every statement that succeeded on the
\* transaction, whichever goroutine sent it, is durable, and a statement that
\* was refused is not; when it lets a panic through, none is (lines 57, 71).
ReplyTellsTheOutcome ==
  \A t \in Txs :
    /\ reply[t] = "nil" => /\ status[t] = "committed"
                           /\ pending[t] \subseteq store[origin[t].mgr]
    /\ reply[t] = "panic" => status[t] = "rolledback"

\* A transaction holds its connection only while a running call of
\* StartTransaction owns it, and only one does. The exceptions are the ones no
\* line of the code handles: runtime.Goexit took the owner away, or the context
\* was cancelled and database/sql is about to roll back.
OpenTxIsOwned ==
  /\ \A t \in Txs :
       status[t] = "open" => \/ \E g \in Goroutines : Owns(g, t)
                             \/ verdict[t] = "goexit"
                             \/ origin[t].scope \in cancelled
  /\ \A t \in Txs, g, h \in Goroutines :
       \A i \in 1..Len(stack[g]), j \in 1..Len(stack[h]) :
         OwnerAt(g, i, t) /\ OwnerAt(h, j, t) => g = h /\ i = j

\* What the tests of connection_manager_test.go take for granted: the call that
\* began a transaction closes it, however its callback ends.
OwnerClosesItsTx ==
  \A t \in Txs :
    status[t] = "open" => \/ \E g \in Goroutines : Owns(g, t)
                          \/ origin[t].scope \in cancelled

Effective(s) == \E m \in Managers : s \in store[m]

\* What a callback, and every function below it, did takes effect all together
\* or not at all: a statement that was issued inside a transaction is durable
\* exactly when it succeeded and the transaction was committed.
CallbackIsAtomic ==
  \A s \in Stmts :
    stmt[s].within # NoTx =>
      (Effective(s) <=> stmt[s].phase = "acked" /\ status[stmt[s].within] = "committed")

\* A statement belongs to the transaction of the context it is issued with, even
\* when the context outlives it, in a goroutine or a variable, or when another
\* manager began it: it is durable exactly when it succeeded and that transaction
\* was committed, and never as a statement of its own (lines 24-30).
EffectsFollowTheContext ==
  \A s \in Stmts :
    stmt[s].via # NoTx =>
      (Effective(s) <=> stmt[s].phase = "acked" /\ status[stmt[s].via] = "committed")

\* Reentrancy: however deep the calls nest, a goroutine owns at most one
\* transaction, and it is the one every context below it carries (lines 40-43).
OneTransactionPerStack ==
  \A g \in Goroutines : \A i, j \in 1..Len(stack[g]) :
    /\ stack[g][i].ctx.tx = stack[g][j].ctx.tx
    /\ stack[g][i].owns => i = 1

\* Every call of StartTransaction, and every statement, gives control back.
CallsReturn ==
  \A g \in Goroutines :
    stack[g] # << >> \/ pc[g] \in {"begin", "exec"}
      ~> stack[g] = << >> /\ pc[g] \in {"run", "panicking"}

\* Every transaction is closed, so its connection returns to the pool, even
\* when the context was cancelled and Commit only reported that.
TransactionsClose ==
  \A t \in Txs : status[t] = "open" ~> status[t] \in {"committed", "rolledback"}

-----------------------------------------------------------------------------
(* The inductive invariant behind the safety properties. *)

Closing(g) == pc[g] \in {"commit", "rollback", "repanic"}

\* A transaction that BeginTx was asked for belongs to that call alone.
BeginInv ==
  /\ \A g \in Goroutines, t \in Txs :
       pc[g] = "begin" /\ call[g] = t => status[t] = "beginning"
  /\ \A g, h \in Goroutines :
       pc[g] = "begin" /\ pc[h] = "begin" /\ call[g] = call[h] => g = h

\* The transaction of an owner's frame has begun and is not committed, no other
\* frame owns it, and it has no verdict until the owner is about to close it.
FrameInv ==
  \A g \in Goroutines, t \in Txs : \A i \in 1..Len(stack[g]) :
    OwnerAt(g, i, t) =>
      /\ status[t] \in {"open", "rolledback"}
      /\ verdict[t] = "none" \/ (i = Len(stack[g]) /\ Closing(g))
      /\ i = Len(stack[g]) /\ pc[g] = "commit" => verdict[t] = "nil"
      /\ \A h \in Goroutines : \A j \in 1..Len(stack[h]) :
           OwnerAt(h, j, t) => g = h /\ i = j

\* What is recorded of a transaction agrees with how far it has come.
OutcomeInv ==
  \A t \in Txs :
    /\ status[t] # "unused" => origin[t].mgr \in Managers
    /\ status[t] \in {"unused", "beginning", "refused"} => verdict[t] = "none"
    /\ status[t] = "committed" => /\ verdict[t] = "nil"
                                  /\ pending[t] \subseteq store[origin[t].mgr]
    /\ reply[t] = "nil" => status[t] = "committed"
    /\ reply[t] = "panic" => status[t] = "rolledback"
    /\ status[t] = "open" => \/ \E g \in Goroutines : Owns(g, t)
                             \/ verdict[t] = "goexit"
                             \/ origin[t].scope \in cancelled

IInv == TypeOK /\ BeginInv /\ FrameInv /\ OutcomeInv

-----------------------------------------------------------------------------
(* Refinement: ConnectionManager implements UnitOfWork. *)

PhaseOf(t) ==
  CASE status[t] \in {"unused", "beginning", "refused"} -> "new"
    [] status[t] = "open" -> (CASE verdict[t] = "none" -> "running"
                                [] verdict[t] = "nil" -> "succeeded"
                                [] OTHER -> "failed")
    [] status[t] = "committed" -> "applied"
    [] OTHER -> "undone"

Work == INSTANCE UnitOfWork
          WITH Units <- Txs, Databases <- Managers,
               phase <- [t \in Txs |-> PhaseOf(t)],
               staged <- pending, durable <- store

\* A caller that knows nothing of goroutines, contexts and pools sees units of
\* work whose statements are applied together after success, or discarded.
UnitRefinement == Work!UnitSpec
=============================================================================
