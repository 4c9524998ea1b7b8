-------------------------------- MODULE Rows --------------------------------
(***************************************************************************)
(* Queries that read rows: the methods selectOneTmpl and selectManyTmpl    *)
(* generate, with simplesql.ScanRows, against the cursor of database/sql   *)
(* (sql.Rows), whose connections are limited. The driver may fail at every *)
(* row, closing may fail, a row may not fit the struct, a Scanner of the   *)
(* struct may panic, and the context is cancelled at any time, after which *)
(* a goroutine of database/sql closes the cursor behind the method's back. *)
(*                                                                         *)
(* A row is its number. An element that Scan fills is an address in heap.  *)
(*                                                                         *)
(* The definitions whose name starts with Wrong are mistakes one could     *)
(* make in the definition that follows them; nothing uses them.            *)
(***************************************************************************)
EXTENDS Integers, Sequences, FiniteSets

CONSTANTS
  Calls,    \* running method calls
  KindOf,   \* KindOf[c]: "one" (selectOneTmpl) or "many" (selectManyTmpl)
  MaxRows,  \* bound: rows of a result
  MaxOpen   \* the pool's connections

ASSUME KindAssumption == KindOf \in [Calls -> {"one", "many"}]
ASSUME BoundsAssumption == MaxRows \in Nat /\ MaxOpen \in Nat \ {0}

VARIABLES
  pc,          \* pc[c]: where the method is
  err,         \* err[c]: the errors joined in _err, which it is about to return
  result,      \* result[c]: _result or _dest, the addresses of the elements
  heap,        \* heap[c]: the row that is in every element
  total,       \* total[c]: the rows of the query's result
  pos,         \* pos[c]: the rows the driver has handed out
  closed,      \* closed[c]: Rows.closed; the connection is back in the pool
  lasterr,     \* lasterr[c]: Rows.lasterr
  hitEOF,      \* hitEOF[c]: Rows.hitEOF
  cancelled,   \* cancelled[c]: the context is done
  closeFailed  \* history: closing the cursor failed

method == <<pc, err, result, heap>>
cursor == <<total, pos, closed, lasterr, hitEOF, cancelled, closeFailed>>
vars == <<method, cursor>>

PCs == {"query", "columns", "next", "err", "scan", "close", "done"}
LastErrs == {"nil", "EOF", "driver", "ctx", "close"}

\* What database/sql reports of the rows, the context and closing; any other
\* error; and a panic, which goes through the method.
Errors == {"driver", "ctx", "close", "own", "panic"}

TypeOK ==
  /\ pc \in [Calls -> PCs]
  /\ err \in [Calls -> SUBSET Errors]
  /\ result \in [Calls -> Seq(1..MaxRows)] /\ heap \in [Calls -> Seq(1..MaxRows)]
  /\ total \in [Calls -> 0..MaxRows] /\ pos \in [Calls -> 0..MaxRows]
  /\ closed \in [Calls -> BOOLEAN] /\ lasterr \in [Calls -> LastErrs]
  /\ hitEOF \in [Calls -> BOOLEAN] /\ cancelled \in [Calls -> BOOLEAN]
  /\ closeFailed \in [Calls -> BOOLEAN]

\* A cursor that was not opened counts as closed.
Init ==
  /\ pc = [c \in Calls |-> "query"] /\ err = [c \in Calls |-> {}]
  /\ result = [c \in Calls |-> << >>] /\ heap = [c \in Calls |-> << >>]
  /\ total = [c \in Calls |-> 0] /\ pos = [c \in Calls |-> 0]
  /\ closed = [c \in Calls |-> TRUE] /\ lasterr = [c \in Calls |-> "nil"]
  /\ hitEOF = [c \in Calls |-> FALSE] /\ cancelled = [c \in Calls |-> FALSE]
  /\ closeFailed = [c \in Calls |-> FALSE]

ConnAvailable == Cardinality({c \in Calls : ~closed[c]}) < MaxOpen

Goto(c, where) == pc' = [pc EXCEPT ![c] = where]

\* The method gives up with an error; the deferred Close follows.
Fail(c, e) ==
  /\ Goto(c, "close") /\ err' = [err EXCEPT ![c] = {e}]
  /\ UNCHANGED <<result, heap>>

\* Rows.close: the connection goes back whatever the driver answers; its error
\* is kept unless there is an earlier one.
CloseCursor(c, failed, last) ==
  /\ closed' = [closed EXCEPT ![c] = TRUE]
  /\ closeFailed' = [closeFailed EXCEPT ![c] = failed]
  /\ lasterr' = [lasterr EXCEPT ![c] = IF failed /\ last \in {"nil", "EOF"} THEN "close" ELSE last]

-----------------------------------------------------------------------------
(* QueryContext and Columns. *)

Query(c) ==
  /\ pc[c] = "query" /\ ConnAvailable /\ ~cancelled[c]
  /\ \E n \in 0..MaxRows : total' = [total EXCEPT ![c] = n]
  /\ closed' = [closed EXCEPT ![c] = FALSE]
  /\ Goto(c, "columns")
  /\ UNCHANGED <<err, result, heap, pos, lasterr, hitEOF, cancelled, closeFailed>>

\* The database refuses the query, or the context ends before there is a
\* connection. The method returns before it defers Close.
QueryFails(c) ==
  /\ pc[c] = "query" /\ (ConnAvailable \/ cancelled[c])
  /\ Goto(c, "done") /\ err' = [err EXCEPT ![c] = {"own"}]
  /\ UNCHANGED <<result, heap, cursor>>

\* ScanRows is given something else than a pointer to a slice of structs.
BadDest(c) ==
  /\ pc[c] = "columns" /\ KindOf[c] = "many"
  /\ Fail(c, "own")
  /\ UNCHANGED cursor

Columns(c) ==
  /\ pc[c] = "columns"
  /\ IF closed[c] THEN Fail(c, "own") ELSE Goto(c, "next") /\ UNCHANGED <<err, result, heap>>
  /\ UNCHANGED cursor

-----------------------------------------------------------------------------
(* The loop of ScanRows; selectOneTmpl goes through it once. *)

\* Next answers true.
NextRow(c) ==
  /\ pc[c] = "next" /\ ~closed[c] /\ ~cancelled[c] /\ pos[c] < total[c]
  /\ pos' = [pos EXCEPT ![c] = @ + 1]
  /\ Goto(c, "scan")
  /\ UNCHANGED <<err, result, heap, total, closed, lasterr, hitEOF, cancelled, closeFailed>>

\* Next reaches the end, or the driver fails; it closes the cursor itself.
NextEnds(c) ==
  /\ pc[c] = "next" /\ ~closed[c] /\ ~cancelled[c]
  /\ \E last \in IF pos[c] = total[c] THEN {"EOF", "driver"} ELSE {"driver"}, failed \in BOOLEAN :
       CloseCursor(c, failed, last)
  /\ hitEOF' = [hitEOF EXCEPT ![c] = TRUE]
  /\ Goto(c, "err")
  /\ UNCHANGED <<err, result, heap, total, pos, cancelled>>

\* Next finds the context done or the cursor closed for that reason.
NextCancelled(c) ==
  /\ pc[c] = "next" /\ (closed[c] \/ cancelled[c])
  /\ Goto(c, "err")
  /\ UNCHANGED <<err, result, heap, cursor>>

\* Rows.Err.
RowsErr(c) ==
  IF ~hitEOF[c] /\ cancelled[c] THEN "ctx"
  ELSE IF lasterr[c] = "EOF" THEN "nil" ELSE lasterr[c]

WrongAfterNext(c) ==
  /\ pc[c] = "err"
  /\ Goto(c, "close")
  /\ UNCHANGED <<err, result, heap, cursor>>

\* After Next answered false both look at Rows.Err.
AfterNext(c) ==
  /\ pc[c] = "err"
  /\ IF RowsErr(c) = "nil" THEN Goto(c, "close") /\ UNCHANGED <<err, result, heap>>
                          ELSE Fail(c, RowsErr(c))
  /\ UNCHANGED cursor

\* Rows.Scan fills nothing when the cursor was closed meanwhile.
ScanRefused(c) == closed[c] \/ lasterr[c] \notin {"nil", "EOF"}

WrongScanOrder(c) ==
  /\ pc[c] = "scan" /\ ~ScanRefused(c)
  /\ heap' = [heap EXCEPT ![c] = Append(@, pos[c])]
  /\ result' = [result EXCEPT ![c] = Append(@, Len(heap[c]))]
  /\ Goto(c, IF KindOf[c] = "many" THEN "next" ELSE "close")
  /\ UNCHANGED <<err, cursor>>

WrongScan(c) ==
  /\ pc[c] = "scan" /\ ~ScanRefused(c)
  /\ heap' = [heap EXCEPT ![c] = <<pos[c]>>]
  /\ result' = [result EXCEPT ![c] = Append(@, 1)]
  /\ Goto(c, IF KindOf[c] = "many" THEN "next" ELSE "close")
  /\ UNCHANGED <<err, cursor>>

\* A new element for every row.
Scan(c) ==
  /\ pc[c] = "scan" /\ ~ScanRefused(c)
  /\ heap' = [heap EXCEPT ![c] = Append(@, pos[c])]
  /\ result' = [result EXCEPT ![c] = Append(@, Len(heap'[c]))]
  /\ Goto(c, IF KindOf[c] = "many" THEN "next" ELSE "close")
  /\ UNCHANGED <<err, cursor>>

\* The cursor is closed, the row does not fit the struct, or FieldPointers
\* refuses a destination that is none.
ScanFails(c) ==
  /\ pc[c] = "scan"
  /\ Fail(c, "own")
  /\ UNCHANGED cursor

\* A Scanner of the struct panics, or reflection does at a field that cannot be
\* set; the deferred function runs all the same.
ScanPanics(c) ==
  /\ pc[c] = "scan"
  /\ Goto(c, "close") /\ err' = [err EXCEPT ![c] = {"panic"}]
  /\ UNCHANGED <<result, heap, cursor>>

-----------------------------------------------------------------------------
(* The deferred function and the return. *)

WrongJoin(e, failed) == IF failed /\ e = {} THEN {"close"} ELSE e

\* errors.Join; a panic goes on.
Join(e, failed) == IF failed /\ "panic" \notin e THEN e \cup {"close"} ELSE e

\* selectManyTmpl returns nil in place of a result that is incomplete.
Returned(c, e) == IF e # {} /\ KindOf[c] = "many" THEN << >> ELSE result[c]

WrongClose(c) ==
  /\ pc[c] = "close"
  /\ IF closed[c] \/ err[c] # {}
       THEN UNCHANGED <<err, closed, lasterr, closeFailed>>
       ELSE \E failed \in BOOLEAN :
              CloseCursor(c, failed, lasterr[c]) /\ err' = [err EXCEPT ![c] = Join(@, failed)]
  /\ result' = [result EXCEPT ![c] = Returned(c, err'[c])]
  /\ Goto(c, "done")
  /\ UNCHANGED <<heap, total, pos, hitEOF, cancelled>>

\* Closing what is closed already answers nil.
Close(c) ==
  /\ pc[c] = "close"
  /\ IF closed[c]
       THEN UNCHANGED <<err, closed, lasterr, closeFailed>>
       ELSE \E failed \in BOOLEAN :
              CloseCursor(c, failed, lasterr[c]) /\ err' = [err EXCEPT ![c] = Join(@, failed)]
  /\ result' = [result EXCEPT ![c] = Returned(c, err'[c])]
  /\ Goto(c, "done")
  /\ UNCHANGED <<heap, total, pos, hitEOF, cancelled>>

-----------------------------------------------------------------------------
(* The environment. *)

Cancel(c) ==
  /\ pc[c] # "done" /\ ~cancelled[c]
  /\ cancelled' = [cancelled EXCEPT ![c] = TRUE]
  /\ UNCHANGED <<method, total, pos, closed, lasterr, hitEOF, closeFailed>>

\* Rows.awaitDone closes the cursor some time after the context is done.
AwaitDone(c) ==
  /\ cancelled[c] /\ ~closed[c]
  /\ \E failed \in BOOLEAN : CloseCursor(c, failed, IF lasterr[c] = "nil" THEN "ctx" ELSE lasterr[c])
  /\ UNCHANGED <<method, total, pos, hitEOF, cancelled>>

MethodSteps(c) ==
  \/ Query(c) \/ QueryFails(c) \/ BadDest(c) \/ Columns(c)
  \/ NextRow(c) \/ NextEnds(c) \/ NextCancelled(c) \/ AfterNext(c)
  \/ Scan(c) \/ ScanFails(c) \/ ScanPanics(c) \/ Close(c)

Next == \E c \in Calls : MethodSteps(c) \/ Cancel(c) \/ AwaitDone(c)

Spec == Init /\ [][Next]_vars

\* A method that can go on does. Nothing is assumed of awaitDone.
FairSpec == Spec /\ \A c \in Calls : WF_vars(MethodSteps(c))

-----------------------------------------------------------------------------
(* Properties. *)

Succeeded(c) == pc[c] = "done" /\ err[c] = {}

\* A slice that comes without an error holds every row of the result, once and
\* in order, whatever failed or was cancelled on the way (scan.go:50-62).
CompleteOrError ==
  \A c \in Calls : Succeeded(c) /\ KindOf[c] = "many" =>
    [i \in DOMAIN result[c] |-> heap[c][result[c][i]]] = [i \in 1..total[c] |-> i]

\* A pointer that comes without an error is nil only if there is no row, and
\* is the first row otherwise; a lost connection is not "not found"
\* (templates.go:43-48).
NotFoundIsTrue ==
  \A c \in Calls : Succeeded(c) /\ KindOf[c] = "one" =>
    IF result[c] = << >> THEN total[c] = 0 ELSE heap[c][result[c][1]] = 1

\* When a method is over, with a result, an error or a panic, its connection is
\* back in the pool (scan.go:19-21, templates.go:37-39).
ConnectionIsReleased ==
  \A c \in Calls : pc[c] = "done" => closed[c]

\* An error of closing is among those that reach the caller, beside any other,
\* even if database/sql closed the cursor itself at the end of the rows. The
\* exceptions are a panic, and what database/sql keeps to itself: the error of
\* closing after an error of the driver, which the caller is told, and that of
\* the goroutine that closes after a cancellation (scan.go:13-21).
CloseErrorsAreTold ==
  \A c \in Calls : pc[c] = "done" /\ closeFailed[c] =>
    \/ {"close", "panic"} \cap err[c] # {}
    \/ lasterr[c] = "driver" /\ "driver" \in err[c]
    \/ lasterr[c] = "ctx" /\ cancelled[c]

\* A method whose turn for a connection comes returns, also when others fail.
CallsReturn == \A c \in Calls : pc[c] # "done" ~> pc[c] = "done"
=============================================================================
