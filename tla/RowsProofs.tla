----------------------------- MODULE RowsProofs -----------------------------
(***************************************************************************)
(* Rows keeps its promises for any calls, any number of rows and any pool. *)
(* The inductive invariant Inv says of every call, apart from its type,    *)
(* how far the elements, the driver and the cursor have come together:     *)
(* Elements and Position for the results, Cursor for the errors.           *)
(*                                                                         *)
(* Scanning is Rows with more to see, and every column reaches its field   *)
(* for any structs. collectTagIndex goes through a struct field by field,  *)
(* so what is proved of it is proved of the beginnings of structs (Heads), *)
(* by induction over them: a head rests on the head without its last field *)
(* and on the structs that are embedded in it.                             *)
(***************************************************************************)
EXTENDS Scanning, SequenceLemmas

\* Every element has an address of its own and holds the row of that number.
Elements(c) ==
  pc[c] # "done" \/ err[c] = {} =>
    /\ Len(result[c]) = Len(heap[c])
    /\ \A i \in 1..Len(result[c]) : result[c][i] = i /\ heap[c][i] = i

\* How many rows were scanned at each point.
Position(c) ==
  /\ pos[c] <= total[c]
  /\ pc[c] \in {"query", "columns"} => Len(result[c]) = 0 /\ pos[c] = 0
  /\ pc[c] \in {"next", "err"} => Len(result[c]) = pos[c]
  /\ pc[c] = "scan" => Len(result[c]) + 1 = pos[c]
  /\ pc[c] \in {"next", "err"} /\ KindOf[c] = "one" => pos[c] = 0
  /\ pc[c] = "scan" /\ KindOf[c] = "one" => pos[c] = 1
  /\ pc[c] \in {"close", "done"} /\ err[c] = {} =>
       \/ Len(result[c]) = total[c]
       \/ KindOf[c] = "one" /\ Len(result[c]) = 1

\* What the cursor's errors mean.
Cursor(c) ==
  /\ pc[c] \in {"query", "done"} => closed[c]
  /\ pc[c] \in {"columns", "next", "scan"} => err[c] = {} /\ ~hitEOF[c] /\ (closed[c] => cancelled[c])
  /\ pc[c] = "err" => err[c] = {} /\ (hitEOF[c] \/ cancelled[c])
  /\ hitEOF[c] => closed[c] /\ lasterr[c] # "nil"
  /\ lasterr[c] = "EOF" => pos[c] = total[c] /\ pc[c] \in {"err", "close", "done"}
  /\ closeFailed[c] => lasterr[c] \notin {"nil", "EOF"}
  /\ ~closed[c] => lasterr[c] = "nil"
  /\ lasterr[c] = "ctx" => cancelled[c]
  /\ lasterr[c] = "close" =>
       \/ pc[c] = "err" /\ hitEOF[c]
       \/ pc[c] \in {"close", "done"} /\ ("close" \in err[c] \/ "panic" \in err[c])
  /\ lasterr[c] = "driver" =>
       \/ pc[c] = "err" /\ hitEOF[c]
       \/ pc[c] \in {"close", "done"} /\ "driver" \in err[c]
  /\ pc[c] \in {"close", "done"} /\ err[c] = {} => lasterr[c] \in {"nil", "EOF"} \/ cancelled[c]
  /\ pc[c] = "query" => err[c] = {} /\ lasterr[c] = "nil" /\ ~closeFailed[c] /\ ~hitEOF[c]

CallInv(c) == Elements(c) /\ Position(c) /\ Cursor(c)

Inv == TypeOK /\ \A c \in Calls : CallInv(c)

\* The variables of one call.
view(c) == <<pc[c], err[c], result[c], heap[c], total[c], pos[c], closed[c], lasterr[c],
             hitEOF[c], cancelled[c], closeFailed[c]>>

-----------------------------------------------------------------------------

\* No call has begun.
LEMMA InitEstablishesInv == Init => Inv
  BY KindAssumption, BoundsAssumption
     DEF Init, Inv, TypeOK, CallInv, Elements, Position, Cursor, PCs, LastErrs, Errors

\* A step of one call leaves the variables of the others alone.
LEMMA OthersKeep ==
  ASSUME Inv, NEW c \in Calls, MethodSteps(c) \/ Cancel(c) \/ AwaitDone(c),
         NEW d \in Calls, d # c
  PROVE  view(d)' = view(d)
<1> USE DEF Inv, TypeOK, view, method, cursor, Goto, Fail, CloseCursor
<1>1. CASE Query(c) \/ QueryFails(c) \/ BadDest(c) \/ Columns(c)
  BY <1>1 DEF Query, QueryFails, BadDest, Columns
<1>2. CASE NextRow(c) \/ NextEnds(c) \/ NextCancelled(c) \/ AfterNext(c)
  BY <1>2 DEF NextRow, NextEnds, NextCancelled, AfterNext
<1>3. CASE Scan(c) \/ ScanFails(c) \/ ScanPanics(c)
  BY <1>3 DEF Scan, ScanFails, ScanPanics
<1>4. CASE Close(c)
  BY <1>4 DEF Close
<1>5. CASE Cancel(c) \/ AwaitDone(c)
  BY <1>5 DEF Cancel, AwaitDone
<1>6. QED
  BY <1>1, <1>2, <1>3, <1>4, <1>5 DEF MethodSteps

\* A cursor that was just opened has handed out nothing.
LEMMA QueryKeeps ==
  ASSUME Inv, NEW c \in Calls, Query(c)
  PROVE  TypeOK' /\ CallInv(c)'
<1> USE KindAssumption, BoundsAssumption
        DEF Inv, TypeOK, PCs, LastErrs, Errors, Query, method, cursor, Goto, Fail
<1>1. TypeOK'
  OBVIOUS
<1>2. Elements(c)'
  BY DEF CallInv, Elements, Position, Cursor
<1>3. Position(c)'
  BY DEF CallInv, Elements, Position, Cursor
<1>4. Cursor(c)'
  BY DEF CallInv, Position, Cursor
<1>5. QED
  BY <1>2, <1>1, <1>3, <1>4 DEF CallInv

\* A query that fails opens no cursor.
LEMMA QueryFailsKeeps ==
  ASSUME Inv, NEW c \in Calls, QueryFails(c)
  PROVE  TypeOK' /\ CallInv(c)'
<1> USE KindAssumption, BoundsAssumption
        DEF Inv, TypeOK, PCs, LastErrs, Errors, QueryFails, method, cursor, Goto, Fail
<1>1. TypeOK'
  OBVIOUS
<1>2. Elements(c)'
  BY DEF CallInv, Elements, Position, Cursor
<1>3. Position(c)'
  BY DEF CallInv, Elements, Position, Cursor
<1>4. Cursor(c)'
  BY DEF CallInv, Position, Cursor
<1>5. QED
  BY <1>2, <1>1, <1>3, <1>4 DEF CallInv

\* A destination that ScanRows refuses ends with an error.
LEMMA BadDestKeeps ==
  ASSUME Inv, NEW c \in Calls, BadDest(c)
  PROVE  TypeOK' /\ CallInv(c)'
<1> USE KindAssumption, BoundsAssumption
        DEF Inv, TypeOK, PCs, LastErrs, Errors, BadDest, method, cursor, Goto, Fail
<1>1. TypeOK'
  OBVIOUS
<1>2. Elements(c)'
  BY DEF CallInv, Elements, Position, Cursor
<1>3. Position(c)'
  BY DEF CallInv, Elements, Position, Cursor
<1>4. Cursor(c)'
  BY DEF CallInv, Position, Cursor
<1>5. QED
  BY <1>2, <1>1, <1>3, <1>4 DEF CallInv

\* A cursor that is closed this early was cancelled.
LEMMA ColumnsKeeps ==
  ASSUME Inv, NEW c \in Calls, Columns(c)
  PROVE  TypeOK' /\ CallInv(c)'
<1> USE KindAssumption, BoundsAssumption
        DEF Inv, TypeOK, PCs, method, cursor, Goto
<1>1. CASE closed[c]
  <2>1. /\ pc' = [pc EXCEPT ![c] = "close"] /\ err' = [err EXCEPT ![c] = {"own"}]
        /\ UNCHANGED <<result, heap, cursor>> /\ pc[c] = "columns"
    BY <1>1 DEF Columns, Fail
  <2>2. {"own"} \in SUBSET Errors
    BY DEF Errors
  <2>3. TypeOK' /\ pc'[c] = "close" /\ err'[c] = {"own"} /\ err'[c] # {}
    BY <2>1, <2>2
  <2> QED BY <2>1, <2>3 DEF CallInv, Elements, Position, Cursor
<1>2. CASE ~closed[c]
  <2>1. pc' = [pc EXCEPT ![c] = "next"] /\ UNCHANGED <<err, result, heap, cursor>> /\ pc[c] = "columns"
    BY <1>2 DEF Columns
  <2>2. TypeOK' /\ pc'[c] = "next"
    BY <2>1
  <2> QED BY <1>2, <2>1, <2>2 DEF CallInv, Elements, Position, Cursor
<1> QED
  BY <1>1, <1>2

\* The driver is one row ahead of the elements.
LEMMA NextRowKeeps ==
  ASSUME Inv, NEW c \in Calls, NextRow(c)
  PROVE  TypeOK' /\ CallInv(c)'
<1> USE KindAssumption, BoundsAssumption
        DEF Inv, TypeOK, PCs, LastErrs, Errors, NextRow, method, cursor, Goto, Fail
<1>1. TypeOK'
  OBVIOUS
<1>2. Elements(c)'
  BY DEF CallInv, Elements, Position, Cursor
<1>3. Position(c)'
  BY DEF CallInv, Elements, Position, Cursor
<1>4. Cursor(c)'
  BY DEF CallInv, Position, Cursor
<1>5. QED
  BY <1>2, <1>1, <1>3, <1>4 DEF CallInv

\* The cursor is closed here, and only EOF says that all rows were seen.
LEMMA NextEndsKeeps ==
  ASSUME Inv, NEW c \in Calls, NextEnds(c)
  PROVE  TypeOK' /\ CallInv(c)'
<1> USE KindAssumption, BoundsAssumption
        DEF Inv, TypeOK, PCs, LastErrs, Errors, NextEnds, method, cursor, Goto, Fail, CloseCursor
<1>1. TypeOK'
  OBVIOUS
<1>2. Elements(c)'
  BY DEF CallInv, Elements, Position, Cursor
<1>3. Position(c)'
  BY DEF CallInv, Elements, Position, Cursor
<1>4. Cursor(c)'
  BY DEF CallInv, Position, Cursor
<1>5. QED
  BY <1>2, <1>1, <1>3, <1>4 DEF CallInv

\* An open loop finds a closed cursor only after a cancellation.
LEMMA NextCancelledKeeps ==
  ASSUME Inv, NEW c \in Calls, NextCancelled(c)
  PROVE  TypeOK' /\ CallInv(c)'
<1> USE KindAssumption, BoundsAssumption
        DEF Inv, TypeOK, PCs, LastErrs, Errors, NextCancelled, method, cursor, Goto, Fail
<1>1. TypeOK'
  OBVIOUS
<1>2. Elements(c)'
  BY DEF CallInv, Elements, Position, Cursor
<1>3. Position(c)'
  BY DEF CallInv, Elements, Position, Cursor
<1>4. Cursor(c)'
  BY DEF CallInv, Position, Cursor
<1>5. QED
  BY <1>2, <1>1, <1>3, <1>4 DEF CallInv

\* Without an error of the cursor all rows were seen.
LEMMA AfterNextKeeps ==
  ASSUME Inv, NEW c \in Calls, AfterNext(c)
  PROVE  TypeOK' /\ CallInv(c)'
<1> USE KindAssumption, BoundsAssumption
        DEF Inv, TypeOK, PCs, method, cursor, Goto
<1>1. CASE RowsErr(c) = "nil"
  <2>1. pc' = [pc EXCEPT ![c] = "close"] /\ UNCHANGED <<err, result, heap, cursor>> /\ pc[c] = "err"
    BY <1>1 DEF AfterNext
  <2>2. TypeOK' /\ pc'[c] = "close"
    BY <2>1
  <2> QED BY <1>1, <2>1, <2>2 DEF CallInv, Elements, Position, Cursor, RowsErr
<1>2. CASE RowsErr(c) # "nil"
  <2> DEFINE e == RowsErr(c)
  <2>1. /\ pc' = [pc EXCEPT ![c] = "close"] /\ err' = [err EXCEPT ![c] = {e}]
        /\ UNCHANGED <<result, heap, cursor>> /\ pc[c] = "err"
    BY <1>2 DEF AfterNext, Fail
  <2>2. e \in {"ctx", "driver", "close"}
    BY <1>2 DEF RowsErr, LastErrs
  <2>3. hitEOF[c] /\ lasterr[c] \in {"driver", "close"} => e = lasterr[c]
    BY DEF RowsErr
  <2> HIDE DEF e
  <2>4. {e} \in SUBSET Errors
    BY <2>2 DEF Errors
  <2>5. TypeOK' /\ pc'[c] = "close" /\ err'[c] = {e} /\ err'[c] # {} /\ e \in err'[c]
    BY <2>1, <2>4
  <2>6. Elements(c)' /\ Position(c)'
    BY <2>1, <2>5 DEF CallInv, Elements, Position, Cursor
  <2>7. Cursor(c)'
    BY <2>1, <2>3, <2>5 DEF CallInv, Cursor
  <2> QED BY <2>5, <2>6, <2>7 DEF CallInv
<1> QED
  BY <1>1, <1>2

\* A sequence that counts from one goes on counting.
LEMMA CountingOn ==
  ASSUME NEW n \in Nat, NEW s \in Seq(Nat), Len(s) = n, \A i \in 1..n : s[i] = i
  PROVE  Len(Append(s, n + 1)) = n + 1 /\ \A i \in 1..(n + 1) : Append(s, n + 1)[i] = i
<1>1. ASSUME NEW i \in 1..(n + 1) PROVE Append(s, n + 1)[i] = i
  <2>1. CASE i = n + 1
    BY <2>1
  <2>2. CASE i \in 1..n
    BY <2>2
  <2>3. QED
    BY <2>1, <2>2
<1>2. QED
  BY <1>1

\* The new element catches up with the driver.
LEMMA ScanKeeps ==
  ASSUME Inv, NEW c \in Calls, Scan(c)
  PROVE  TypeOK' /\ CallInv(c)'
<1> USE KindAssumption, BoundsAssumption
        DEF Inv, TypeOK, PCs, LastErrs, Errors, Scan, method, cursor, Goto, ScanRefused
<1> DEFINE n == Len(result[c])
<1>1. n \in Nat /\ n = Len(heap[c]) /\ n + 1 = pos[c] /\ pos[c] \in 1..MaxRows
  BY DEF CallInv, Elements, Position
<1>2. /\ heap'[c] = Append(heap[c], n + 1) /\ heap'[c] \in Seq(1..MaxRows)
      /\ Len(heap'[c]) = n + 1
  BY <1>1
<1>3. /\ result'[c] = Append(result[c], n + 1) /\ result'[c] \in Seq(1..MaxRows)
      /\ Len(result'[c]) = n + 1
  BY <1>1, <1>2
<1>4. TypeOK'
  BY <1>2, <1>3
<1>5. Elements(c)'
  <2>1. result[c] \in Seq(Nat) /\ heap[c] \in Seq(Nat)
    OBVIOUS
  <2>2. \A i \in 1..n : result[c][i] = i /\ heap[c][i] = i
    BY DEF CallInv, Elements
  <2>3. \A i \in 1..(n + 1) : result'[c][i] = i /\ heap'[c][i] = i
    BY <1>1, <1>2, <1>3, <2>1, <2>2, CountingOn
  <2>4. QED
    BY <2>3, <1>2, <1>3 DEF Elements
<1>6. Position(c)'
  BY <1>1, <1>3 DEF CallInv, Position, Cursor
<1>7. Cursor(c)'
  BY DEF CallInv, Position, Cursor
<1>8. QED
  BY <1>4, <1>5, <1>6, <1>7 DEF CallInv

\* A row that cannot be scanned ends with an error.
LEMMA ScanFailsKeeps ==
  ASSUME Inv, NEW c \in Calls, ScanFails(c)
  PROVE  TypeOK' /\ CallInv(c)'
<1> USE KindAssumption, BoundsAssumption
        DEF Inv, TypeOK, PCs, LastErrs, Errors, ScanFails, method, cursor, Goto, Fail
<1>1. TypeOK'
  OBVIOUS
<1>2. Elements(c)'
  BY DEF CallInv, Elements, Position, Cursor
<1>3. Position(c)'
  BY DEF CallInv, Elements, Position, Cursor
<1>4. Cursor(c)'
  BY DEF CallInv, Position, Cursor
<1>5. QED
  BY <1>2, <1>1, <1>3, <1>4 DEF CallInv

\* A panic counts as an error.
LEMMA ScanPanicsKeeps ==
  ASSUME Inv, NEW c \in Calls, ScanPanics(c)
  PROVE  TypeOK' /\ CallInv(c)'
<1> USE KindAssumption, BoundsAssumption
        DEF Inv, TypeOK, PCs, LastErrs, Errors, ScanPanics, method, cursor, Goto, Fail, ScanRefused
<1>1. TypeOK'
  OBVIOUS
<1>2. Elements(c)'
  BY DEF CallInv, Elements, Position, Cursor
<1>3. Position(c)'
  BY DEF CallInv, Elements, Position, Cursor
<1>4. Cursor(c)'
  BY DEF CallInv, Position, Cursor
<1>5. QED
  BY <1>2, <1>1, <1>3, <1>4 DEF CallInv

\* Closing returns the connection and turns its error into the method's.
LEMMA CloseKeeps ==
  ASSUME Inv, NEW c \in Calls, Close(c)
  PROVE  TypeOK' /\ CallInv(c)'
<1> USE KindAssumption, BoundsAssumption
        DEF Inv, TypeOK, PCs, LastErrs, Errors, Close, method, cursor, Goto, Fail, CloseCursor, Join
<1>1. TypeOK'
  <2>1. Returned(c, err'[c]) \in {result[c], << >>}
    BY DEF Returned
  <2>2. result' \in [Calls -> Seq(1..MaxRows)]
    <3>1. result' = [result EXCEPT ![c] = Returned(c, err'[c])]
      OBVIOUS
    <3>2. << >> \in Seq(1..MaxRows) /\ result \in [Calls -> Seq(1..MaxRows)]
      OBVIOUS
    <3>3. Returned(c, err'[c]) \in Seq(1..MaxRows)
      <4>1. result[c] \in Seq(1..MaxRows)
        BY <3>2
      <4>2. QED
        BY <2>1, <3>2, <4>1, Zenon
    <3>4. QED
      BY <3>1, <3>2, <3>3
  <2>3. err' \in [Calls -> SUBSET Errors]
    <3>1. err \in [Calls -> SUBSET Errors]
      OBVIOUS
    <3>2. CASE closed[c]
      BY <3>1, <3>2
    <3>3. CASE ~closed[c]
      <4>1. PICK failed \in BOOLEAN : err' = [err EXCEPT ![c] = Join(err[c], failed)]
        BY <3>3
      <4>2. Join(err[c], failed) \in SUBSET Errors
        BY <3>1 DEF Join
      <4>3. QED
        BY <3>1, <4>1, <4>2
    <3>4. QED
      BY <3>2, <3>3
  <2>4. lasterr' \in [Calls -> LastErrs] /\ closed' \in [Calls -> BOOLEAN]
        /\ closeFailed' \in [Calls -> BOOLEAN]
    <3>1. CASE closed[c]
      BY <3>1
    <3>2. CASE ~closed[c]
      <4>1. PICK failed \in BOOLEAN : CloseCursor(c, failed, lasterr[c])
        BY <3>2
      <4>2. QED
        BY <4>1 DEF CloseCursor
    <3>3. QED
      BY <3>1, <3>2
  <2>5. QED
    BY <2>2, <2>3, <2>4
<1>2. Elements(c)'
  BY DEF CallInv, Elements, Position, Cursor, Returned
<1>3. Position(c)'
  BY DEF CallInv, Elements, Position, Cursor, Returned
<1>4. Cursor(c)'
  <2>1. pc' = [pc EXCEPT ![c] = "done"] /\ pc'[c] = "done" /\ pc[c] = "close"
        /\ UNCHANGED <<total, pos, hitEOF, cancelled>>
    OBVIOUS
  <2>2. CASE closed[c]
    <3>1. UNCHANGED <<err, closed, lasterr, closeFailed>>
      BY <2>2
    <3> QED BY <2>1, <2>2, <3>1 DEF CallInv, Cursor
  <2>3. CASE ~closed[c]
    <3>1. PICK failed \in BOOLEAN :
            CloseCursor(c, failed, lasterr[c]) /\ err' = [err EXCEPT ![c] = Join(@, failed)]
      BY <2>3
    <3>2. lasterr[c] = "nil" /\ ~closeFailed[c] /\ ~hitEOF[c]
      BY <2>3 DEF CallInv, Cursor
    <3>3. /\ closed'[c] /\ closeFailed'[c] = failed
          /\ lasterr'[c] = IF failed THEN "close" ELSE "nil"
          /\ err'[c] = Join(err[c], failed)
      BY <3>1, <3>2
    <3>4. failed => "close" \in err'[c] \/ "panic" \in err'[c]
      BY <3>3
    <3>5. ~failed => err'[c] = err[c]
      BY <3>3
    <3>6. failed => err'[c] # {}
      BY <3>4
    <3> QED BY <2>1, <3>2, <3>3, <3>4, <3>5, <3>6 DEF Cursor
  <2> QED BY <2>2, <2>3
<1>5. QED
  BY <1>2, <1>1, <1>3, <1>4 DEF CallInv

\* A cancellation alone only weakens what is claimed.
LEMMA CancelKeeps ==
  ASSUME Inv, NEW c \in Calls, Cancel(c)
  PROVE  TypeOK' /\ CallInv(c)'
<1> USE KindAssumption, BoundsAssumption
        DEF Inv, TypeOK, PCs, LastErrs, Errors, Cancel, method, cursor, Goto, Fail
<1>1. TypeOK'
  OBVIOUS
<1>2. Elements(c)'
  BY DEF CallInv, Elements, Position, Cursor
<1>3. Position(c)'
  BY DEF CallInv, Elements, Position, Cursor
<1>4. Cursor(c)'
  BY DEF CallInv, Position, Cursor
<1>5. QED
  BY <1>2, <1>1, <1>3, <1>4 DEF CallInv

\* The goroutine that closes the cursor acts after a cancellation only.
LEMMA AwaitDoneKeeps ==
  ASSUME Inv, NEW c \in Calls, AwaitDone(c)
  PROVE  TypeOK' /\ CallInv(c)'
<1> USE KindAssumption, BoundsAssumption
        DEF Inv, TypeOK, PCs, LastErrs, Errors, AwaitDone, method, cursor, Goto, Fail, CloseCursor
<1>1. TypeOK'
  OBVIOUS
<1>2. Elements(c)'
  BY DEF CallInv, Elements, Position, Cursor
<1>3. Position(c)'
  BY DEF CallInv, Elements, Position, Cursor
<1>4. Cursor(c)'
  BY DEF CallInv, Position, Cursor
<1>5. QED
  BY <1>2, <1>1, <1>3, <1>4 DEF CallInv

-----------------------------------------------------------------------------

\* What is said of a call depends on its variables only.
LEMMA SameView ==
  ASSUME NEW d \in Calls, CallInv(d), view(d)' = view(d)
  PROVE  CallInv(d)'
  BY DEF CallInv, Elements, Position, Cursor, view

\* A step keeps the invariant of its own call and of the others.
LEMMA StepKeepsInv ==
  ASSUME Inv, NEW c \in Calls, MethodSteps(c) \/ Cancel(c) \/ AwaitDone(c)
  PROVE  Inv'
<1>1. TypeOK' /\ CallInv(c)'
  BY QueryKeeps, QueryFailsKeeps, BadDestKeeps, ColumnsKeeps, NextRowKeeps, NextEndsKeeps,
     NextCancelledKeeps, AfterNextKeeps, ScanKeeps, ScanFailsKeeps, ScanPanicsKeeps,
     CloseKeeps, CancelKeeps, AwaitDoneKeeps
     DEF MethodSteps
<1>2. ASSUME NEW d \in Calls, d # c
      PROVE  CallInv(d)'
  BY <1>2, OthersKeep, SameView DEF Inv
<1>3. QED
  BY <1>1, <1>2 DEF Inv

\* The inductive invariant holds in every reachable state.
THEOREM Invariance == Spec => []Inv
<1>1. Inv /\ [Next]_vars => Inv'
  <2>1. CASE Next
    BY <2>1, StepKeepsInv DEF Next
  <2>2. CASE UNCHANGED vars
    BY <2>2 DEF vars, method, cursor, Inv, TypeOK, CallInv, Elements, Position, Cursor
  <2>3. QED
    BY <2>1, <2>2
<1>2. QED
  BY InitEstablishesInv, <1>1, PTL DEF Spec

\* Every reachable state is well typed.
THEOREM Typing == Spec => []TypeOK
<1>1. Inv => TypeOK
  BY DEF Inv
<1>2. QED
  BY <1>1, Invariance, PTL

\* A slice returned without an error is the whole result (scan.go:50-62), for
\* results of any length.
THEOREM NoShortResults == Spec => []CompleteOrError
<1>1. Inv => CompleteOrError
  <2>1. SUFFICES ASSUME Inv, NEW c \in Calls, Succeeded(c), KindOf[c] = "many"
                 PROVE  [i \in DOMAIN result[c] |-> heap[c][result[c][i]]] = [i \in 1..total[c] |-> i]
    BY DEF CompleteOrError
  <2>2. Len(result[c]) = total[c]
    BY <2>1 DEF Inv, CallInv, Position, Succeeded
  <2>3. \A i \in 1..Len(result[c]) : heap[c][result[c][i]] = i
    BY <2>1 DEF Inv, CallInv, Elements, Succeeded
  <2>4. DOMAIN result[c] = 1..Len(result[c])
    BY <2>1 DEF Inv, TypeOK
  <2>5. QED
    BY <2>2, <2>3, <2>4
<1>2. QED
  BY <1>1, Invariance, PTL

\* nil without an error means that there is no row (templates.go:43-48).
THEOREM NilMeansNoRow == Spec => []NotFoundIsTrue
<1>1. Inv => NotFoundIsTrue
  <2>1. SUFFICES ASSUME Inv, NEW c \in Calls, Succeeded(c), KindOf[c] = "one"
                 PROVE  IF result[c] = << >> THEN total[c] = 0 ELSE heap[c][result[c][1]] = 1
    BY DEF NotFoundIsTrue
  <2>2. result[c] \in Seq(1..MaxRows) /\ total[c] \in Nat
    BY <2>1, BoundsAssumption DEF Inv, TypeOK
  <2>3. Len(result[c]) = total[c] \/ Len(result[c]) = 1
    BY <2>1 DEF Inv, CallInv, Position, Succeeded
  <2>4. \A i \in 1..Len(result[c]) : result[c][i] = i /\ heap[c][i] = i
    BY <2>1 DEF Inv, CallInv, Elements, Succeeded
  <2>5. CASE result[c] = << >>
    BY <2>2, <2>3, <2>5
  <2>6. CASE result[c] # << >>
    <3>1. Len(result[c]) \in Nat /\ Len(result[c]) # 0
      BY <2>2, <2>6
    <3>2. QED
      BY <3>1, <2>4, <2>6
  <2>7. QED
    BY <2>5, <2>6
<1>2. QED
  BY <1>1, Invariance, PTL

\* No method keeps a connection beyond its end, however it ends.
THEOREM ConnectionsComeBack == Spec => []ConnectionIsReleased
<1>1. Inv => ConnectionIsReleased
  BY DEF Inv, CallInv, Cursor, ConnectionIsReleased
<1>2. QED
  BY <1>1, Invariance, PTL

\* An error of closing reaches the caller, beside any other, unless the method
\* panics or database/sql keeps it to itself (scan.go:13-21).
THEOREM CloseErrorsReachTheCaller == Spec => []CloseErrorsAreTold
<1>1. Inv => CloseErrorsAreTold
  BY DEF Inv, TypeOK, LastErrs, CallInv, Cursor, CloseErrorsAreTold
<1>2. QED
  BY <1>1, Invariance, PTL

-----------------------------------------------------------------------------
(* Struct types. *)

\* All the fields.
Field == UNION {ToSet(Structs[k]) : k \in DOMAIN Structs}

\* The beginnings of a struct.
Begin(k, n) == SubSeq(Structs[k], 1, n)
HeadsOf(k) == {Begin(k, n) : n \in 0..Len(Structs[k])}

\* A struct is a sequence, and its beginnings are.
LEMMA StructTyped ==
  ASSUME NEW k \in DOMAIN Structs
  PROVE  /\ Structs[k] \in Seq(Field) /\ k \in 1..Len(Structs) /\ Len(Structs) \in Nat
         /\ \A n \in 0..Len(Structs[k]) :
              LET h == Begin(k, n)
              IN  /\ h \in Seq(Field) /\ Len(h) = n /\ h \in HeadsOf(k)
                  /\ \A i \in 1..n : h[i] = Structs[k][i]
         /\ Structs[k] \in HeadsOf(k)
PROOF
  <1>1. Structs \in Seq(ToSet(Structs)) /\ Structs[k] \in Seq(ToSet(Structs[k]))
    BY StructsAssumption
  <1>2. k \in 1..Len(Structs) /\ Len(Structs) \in Nat
    BY <1>1, LenProperties
  <1>3. Structs[k] \in Seq(Field)
    <2>1. ToSet(Structs[k]) \subseteq Field
      BY DEF Field
    <2> QED BY <1>1, <2>1
  <1> DEFINE s == Structs[k]
  <1> HIDE DEF s
  <1>4. s \in Seq(Field) /\ Len(s) \in Nat
    BY <1>3 DEF s
  <1>5. ASSUME NEW n \in 0..Len(s)
        PROVE  /\ SubSeq(s, 1, n) \in Seq(Field) /\ Len(SubSeq(s, 1, n)) = n
               /\ \A i \in 1..n : SubSeq(s, 1, n)[i] = s[i]
    <2>1. 1 \in 1..Len(s) + 1
      BY <1>4
    <2>2. /\ SubSeq(s, 1, n) \in Seq(Field)
          /\ Len(SubSeq(s, 1, n)) = IF 1 <= n THEN n - 1 + 1 ELSE 0
          /\ \A i \in 1..n - 1 + 1 : SubSeq(s, 1, n)[i] = s[1 + i - 1]
      BY <1>4, <2>1, PartOf
    <2> QED BY <1>4, <2>2
  <1>6. SubSeq(s, 1, Len(s)) = s
    BY <1>4, SubSeqFull
  <1>7. s \in HeadsOf(k)
    <2>1. Begin(k, Len(s)) = s /\ Len(s) \in 0..Len(s)
      BY <1>4, <1>6 DEF Begin, s
    <2> QED BY <2>1 DEF HeadsOf, s
  <1>8. ASSUME NEW n \in 0..Len(s) PROVE Begin(k, n) = SubSeq(s, 1, n) /\ Begin(k, n) \in HeadsOf(k)
    <2>1. Begin(k, n) = SubSeq(s, 1, n)
      BY DEF Begin, s
    <2> QED BY <2>1 DEF HeadsOf, s
  <1> QED BY <1>2, <1>4, <1>5, <1>7, <1>8 DEF s

\* What the tag index of X's structs rests on is in X.
Closed(X) == \A h \in X : h # << >> =>
               /\ Front(h) \in X
               /\ \A i \in Embeddings(h) : h[i].fields \in X

\* A head is a sequence of fields.
LEMMA HeadTyped ==
  ASSUME NEW h \in Heads
  PROVE  /\ h \in Seq(Field) /\ Len(h) \in Nat /\ DOMAIN h = 1..Len(h)
         /\ \E k \in DOMAIN Structs : h \in HeadsOf(k)
PROOF
  <1>1. PICK k \in DOMAIN Structs : h \in HeadsOf(k)
    BY DEF Heads, HeadsOf, Begin
  <1>2. PICK n \in 0..Len(Structs[k]) : h = Begin(k, n)
    BY <1>1 DEF HeadsOf
  <1>3. h \in Seq(Field)
    BY <1>2, StructTyped
  <1> QED BY <1>1, <1>3, LenProperties

\* The beginnings of the first n structs, and those of the next one that are
\* shorter than k.
HeadsTo(n) == UNION {HeadsOf(k) : k \in 1..n}
Grown(n, k) == HeadsTo(n) \cup {Begin(n + 1, j) : j \in {i \in Nat : i < k}}

\* Of a head the next one is made of.
LEMMA NextHead ==
  ASSUME NEW n \in Nat, n + 1 \in DOMAIN Structs, NEW k \in 0..Len(Structs[n + 1])
  PROVE  LET h == Begin(n + 1, k)
         IN  h # << >> => /\ Front(h) \in Grown(n, k)
                          /\ \A i \in Embeddings(h) : h[i].fields \in Grown(n, k)
PROOF
  <1> DEFINE s == Structs[n + 1]
             h == Begin(n + 1, k)
  <1>1. /\ h \in Seq(Field) /\ Len(h) = k /\ \A i \in 1..k : h[i] = s[i]
        /\ s \in Seq(Field)
    BY StructTyped
  <1> SUFFICES ASSUME h # << >>
               PROVE  Front(h) \in Grown(n, k) /\ \A i \in Embeddings(h) : h[i].fields \in Grown(n, k)
    OBVIOUS
  <1>2. k \in 1..Len(s) /\ k - 1 \in 0..Len(s) /\ Len(s) \in Nat
    <2> HIDE DEF h, s
    <2>1. Len(h) # 0
      BY <1>1, EmptySeq
    <2> QED BY <1>1, <2>1 DEF s
  <1>3. Front(h) = Begin(n + 1, k - 1)
    <2>1. /\ Front(h) \in Seq(Field) /\ Len(Front(h)) = k - 1
          /\ \A i \in 1..(k - 1) : Front(h)[i] = h[i]
      <3> HIDE DEF h
      <3> QED BY <1>1, FrontIsShorter
    <2>2. /\ Begin(n + 1, k - 1) \in Seq(Field) /\ Len(Begin(n + 1, k - 1)) = k - 1
          /\ \A i \in 1..(k - 1) : Begin(n + 1, k - 1)[i] = s[i]
      BY <1>2, StructTyped
    <2>3. \A i \in 1..(k - 1) : h[i] = s[i]
      BY <1>1, <1>2
    <2> DEFINE u == Front(h)
               v == Begin(n + 1, k - 1)
    <2> HIDE DEF u, v, h, s
    <2>4. u \in Seq(Field) /\ v \in Seq(Field) /\ Len(u) = Len(v) /\ \A i \in 1..Len(u) : u[i] = v[i]
      BY <2>1, <2>2, <2>3 DEF u, v
    <2> QED BY <2>4, SeqEqual DEF u, v
  <1>4. Front(h) \in Grown(n, k)
    <2> HIDE DEF h
    <2>1. k - 1 \in {i \in Nat : i < k}
      BY <1>2
    <2> QED BY <1>3, <2>1 DEF Grown
  <1>5. ASSUME NEW i \in Embeddings(h) PROVE h[i].fields \in Grown(n, k)
    <2>1. i \in 1..k /\ h[i].embedded
      <3> HIDE DEF h
      <3> QED BY <1>1, LenProperties DEF Embeddings
    <2>2. h[i] = s[i] /\ i \in DOMAIN s
      <3> HIDE DEF h, s
      <3> QED BY <1>1, <1>2, <2>1, LenProperties
    <2>3. PICK j \in 1..n : h[i].fields = Structs[j]
      <3>1. \E j \in 1..(n + 1 - 1) : s[i].fields = Structs[j]
        <4> HIDE DEF h
        <4> QED BY <2>1, <2>2, StructsAssumption
      <3>2. n + 1 - 1 = n
        OBVIOUS
      <3> HIDE DEF h, s
      <3> QED BY <2>2, <3>1, <3>2
    <2>4. j \in DOMAIN Structs
      <3>1. n + 1 \in 1..Len(Structs) /\ DOMAIN Structs = 1..Len(Structs) /\ Len(Structs) \in Nat
        BY StructTyped, StructsAssumption, LenProperties
      <3> QED BY <3>1
    <2>5. Structs[j] \in HeadsOf(j)
      BY <2>4, StructTyped
    <2> HIDE DEF h
    <2> QED BY <2>3, <2>5 DEF Grown, HeadsTo
  <1> QED BY <1>4, <1>5

\* Heads are got one by one, each from what it rests on.
LEMMA HeadsGrow ==
  ASSUME NEW Done, {} \in Done,
         \A X \in Done, h \in Heads :
           /\ X \subseteq Heads /\ Closed(X) /\ Closed(X \cup {h})
           /\ h # << >> => Front(h) \in X /\ \A i \in Embeddings(h) : h[i].fields \in X
           => X \cup {h} \in Done
  PROVE  Heads \in Done /\ Closed(Heads)
PROOF
  <1> DEFINE Fine(X) == X \in Done /\ X \subseteq Heads /\ Closed(X)
             N == {n \in Nat : n <= Len(Structs) => Fine(HeadsTo(n))}
  <1>1. Len(Structs) \in Nat /\ DOMAIN Structs = 1..Len(Structs)
    BY StructsAssumption, LenProperties
  <1>2. 0 \in N
    <2>1. HeadsTo(0) = {}
      BY DEF HeadsTo
    <2> QED BY <2>1 DEF Closed
  <1>3. ASSUME NEW n \in Nat, n \in N PROVE n + 1 \in N
    <2> SUFFICES ASSUME n + 1 <= Len(Structs) PROVE Fine(HeadsTo(n + 1))
      OBVIOUS
    <2>1. n + 1 \in DOMAIN Structs /\ Fine(HeadsTo(n))
      BY <1>1, <1>3
    <2> DEFINE s == Structs[n + 1]
               K == {k \in Nat : k <= Len(s) + 1 => Fine(Grown(n, k))}
    <2>2. Len(s) \in Nat
      BY <2>1, StructTyped, LenProperties
    <2>3. 0 \in K
      <3>1. Grown(n, 0) = HeadsTo(n)
        BY DEF Grown
      <3> QED BY <2>1, <3>1
    <2>4. ASSUME NEW k \in Nat, k \in K PROVE k + 1 \in K
      <3> SUFFICES ASSUME k + 1 <= Len(s) + 1 PROVE Fine(Grown(n, k + 1))
        OBVIOUS
      <3> DEFINE h == Begin(n + 1, k)
      <3>1. k \in 0..Len(s) /\ Fine(Grown(n, k))
        BY <2>2, <2>4
      <3>2. Grown(n, k + 1) = Grown(n, k) \cup {h}
        <4>1. {i \in Nat : i < k + 1} = {i \in Nat : i < k} \cup {k}
          OBVIOUS
        <4> QED BY <4>1 DEF Grown
      <3>3. h \in Heads
        BY <2>1, <3>1 DEF Heads, Begin
      <3>4. h # << >> => /\ Front(h) \in Grown(n, k)
                         /\ \A i \in Embeddings(h) : h[i].fields \in Grown(n, k)
        BY <2>1, <3>1, NextHead
      <3> HIDE DEF h
      <3>5. Closed(Grown(n, k) \cup {h})
        BY <3>1, <3>4 DEF Closed
      <3>6. Grown(n, k) \cup {h} \in Done
        BY <3>1, <3>3, <3>4, <3>5
      <3> QED BY <3>1, <3>2, <3>3, <3>5, <3>6
    <2>5. Len(s) + 1 \in K
      <3> HIDE DEF K
      <3>1. Nat \subseteq K
        BY <2>3, <2>4, Induction
      <3> QED BY <2>2, <3>1
    <2>6. Grown(n, Len(s) + 1) = HeadsTo(n + 1)
      <3>1. 1..n + 1 = (1..n) \cup {n + 1}
        OBVIOUS
      <3>2. HeadsTo(n + 1) = HeadsTo(n) \cup HeadsOf(n + 1)
        BY <3>1 DEF HeadsTo
      <3>3. {i \in Nat : i < Len(s) + 1} = 0..Len(s)
        BY <2>2
      <3> QED BY <3>2, <3>3 DEF Grown, HeadsOf
    <2> QED BY <2>2, <2>5, <2>6
  <1>4. Len(Structs) \in N
    <2> HIDE DEF N
    <2>1. Nat \subseteq N
      BY <1>2, <1>3, Induction
    <2> QED BY <1>1, <2>1
  <1>5. HeadsTo(Len(Structs)) = Heads
    BY <1>1 DEF HeadsTo, Heads, HeadsOf, Begin
  <1> QED BY <1>1, <1>4, <1>5

\* Heads are closed.
LEMMA HeadsClosed == Closed(Heads)
PROOF
  <1> DEFINE Done == SUBSET Heads
  <1>1. {} \in Done /\ \A X \in Done, h \in Heads : X \cup {h} \in Done
    OBVIOUS
  <1> HIDE DEF Done
  <1> QED BY <1>1, HeadsGrow

\* Induction over them.
LEMMA HeadInduction ==
  ASSUME NEW P,
         \A h \in Heads :
           (h # << >> => Front(h) \in P /\ \A i \in Embeddings(h) : h[i].fields \in P) => h \in P
  PROVE  Heads \subseteq P
PROOF
  <1> DEFINE Done == SUBSET P
  <1>1. {} \in Done
    OBVIOUS
  <1>2. ASSUME NEW X \in Done, NEW h \in Heads,
               h # << >> => Front(h) \in X /\ \A i \in Embeddings(h) : h[i].fields \in X
        PROVE  X \cup {h} \in Done
    <2>1. h # << >> => Front(h) \in P /\ \A i \in Embeddings(h) : h[i].fields \in P
      BY <1>2
    <2>2. h \in P
      BY <2>1
    <2> QED BY <2>2
  <1> HIDE DEF Done
  <1>3. Heads \in Done
    BY <1>1, <1>2, HeadsGrow
  <1> QED BY <1>3 DEF Done

-----------------------------------------------------------------------------
(* The two recursive functions. *)

\* A step of collectTagIndex whose calls are answered by F.
Collected(F, fields) ==
  [prefix \in Paths |-> [m \in Indexes |->
    IF fields = << >> THEN m
    ELSE LET f == Last(fields)
             idx == FieldIndex(prefix, Len(fields))
             sofar == F[Front(fields)][prefix][m]
         IN  IF f.embedded THEN F[f.fields][idx][sofar]
             ELSE IF ~Tagged(f) THEN sofar
             ELSE Entered(sofar, f.tag[1], idx)]]

\* A step of Fields likewise.
Under(i, p) == <<i>> \o p
Deeper(i, paths) == {Under(i, p) : p \in paths}

LeavesBy(F, type) ==
  {<<i>> : i \in DOMAIN type \ Embeddings(type)}
    \cup (UNION {Deeper(i, DOMAIN F[type[i].fields]) : i \in Embeddings(type)})

FieldsBy(F, type) ==
  [path \in LeavesBy(F, type) |->
     LET f == type[path[1]]
     IN  IF f.embedded THEN F[f.fields][Tail(path)] ELSE f]

\* F and G answer the calls for h in the same way.
Agree(F, G, h) ==
  h # << >> => F[Front(h)] = G[Front(h)] /\ \A i \in Embeddings(h) : F[h[i].fields] = G[h[i].fields]

\* The last field, if it is an embedded struct.
LEMMA LastEmbedded ==
  ASSUME NEW h \in Heads, h # << >>
  PROVE  /\ Len(h) \in DOMAIN h /\ Last(h) = h[Len(h)]
         /\ Last(h).embedded <=> Len(h) \in Embeddings(h)
PROOF
  <1>1. h \in Seq(Field) /\ Len(h) \in Nat /\ DOMAIN h = 1..Len(h)
    BY HeadTyped
  <1>2. Len(h) # 0
    BY <1>1, EmptySeq
  <1>3. Len(h) \in DOMAIN h
    BY <1>1, <1>2
  <1>4. Last(h) = h[Len(h)]
    BY DEF Last
  <1> QED BY <1>3, <1>4 DEF Embeddings

\* A step depends on the calls it makes only.
LEMMA CollectedLocal ==
  ASSUME NEW F, NEW G, NEW h \in Heads, Agree(F, G, h)
  PROVE  Collected(F, h) = Collected(G, h)
PROOF
  <1>1. CASE h = << >>
    BY <1>1 DEF Collected
  <1>2. CASE h # << >>
    <2>1. F[Front(h)] = G[Front(h)]
      BY <1>2 DEF Agree
    <2>2. CASE Last(h).embedded
      <3>1. Len(h) \in Embeddings(h) /\ Last(h) = h[Len(h)]
        BY <1>2, <2>2, LastEmbedded
      <3>2. F[Last(h).fields] = G[Last(h).fields]
        BY <1>2, <3>1 DEF Agree
      <3> QED BY <1>2, <2>1, <2>2, <3>2 DEF Collected
    <2>3. CASE ~Last(h).embedded
      BY <1>2, <2>1, <2>3 DEF Collected
    <2> QED BY <2>2, <2>3
  <1> QED BY <1>1, <1>2

\* On what is embedded they agree even if h has no fields.
LEMMA AgreeFields ==
  ASSUME NEW F, NEW G, NEW h \in Heads, Agree(F, G, h), NEW i \in Embeddings(h)
  PROVE  F[h[i].fields] = G[h[i].fields]
PROOF
  <1>1. h # << >>
    BY DEF Embeddings
  <1> QED BY <1>1 DEF Agree

\* A path of one step.
LEMMA OneStep ==
  ASSUME NEW i \in Nat
  PROVE  <<i>> \in Paths /\ <<i>>[1] = i /\ Len(<<i>>) = 1 /\ << >> \in Paths
PROOF
  BY DEF Paths

\* A path in the struct that is embedded at i.
LEMMA UnderPath ==
  ASSUME NEW i \in Nat, NEW p \in Paths
  PROVE  /\ Under(i, p) \in Paths /\ Under(i, p)[1] = i /\ Len(Under(i, p)) = Len(p) + 1
         /\ Tail(Under(i, p)) = p
         /\ \A j \in DOMAIN p : Under(i, p)[j + 1] = p[j]
PROOF
  <1> DEFINE w == Under(i, p)
  <1>1. p \in Seq(Nat) /\ Len(p) \in Nat /\ DOMAIN p = 1..Len(p)
    BY LenProperties DEF Paths
  <1>2. PICK u \in Seq(Nat) : u = <<i>> /\ Len(u) = 1 /\ u[1] = i
    BY OneStep DEF Paths
  <1>3. w = u \o p
    BY <1>2 DEF Under
  <1>4. /\ u \o p \in Seq(Nat) /\ Len(u \o p) = Len(u) + Len(p)
        /\ \A j \in 1..Len(u) + Len(p) : (u \o p)[j] = IF j <= Len(u) THEN u[j] ELSE p[j - Len(u)]
    BY <1>1, ConcatProperties
  <1> HIDE DEF w
  <1>5. /\ w \in Seq(Nat) /\ Len(w) = 1 + Len(p)
        /\ \A j \in 1..1 + Len(p) : w[j] = IF j <= 1 THEN u[j] ELSE p[j - 1]
    BY <1>2, <1>3, <1>4
  <1>6. w[1] = i /\ \A j \in DOMAIN p : w[j + 1] = p[j]
    <2>1. 1 \in 1..1 + Len(p) /\ \A j \in DOMAIN p : j + 1 \in 1..1 + Len(p) /\ ~(j + 1 <= 1) /\ j + 1 - 1 = j
      BY <1>1
    <2> QED BY <1>2, <1>5, <2>1
  <1>7. Tail(w) = p
    <2>1. w # << >>
      BY <1>1, <1>5, EmptySeq
    <2>2. /\ Tail(w) \in Seq(Nat) /\ Len(Tail(w)) = Len(w) - 1
          /\ \A j \in 1..Len(Tail(w)) : Tail(w)[j] = w[j + 1]
      BY <1>5, <2>1, HeadTailProperties
    <2>3. PICK v \in Seq(Nat) : v = Tail(w) /\ Len(v) = Len(w) - 1 /\ \A j \in 1..Len(v) : v[j] = w[j + 1]
      BY <2>2
    <2>4. Len(v) = Len(p)
      BY <1>1, <1>5, <2>3
    <2>5. \A j \in 1..Len(v) : v[j] = p[j]
      BY <1>1, <1>6, <2>3, <2>4
    <2> QED BY <1>1, <2>3, <2>4, <2>5, SeqEqual
  <1>8. Len(w) = Len(p) + 1
    BY <1>1, <1>5
  <1> QED BY <1>5, <1>6, <1>7, <1>8 DEF Paths, w

\* What F has for embedded structs are paths.
EmbeddedTyped(F, h) == \A i \in Embeddings(h) : DOMAIN F[h[i].fields] \subseteq Paths

\* Then a step of Fields has paths, which begin at a field.
LEMMA LeavesTyped ==
  ASSUME NEW F, NEW h \in Heads, EmbeddedTyped(F, h)
  PROVE  \A path \in LeavesBy(F, h) : path \in Paths /\ path[1] \in DOMAIN h
PROOF
  <1>1. ASSUME NEW i \in DOMAIN h PROVE <<i>> \in Paths /\ <<i>>[1] = i
    <2>1. i \in Nat
      BY HeadTyped
    <2> QED BY <2>1, OneStep
  <1>2. ASSUME NEW i \in Embeddings(h), NEW path \in Deeper(i, DOMAIN F[h[i].fields])
        PROVE  path \in Paths /\ path[1] = i /\ i \in DOMAIN h
    <2>1. PICK p \in DOMAIN F[h[i].fields] : path = Under(i, p)
      BY <1>2 DEF Deeper
    <2>2. p \in Paths /\ i \in DOMAIN h /\ i \in Nat
      BY HeadTyped DEF EmbeddedTyped, Embeddings
    <2>3. Under(i, p) \in Paths /\ Under(i, p)[1] = i
      BY <2>2, UnderPath
    <2> QED BY <2>1, <2>2, <2>3
  <1> QED BY <1>1, <1>2 DEF LeavesBy

\* And it depends on the calls it makes only.
LEMMA FieldsLocal ==
  ASSUME NEW F, NEW G, NEW h \in Heads, Agree(F, G, h), EmbeddedTyped(F, h)
  PROVE  FieldsBy(F, h) = FieldsBy(G, h)
PROOF
  <1>1. \A i \in Embeddings(h) : F[h[i].fields] = G[h[i].fields]
    BY AgreeFields
  <1>2. LeavesBy(F, h) = LeavesBy(G, h)
    <2>1. \A i \in Embeddings(h) : Deeper(i, DOMAIN F[h[i].fields]) = Deeper(i, DOMAIN G[h[i].fields])
      BY <1>1
    <2> QED BY <2>1 DEF LeavesBy
  <1>3. \A path \in LeavesBy(F, h) : h[path[1]].embedded => path[1] \in Embeddings(h)
    BY LeavesTyped DEF Embeddings
  <1> QED BY <1>1, <1>2, <1>3 DEF FieldsBy

\* With h added, F answers it as well.
With(F, h, v) == [x \in Heads |-> IF x = h THEN v ELSE F[x]]

\* What is closed without h does not rest on it.
LEMMA WithAgrees ==
  ASSUME NEW h \in Heads, NEW X \in SUBSET Heads, Closed(X), h \notin X, NEW x \in X, NEW F, NEW v
  PROVE  Agree(F, With(F, h, v), x) /\ With(F, h, v)[x] = F[x]
PROOF
  <1>1. \A y \in X : With(F, h, v)[y] = F[y]
    BY DEF With
  <1>2. x # << >> => Front(x) \in X /\ \A i \in Embeddings(x) : x[i].fields \in X
    BY DEF Closed
  <1> QED BY <1>1, <1>2 DEF Agree

\* h rests on X only.
LEMMA WithAgreesAt ==
  ASSUME NEW F, NEW h \in Heads, NEW v, NEW X, X \subseteq Heads, h \notin X,
         h # << >> => Front(h) \in X /\ \A i \in Embeddings(h) : h[i].fields \in X
  PROVE  Agree(F, With(F, h, v), h) /\ With(F, h, v)[h] = v
PROOF
  <1>1. \A y \in X : With(F, h, v)[y] = F[y]
    BY DEF With
  <1> QED BY <1>1 DEF Agree, With

\* There is a function that collects.
LEMMA CollectExists == \E F : F = [h \in Heads |-> Collected(F, h)]
PROOF
  <1> DEFINE Done == {X \in SUBSET Heads : \E F : \A x \in X : F[x] = Collected(F, x)}
  <1>1. {} \in Done
    OBVIOUS
  <1>2. ASSUME NEW X \in Done, NEW h \in Heads, Closed(X),
               h # << >> => Front(h) \in X /\ \A i \in Embeddings(h) : h[i].fields \in X
        PROVE  X \cup {h} \in Done
    <2>1. CASE h \in X
      <3>1. X \cup {h} = X
        BY <2>1
      <3> QED BY <3>1
    <2>2. CASE h \notin X
      <3>1. PICK F : \A x \in X : F[x] = Collected(F, x)
        OBVIOUS
      <3> DEFINE G == With(F, h, Collected(F, h))
      <3>2. ASSUME NEW x \in X PROVE G[x] = Collected(G, x)
        <4>1. Agree(F, G, x) /\ G[x] = F[x]
          BY <1>2, <2>2, WithAgrees
        <4>2. Collected(F, x) = Collected(G, x)
          <5> HIDE DEF G
          <5> QED BY <4>1, CollectedLocal
        <4> QED BY <3>1, <4>1, <4>2
      <3>3. G[h] = Collected(G, h)
        <4>1. Agree(F, G, h) /\ G[h] = Collected(F, h)
          BY <1>2, <2>2, WithAgreesAt
        <4>2. Collected(F, h) = Collected(G, h)
          <5> HIDE DEF G
          <5> QED BY <4>1, CollectedLocal
        <4> QED BY <4>1, <4>2
      <3> HIDE DEF G
      <3>4. \A x \in X \cup {h} : G[x] = Collected(G, x)
        BY <3>2, <3>3
      <3> QED BY <3>4
    <2> QED BY <2>1, <2>2
  <1> HIDE DEF Done
  <1>3. Heads \in Done
    BY <1>1, <1>2, HeadsGrow
  <1>4. PICK F : \A x \in Heads : F[x] = Collected(F, x)
    BY <1>3 DEF Done
  <1> DEFINE G == [x \in Heads |-> F[x]]
  <1>5. ASSUME NEW h \in Heads PROVE G[h] = Collected(G, h)
    <2>1. \A y \in Heads : F[y] = G[y]
      OBVIOUS
    <2>2. h # << >> => Front(h) \in Heads /\ \A i \in Embeddings(h) : h[i].fields \in Heads
      BY HeadsClosed DEF Closed
    <2> HIDE DEF G
    <2>3. Agree(F, G, h)
      BY <2>1, <2>2 DEF Agree
    <2>4. Collected(F, h) = Collected(G, h)
      BY <2>3, CollectedLocal
    <2> QED BY <1>4, <2>1, <2>4
  <1>6. G = [h \in Heads |-> Collected(G, h)]
    BY <1>5
  <1> QED BY <1>6

\* collectTagIndex does.
LEMMA CollectIs ==
  ASSUME NEW h \in Heads
  PROVE  collectTagIndex[h] = Collected(collectTagIndex, h)
PROOF
  <1>1. PICK F : F = [x \in Heads |-> Collected(F, x)]
    BY CollectExists
  <1>2. collectTagIndex = [x \in Heads |-> Collected(collectTagIndex, x)]
    BY <1>1 DEF collectTagIndex, Collected
  <1> QED BY <1>2

\* There is a function that gives the fields of every head.
LEMMA FieldsExists ==
  \E F : F = [h \in Heads |-> FieldsBy(F, h)] /\ \A h \in Heads : DOMAIN F[h] \subseteq Paths
PROOF
  <1> DEFINE Has(F, x) == F[x] = FieldsBy(F, x) /\ DOMAIN F[x] \subseteq Paths
             Done == {X \in SUBSET Heads : \E F : \A x \in X : Has(F, x)}
  <1>1. {} \in Done
    OBVIOUS
  <1>0. ASSUME NEW F, NEW h \in Heads, EmbeddedTyped(F, h)
        PROVE  DOMAIN FieldsBy(F, h) \subseteq Paths
    BY <1>0, LeavesTyped DEF FieldsBy
  <1>2. ASSUME NEW X \in Done, NEW h \in Heads, Closed(X),
               h # << >> => Front(h) \in X /\ \A i \in Embeddings(h) : h[i].fields \in X
        PROVE  X \cup {h} \in Done
    <2>1. CASE h \in X
      <3>1. X \cup {h} = X
        BY <2>1
      <3> QED BY <3>1
    <2>2. CASE h \notin X
      <3>0. X \in SUBSET Heads
        OBVIOUS
      <3>1. PICK F : \A x \in X : Has(F, x)
        OBVIOUS
      <3> DEFINE v == FieldsBy(F, h)
      <3> HIDE DEF v
      <3> DEFINE G == With(F, h, v)
      <3>2. ASSUME NEW x \in X PROVE Has(G, x)
        <4>1. Agree(F, G, x) /\ G[x] = F[x]
          <5>1. Closed(X)
            BY <1>2
          <5> HIDE DEF Done, Has
          <5>2. Agree(F, With(F, h, v), x) /\ With(F, h, v)[x] = F[x]
            BY <2>2, <3>0, <5>1, WithAgrees, Zenon
          <5> QED BY <5>2
        <4>2. EmbeddedTyped(F, x)
          BY <1>2, <3>1 DEF Closed, Embeddings, EmbeddedTyped
        <4>3. FieldsBy(F, x) = FieldsBy(G, x)
          <5> HIDE DEF G
          <5> QED BY <4>1, <4>2, FieldsLocal
        <4> QED BY <3>1, <4>1, <4>3
      <3>3. Has(G, h)
        <4>1. Agree(F, G, h) /\ G[h] = FieldsBy(F, h)
          <5>1. Agree(F, G, h) /\ G[h] = v
            BY <1>2, <2>2, WithAgreesAt
          <5> QED BY <5>1 DEF v
        <4>2. EmbeddedTyped(F, h)
          BY <1>2, <3>1 DEF Embeddings, EmbeddedTyped
        <4>3. FieldsBy(F, h) = FieldsBy(G, h)
          <5> HIDE DEF G
          <5> QED BY <4>1, <4>2, FieldsLocal
        <4> QED BY <1>0, <4>1, <4>2, <4>3
      <3> HIDE DEF G, Has
      <3>4. \A x \in X \cup {h} : Has(G, x)
        BY <3>2, <3>3
      <3> QED BY <3>4
    <2> QED BY <2>1, <2>2
  <1> HIDE DEF Done
  <1>3. Heads \in Done
    BY <1>1, <1>2, HeadsGrow
  <1>4. PICK F : \A x \in Heads : Has(F, x)
    BY <1>3 DEF Done
  <1> DEFINE G == [x \in Heads |-> F[x]]
  <1>5. ASSUME NEW h \in Heads PROVE Has(G, h)
    <2>1. \A y \in Heads : F[y] = G[y]
      OBVIOUS
    <2>2. h # << >> => Front(h) \in Heads /\ \A i \in Embeddings(h) : h[i].fields \in Heads
      BY HeadsClosed DEF Closed
    <2> HIDE DEF G
    <2>3. Agree(F, G, h)
      BY <2>1, <2>2 DEF Agree
    <2>4. EmbeddedTyped(F, h)
      BY <1>4, <2>2 DEF Embeddings, EmbeddedTyped
    <2>5. FieldsBy(F, h) = FieldsBy(G, h)
      BY <2>3, <2>4, FieldsLocal
    <2> QED BY <1>4, <2>1, <2>5
  <1>6. G = [h \in Heads |-> FieldsBy(G, h)]
    BY <1>5
  <1> QED BY <1>5, <1>6

\* Fields does.
LEMMA FieldsIs ==
  ASSUME NEW h \in Heads
  PROVE  Fields[h] = FieldsBy(Fields, h)
PROOF
  <1>1. PICK F : F = [x \in Heads |-> FieldsBy(F, x)]
    BY FieldsExists
  <1>2. Fields = [x \in Heads |-> FieldsBy(Fields, x)]
    BY <1>1 DEF Fields, FieldsBy, LeavesBy, Deeper, Under
  <1> QED BY <1>2

-----------------------------------------------------------------------------
(* Fields of a struct. *)

\* Paths are not empty and begin at a field.
LEMMA FieldsTyped ==
  ASSUME NEW h \in Heads
  PROVE  /\ DOMAIN Fields[h] \subseteq Paths /\ EmbeddedTyped(Fields, h)
         /\ DOMAIN Fields[h] = LeavesBy(Fields, h)
         /\ \A p \in DOMAIN Fields[h] : p[1] \in DOMAIN h /\ Len(p) >= 1
PROOF
  <1> DEFINE P == {x \in Heads : DOMAIN Fields[x] \subseteq Paths}
  <1>1. ASSUME NEW x \in Heads
        PROVE  DOMAIN Fields[x] = LeavesBy(Fields, x)
    BY FieldsIs DEF FieldsBy
  <1>2. ASSUME NEW x \in Heads, EmbeddedTyped(Fields, x)
        PROVE  x \in P
    BY <1>1, <1>2, LeavesTyped
  <1>3. ASSUME NEW x \in Heads,
               x # << >> => Front(x) \in P /\ \A i \in Embeddings(x) : x[i].fields \in P
        PROVE  x \in P
    <2>1. EmbeddedTyped(Fields, x)
      BY <1>3 DEF EmbeddedTyped, Embeddings
    <2> HIDE DEF P
    <2> QED BY <1>2, <2>1
  <1>4. Heads \subseteq P
    <2> HIDE DEF P
    <2> QED BY <1>3, HeadInduction
  <1>5. EmbeddedTyped(Fields, h)
    <2>1. h # << >> => \A i \in Embeddings(h) : h[i].fields \in Heads
      BY HeadsClosed DEF Closed
    <2> QED BY <1>4, <2>1 DEF EmbeddedTyped, Embeddings
  <1>6. ASSUME NEW p \in LeavesBy(Fields, h) PROVE Len(p) >= 1
    <2>1. CASE \E i \in DOMAIN h : p = <<i>>
      BY <2>1, OneStep
    <2>2. ASSUME NEW i \in Embeddings(h), NEW q \in DOMAIN Fields[h[i].fields], p = Under(i, q)
          PROVE  Len(p) >= 1
      <3>1. i \in Nat /\ q \in Paths /\ Len(q) \in Nat
        BY <1>5, HeadTyped, LenProperties DEF EmbeddedTyped, Embeddings, Paths
      <3>2. Len(Under(i, q)) = Len(q) + 1
        BY <3>1, UnderPath
      <3> QED BY <2>2, <3>1, <3>2
    <2> QED BY <2>1, <2>2 DEF LeavesBy, Deeper
  <1> QED BY <1>1, <1>4, <1>5, <1>6, LeavesTyped

\* Without its last field.
LEMMA FrontOfHead ==
  ASSUME NEW h \in Heads, h # << >>
  PROVE  /\ Front(h) \in Heads /\ Len(h) \in Nat /\ DOMAIN h = DOMAIN Front(h) \cup {Len(h)}
         /\ \A i \in DOMAIN Front(h) : Front(h)[i] = h[i] /\ i < Len(h) /\ i \in DOMAIN h
         /\ Last(h).embedded => Last(h).fields \in Heads
         /\ Last(h) = h[Len(h)]
PROOF
  <1>1. Front(h) \in Heads /\ \A i \in Embeddings(h) : h[i].fields \in Heads
    BY HeadsClosed DEF Closed
  <1>2. h \in Seq(Field) /\ Len(h) \in Nat /\ DOMAIN h = 1..Len(h)
    BY HeadTyped
  <1>3. /\ Front(h) \in Seq(Field) /\ Len(Front(h)) = Len(h) - 1
        /\ \A i \in 1..(Len(h) - 1) : Front(h)[i] = h[i]
    BY <1>2, FrontIsShorter
  <1>4. Len(h) # 0
    BY <1>2, EmptySeq
  <1>5. DOMAIN Front(h) = 1..(Len(h) - 1)
    BY <1>3, LenProperties
  <1> QED BY <1>1, <1>2, <1>3, <1>4, <1>5, LastEmbedded

\* The paths that the last field adds.
Added(h) ==
  IF Last(h).embedded THEN Deeper(Len(h), DOMAIN Fields[Last(h).fields]) ELSE {<<Len(h)>>}

\* The fields of a head are those of its front and those added.
LEMMA LeavesAdded ==
  ASSUME NEW h \in Heads, h # << >>
  PROVE  /\ DOMAIN Fields[h] = DOMAIN Fields[Front(h)] \cup Added(h)
         /\ \A p \in DOMAIN Fields[Front(h)] : p[1] < Len(h) /\ Fields[h][p] = Fields[Front(h)][p]
PROOF
  <1> DEFINE g == Front(h)
             n == Len(h)
  <1>1. /\ g \in Heads /\ n \in Nat /\ DOMAIN h = DOMAIN g \cup {n} /\ n \notin DOMAIN g
        /\ \A i \in DOMAIN g : g[i] = h[i] /\ i < n /\ i \in DOMAIN h
        /\ Last(h) = h[n] /\ n \in DOMAIN h
    <2>1. /\ g \in Heads /\ n \in Nat /\ DOMAIN h = DOMAIN g \cup {n}
          /\ \A i \in DOMAIN g : g[i] = h[i] /\ i < n /\ i \in DOMAIN h
          /\ Last(h) = h[n]
      BY FrontOfHead
    <2> HIDE DEF g, n
    <2>2. n \notin DOMAIN g
      BY <2>1
    <2> QED BY <2>1, <2>2
  <1> HIDE DEF g, n
  <1>2. \A i \in DOMAIN g : i \in Embeddings(g) <=> i \in Embeddings(h)
    BY <1>1 DEF Embeddings
  <1>3. n \in Embeddings(h) <=> Last(h).embedded
    BY <1>1 DEF Embeddings
  <1>4. LeavesBy(Fields, h) = LeavesBy(Fields, g) \cup Added(h)
    <2>1. DOMAIN h \ Embeddings(h) = (DOMAIN g \ Embeddings(g)) \cup IF Last(h).embedded THEN {} ELSE {n}
      BY <1>1, <1>2, <1>3
    <2>2. Embeddings(h) = Embeddings(g) \cup IF Last(h).embedded THEN {n} ELSE {}
      BY <1>1, <1>2, <1>3 DEF Embeddings
    <2>3. \A i \in Embeddings(g) : g[i] = h[i]
      BY <1>1 DEF Embeddings
    <2>4. CASE Last(h).embedded
      <3>1. DOMAIN h \ Embeddings(h) = DOMAIN g \ Embeddings(g) /\ Embeddings(h) = Embeddings(g) \cup {n}
        BY <2>1, <2>2, <2>4
      <3>2. Added(h) = Deeper(n, DOMAIN Fields[h[n].fields])
        BY <1>1, <2>4 DEF Added, n
      <3> QED BY <2>3, <3>1, <3>2 DEF LeavesBy
    <2>5. CASE ~Last(h).embedded
      <3>1. DOMAIN h \ Embeddings(h) = (DOMAIN g \ Embeddings(g)) \cup {n} /\ Embeddings(h) = Embeddings(g)
        BY <2>1, <2>2, <2>5
      <3>2. Added(h) = {<<n>>}
        BY <2>5 DEF Added, n
      <3> QED BY <2>3, <3>1, <3>2 DEF LeavesBy
    <2> QED BY <2>4, <2>5
  <1>5. /\ DOMAIN Fields[h] = LeavesBy(Fields, h) /\ DOMAIN Fields[g] = LeavesBy(Fields, g)
        /\ \A p \in DOMAIN Fields[g] : p[1] \in DOMAIN g
    BY <1>1, FieldsTyped
  <1>6. ASSUME NEW p \in DOMAIN Fields[g] PROVE p[1] < n /\ Fields[h][p] = Fields[g][p]
    <2>1. p[1] \in DOMAIN g /\ p \in LeavesBy(Fields, h) /\ p \in LeavesBy(Fields, g)
      BY <1>4, <1>5
    <2>2. p[1] < n /\ g[p[1]] = h[p[1]]
      BY <1>1, <2>1
    <2>3. Fields[h] = FieldsBy(Fields, h) /\ Fields[g] = FieldsBy(Fields, g)
      BY <1>1, FieldsIs
    <2> QED BY <2>1, <2>2, <2>3 DEF FieldsBy
  <1> QED BY <1>4, <1>5, <1>6 DEF g, n

\* What the last field adds is that field, or what is embedded there.
LEMMA AddedField ==
  ASSUME NEW h \in Heads, h # << >>
  PROVE  /\ Len(h) \in Nat
         /\ Last(h).embedded =>
              \A p \in DOMAIN Fields[Last(h).fields] :
                p \in Paths /\ Fields[h][Under(Len(h), p)] = Fields[Last(h).fields][p]
         /\ ~Last(h).embedded => Fields[h][<<Len(h)>>] = Last(h)
PROOF
  <1> DEFINE n == Len(h)
  <1>1. n \in Nat /\ Last(h) = h[n] /\ n \in DOMAIN h /\ (Last(h).embedded => Last(h).fields \in Heads)
    BY FrontOfHead
  <1>2. Fields[h] = FieldsBy(Fields, h) /\ DOMAIN Fields[h] = LeavesBy(Fields, h)
    BY FieldsIs, FieldsTyped
  <1>3. Added(h) \subseteq LeavesBy(Fields, h)
    BY <1>2, LeavesAdded
  <1> HIDE DEF n
  <1>4. ASSUME Last(h).embedded, NEW p \in DOMAIN Fields[Last(h).fields]
        PROVE  p \in Paths /\ Fields[h][Under(n, p)] = Fields[Last(h).fields][p]
    <2>1. p \in Paths
      BY <1>1, <1>4, FieldsTyped
    <2>2. Under(n, p)[1] = n /\ Tail(Under(n, p)) = p
      BY <1>1, <2>1, UnderPath
    <2>3. Under(n, p) \in LeavesBy(Fields, h)
      BY <1>3, <1>4 DEF Added, Deeper, n
    <2> DEFINE w == Under(n, p)
    <2> HIDE DEF w
    <2>4. w[1] = n /\ Tail(w) = p /\ w \in LeavesBy(Fields, h)
      BY <2>2, <2>3 DEF w
    <2>5. FieldsBy(Fields, h)[w] = Fields[h[n].fields][p]
      BY <1>1, <1>4, <2>4 DEF FieldsBy
    <2> QED BY <1>1, <1>2, <2>1, <2>5 DEF w
  <1>5. ASSUME ~Last(h).embedded PROVE Fields[h][<<n>>] = Last(h)
    <2>1. <<n>>[1] = n
      BY <1>1, OneStep
    <2>2. <<n>> \in LeavesBy(Fields, h)
      BY <1>3, <1>5 DEF Added, n
    <2> QED BY <1>1, <1>2, <1>5, <2>1, <2>2 DEF FieldsBy
  <1> QED BY <1>1, <1>4, <1>5 DEF n

\* The fields of a name that the last field adds.
AddedOf(h, name) ==
  IF Last(h).embedded THEN Deeper(Len(h), FieldsOf(Last(h).fields, name))
  ELSE IF Tagged(Last(h)) /\ Last(h).tag[1] = name THEN {<<Len(h)>>} ELSE {}

\* And so for those of a name.
LEMMA FieldsOfHead ==
  ASSUME NEW h \in Heads, h # << >>, NEW name
  PROVE  FieldsOf(h, name) = FieldsOf(Front(h), name) \cup AddedOf(h, name)
PROOF
  <1> DEFINE Is(f) == Tagged(f) /\ f.tag[1] = name
  <1>1. \A t, p : p \in FieldsOf(t, name) <=> p \in DOMAIN Fields[t] /\ Is(Fields[t][p])
    BY DEF FieldsOf, Leaves, FieldAt
  <1> HIDE DEF Is
  <1>2. /\ DOMAIN Fields[h] = DOMAIN Fields[Front(h)] \cup Added(h)
        /\ \A p \in DOMAIN Fields[Front(h)] : Fields[h][p] = Fields[Front(h)][p]
    BY LeavesAdded
  <1>3. \A p : p \in AddedOf(h, name) <=> p \in Added(h) /\ Is(Fields[h][p])
    <2>1. CASE Last(h).embedded
      <3>1. \A p \in DOMAIN Fields[Last(h).fields] :
              Fields[h][Under(Len(h), p)] = Fields[Last(h).fields][p]
        BY <2>1, AddedField
      <3> DEFINE t == Last(h).fields
                 n == Len(h)
      <3> HIDE DEF t, n
      <3>2. AddedOf(h, name) = Deeper(n, FieldsOf(t, name)) /\ Added(h) = Deeper(n, DOMAIN Fields[t])
        BY <2>1 DEF AddedOf, Added, t, n
      <3>3. \A p \in DOMAIN Fields[t] : Fields[h][Under(n, p)] = Fields[t][p]
        BY <3>1 DEF t, n
      <3> QED BY <1>1, <3>2, <3>3 DEF Deeper
    <2>2. CASE ~Last(h).embedded
      <3>1. Fields[h][<<Len(h)>>] = Last(h)
        BY <2>2, AddedField
      <3> QED BY <2>2, <3>1 DEF AddedOf, Added, Is
    <2> QED BY <2>1, <2>2
  <1>4. \A p : p \in FieldsOf(h, name) <=> p \in FieldsOf(Front(h), name) \/ p \in AddedOf(h, name)
    BY <1>1, <1>2, <1>3
  <1> QED BY <1>4

\* A head without fields has none of any name.
LEMMA NoFields ==
  ASSUME NEW h \in Heads, h = << >>, NEW name
  PROVE  FieldsOf(h, name) = {}
PROOF
  <1>1. DOMAIN Fields[h] = {}
    BY FieldsTyped
  <1> QED BY <1>1 DEF FieldsOf, Leaves

\* Of a name are paths that begin at a field.
LEMMA FieldsOfTyped ==
  ASSUME NEW h \in Heads, NEW name, NEW p \in FieldsOf(h, name)
  PROVE  p \in Paths /\ p[1] \in DOMAIN h /\ 1 \in DOMAIN p
PROOF
  <1>1. p \in Paths /\ p[1] \in DOMAIN h /\ Len(p) >= 1
    BY FieldsTyped DEF FieldsOf, Leaves
  <1>2. Len(p) \in Nat /\ DOMAIN p = 1..Len(p)
    BY <1>1, LenProperties DEF Paths
  <1> QED BY <1>1, <1>2

\* Names of fields are names of the index.
LEMMA NamesKnown ==
  ASSUME NEW h \in Heads, NEW name, FieldsOf(h, name) # {}
  PROVE  name \in Names
PROOF
  <1> DEFINE P == {x \in Heads : FieldsOf(x, name) # {} => name \in Names}
  <1>1. ASSUME NEW x \in Heads,
               x # << >> => Front(x) \in P /\ \A i \in Embeddings(x) : x[i].fields \in P
        PROVE  x \in P
    <2> SUFFICES ASSUME FieldsOf(x, name) # {} PROVE name \in Names
      OBVIOUS
    <2>1. x # << >>
      BY NoFields
    <2>2. CASE FieldsOf(Front(x), name) # {}
      BY <1>1, <2>1, <2>2
    <2>3. CASE AddedOf(x, name) # {} /\ Last(x).embedded
      <3>1. FieldsOf(Last(x).fields, name) # {}
        BY <2>3 DEF AddedOf, Deeper
      <3>2. Last(x).fields \in P
        BY <1>1, <2>1, <2>3, LastEmbedded
      <3> QED BY <3>1, <3>2
    <2>4. CASE AddedOf(x, name) # {} /\ ~Last(x).embedded
      <3>1. Tagged(Last(x)) /\ Last(x).tag[1] = name
        BY <2>4 DEF AddedOf
      <3>2. Last(x) = x[Len(x)]
        BY <2>1, LastEmbedded
      <3> QED BY <2>1, <3>1, <3>2 DEF Names
    <2> QED BY <2>1, <2>2, <2>3, <2>4, FieldsOfHead
  <1> HIDE DEF P
  <1>2. Heads \subseteq P
    BY <1>1, HeadInduction
  <1> QED BY <1>2 DEF P

-----------------------------------------------------------------------------
(* The order of fields. *)

\* p is declared last in S.
Latest(p, S) == p \in S /\ \A q \in S : q = p \/ Before(q, p)

\* Of two fields not both are declared before the other.
LEMMA BeforeOneWay ==
  ASSUME NEW p \in Paths, NEW q \in Paths, Before(p, q)
  PROVE  ~Before(q, p)
PROOF
  <1> SUFFICES ASSUME Before(q, p) PROVE FALSE
    OBVIOUS
  <1>1. /\ Len(p) \in Nat /\ DOMAIN p = 1..Len(p) /\ \A i \in DOMAIN p : p[i] \in Nat
        /\ Len(q) \in Nat /\ DOMAIN q = 1..Len(q) /\ \A i \in DOMAIN q : q[i] \in Nat
    BY LenProperties, ElementOfSeq DEF Paths
  <1>2. PICK i \in DOMAIN p \cap DOMAIN q : p[i] < q[i] /\ \A j \in 1..(i - 1) : p[j] = q[j]
    BY DEF Before
  <1>3. PICK k \in DOMAIN p \cap DOMAIN q : q[k] < p[k] /\ \A j \in 1..(k - 1) : q[j] = p[j]
    BY DEF Before
  <1>4. i \in Nat /\ k \in Nat /\ i >= 1 /\ k >= 1
    BY <1>1
  <1>5. CASE i < k
    <2>1. i \in 1..(k - 1)
      BY <1>4, <1>5
    <2> QED BY <1>1, <1>2, <1>3, <2>1
  <1>6. CASE k < i
    <2>1. k \in 1..(i - 1)
      BY <1>4, <1>6
    <2> QED BY <1>1, <1>2, <1>3, <2>1
  <1>7. CASE i = k
    BY <1>1, <1>2, <1>3, <1>7
  <1> QED BY <1>4, <1>5, <1>6, <1>7

\* A field of an earlier struct is declared before.
LEMMA BeforeByFirst ==
  ASSUME NEW p, NEW q, 1 \in DOMAIN p, 1 \in DOMAIN q, p[1] < q[1]
  PROVE  Before(p, q)
PROOF
  <1>1. 1..(1 - 1) = {}
    OBVIOUS
  <1> QED BY <1>1 DEF Before

\* In an embedded struct the order is its own.
LEMMA BeforeUnder ==
  ASSUME NEW i \in Nat, NEW p \in Paths, NEW q \in Paths, Before(p, q)
  PROVE  Before(Under(i, p), Under(i, q))
PROOF
  <1>1. PICK k \in DOMAIN p \cap DOMAIN q : p[k] < q[k] /\ \A j \in 1..(k - 1) : p[j] = q[j]
    BY DEF Before
  <1>2. /\ Len(p) \in Nat /\ DOMAIN p = 1..Len(p) /\ Len(q) \in Nat /\ DOMAIN q = 1..Len(q)
    BY LenProperties DEF Paths
  <1> DEFINE u == Under(i, p)
             v == Under(i, q)
  <1>3. /\ u \in Paths /\ u[1] = i /\ Len(u) = Len(p) + 1 /\ \A j \in DOMAIN p : u[j + 1] = p[j]
        /\ v \in Paths /\ v[1] = i /\ Len(v) = Len(q) + 1 /\ \A j \in DOMAIN q : v[j + 1] = q[j]
    BY UnderPath
  <1> HIDE DEF u, v
  <1>4. DOMAIN u = 1..Len(u) /\ DOMAIN v = 1..Len(v)
    BY <1>3, LenProperties DEF Paths
  <1>5. k \in Nat /\ k >= 1 /\ k + 1 \in DOMAIN u \cap DOMAIN v
    BY <1>2, <1>3, <1>4
  <1>6. u[k + 1] < v[k + 1]
    BY <1>1, <1>3
  <1>7. ASSUME NEW j \in 1..(k + 1 - 1) PROVE u[j] = v[j]
    <2>1. CASE j = 1
      BY <1>3, <2>1
    <2>2. CASE j # 1
      <3>1. j - 1 \in 1..(k - 1) /\ j - 1 \in DOMAIN p /\ j - 1 \in DOMAIN q /\ j - 1 + 1 = j
        BY <1>2, <1>5, <2>2
      <3>2. u[j - 1 + 1] = p[j - 1] /\ v[j - 1 + 1] = q[j - 1]
        BY <1>3, <3>1
      <3> QED BY <1>1, <3>1, <3>2
    <2> QED BY <2>1, <2>2
  <1>8. Before(u, v)
    BY <1>5, <1>6, <1>7 DEF Before
  <1> QED BY <1>8 DEF u, v

-----------------------------------------------------------------------------
(* The tag index. *)

\* Joined with what comes before, a path is a path.
LEMMA PathsJoined ==
  ASSUME NEW prefix \in Paths, NEW n \in Nat
  PROVE  /\ FieldIndex(prefix, n) \in Paths /\ FieldIndex(prefix, n) = prefix \o <<n>>
         /\ \A p \in Paths : FieldIndex(prefix, n) \o p = prefix \o Under(n, p)
PROOF
  <1>1. Append(prefix, n) \in Seq(Nat) /\ Append(prefix, n) = prefix \o <<n>>
    BY AppendProperties, AppendIsConcat DEF Paths
  <1>2. ASSUME NEW p \in Paths PROVE (prefix \o <<n>>) \o p = prefix \o Under(n, p)
    <2>1. <<n>> \in Paths
      BY OneStep
    <2> DEFINE u == <<n>>
    <2> HIDE DEF u
    <2>2. Associates(prefix, u, p)
      BY <2>1, AllAssociate DEF Paths, u
    <2> QED BY <2>2 DEF Associates, Under, u
  <1> QED BY <1>1, <1>2 DEF FieldIndex, Paths

\* The last of the fields that a struct embedded last has.
LEMMA LatestUnder ==
  ASSUME NEW h \in Heads, h # << >>, Last(h).embedded, NEW name,
         NEW p, Latest(p, FieldsOf(Last(h).fields, name))
  PROVE  Latest(Under(Len(h), p), FieldsOf(h, name)) /\ p \in Paths
PROOF
  <1> DEFINE n == Len(h)
             A == FieldsOf(Last(h).fields, name)
             B == FieldsOf(Front(h), name)
  <1>1. /\ n \in Nat /\ Front(h) \in Heads /\ Last(h).fields \in Heads
        /\ \A i \in DOMAIN Front(h) : i < n
    BY FrontOfHead
  <1>2. FieldsOf(h, name) = B \cup Deeper(n, A)
    BY FieldsOfHead DEF AddedOf
  <1>3. p \in A /\ \A q \in A : q = p \/ Before(q, p)
    BY DEF Latest
  <1>4. \A q \in A : q \in Paths /\ 1 \in DOMAIN q
    BY <1>1, FieldsOfTyped
  <1>5. \A q \in B : q \in Paths /\ q[1] < n /\ 1 \in DOMAIN q
    BY <1>1, FieldsOfTyped
  <1> HIDE DEF n, A, B
  <1>6. Under(n, p) \in Deeper(n, A)
    BY <1>3 DEF Deeper
  <1>7. ASSUME NEW q \in Deeper(n, A) PROVE q = Under(n, p) \/ Before(q, Under(n, p))
    <2>1. PICK w \in A : q = Under(n, w)
      BY <1>7 DEF Deeper
    <2>2. CASE w = p
      BY <2>1, <2>2
    <2>3. CASE w # p
      <3>1. Before(w, p) /\ w \in Paths /\ p \in Paths
        BY <1>3, <1>4, <2>3
      <3> QED BY <1>1, <2>1, <3>1, BeforeUnder
    <2> QED BY <2>2, <2>3
  <1>8. ASSUME NEW q \in B PROVE Before(q, Under(n, p))
    <2>1. p \in Paths /\ 1 \in DOMAIN p
      BY <1>3, <1>4
    <2>2. Under(n, p)[1] = n /\ Under(n, p) \in Paths /\ Len(Under(n, p)) = Len(p) + 1
      BY <1>1, <2>1, UnderPath
    <2>3. 1 \in DOMAIN Under(n, p)
      <3>1. /\ Len(p) \in Nat
            /\ DOMAIN Under(n, p) = 1..Len(Under(n, p))
        BY <2>1, <2>2, LenProperties DEF Paths
      <3> QED BY <2>2, <3>1
    <2> QED BY <1>5, <2>2, <2>3, BeforeByFirst
  <1>9. p \in Paths
    BY <1>3, <1>4
  <1> QED BY <1>2, <1>6, <1>7, <1>8, <1>9 DEF Latest, n

\* Any other field that is last is declared last.
LEMMA LatestField ==
  ASSUME NEW h \in Heads, h # << >>, ~Last(h).embedded, NEW name,
         Tagged(Last(h)), Last(h).tag[1] = name
  PROVE  Latest(<<Len(h)>>, FieldsOf(h, name))
PROOF
  <1> DEFINE n == Len(h)
             B == FieldsOf(Front(h), name)
  <1>1. /\ n \in Nat /\ Front(h) \in Heads
        /\ \A i \in DOMAIN Front(h) : i < n
    BY FrontOfHead
  <1>2. FieldsOf(h, name) = B \cup {<<n>>}
    BY FieldsOfHead DEF AddedOf
  <1>3. \A q \in B : q[1] < n /\ 1 \in DOMAIN q
    BY <1>1, FieldsOfTyped
  <1> HIDE DEF n, B
  <1>4. <<n>>[1] = n /\ 1 \in DOMAIN <<n>>
    BY <1>1
  <1>5. \A q \in B : Before(q, <<n>>)
    BY <1>3, <1>4, BeforeByFirst
  <1> QED BY <1>2, <1>5 DEF Latest, n

\* In r a name has the path of its last field, and what it had in m without one.
Filed(h, prefix, m, r, name) ==
  IF FieldsOf(h, name) = {} THEN r[name] = m[name]
  ELSE \E p \in Paths : Latest(p, FieldsOf(h, name)) /\ r[name] = prefix \o p

Indexed(h) ==
  \A prefix \in Paths, m \in Indexes :
    LET r == collectTagIndex[h][prefix][m]
    IN  r \in Indexes /\ \A name \in Names : Filed(h, prefix, m, r, name)

\* collectTagIndex, for a struct that is not empty.
LEMMA CollectStep ==
  ASSUME NEW h \in Heads, h # << >>, NEW prefix \in Paths, NEW m \in Indexes
  PROVE  LET f == Last(h)
             idx == FieldIndex(prefix, Len(h))
             sofar == collectTagIndex[Front(h)][prefix][m]
         IN  collectTagIndex[h][prefix][m] =
               IF f.embedded THEN collectTagIndex[f.fields][idx][sofar]
               ELSE IF ~Tagged(f) THEN sofar
               ELSE Entered(sofar, f.tag[1], idx)
PROOF
  <1>1. collectTagIndex[h] = Collected(collectTagIndex, h)
    BY CollectIs
  <1> QED BY <1>1 DEF Collected

\* A name without a field in the last one.
LEMMA FiledBefore ==
  ASSUME NEW h \in Heads, h # << >>, NEW prefix, NEW m, NEW r, NEW sofar, NEW name,
         AddedOf(h, name) = {}, r[name] = sofar[name], Filed(Front(h), prefix, m, sofar, name)
  PROVE  Filed(h, prefix, m, r, name)
PROOF
  <1>1. FieldsOf(h, name) = FieldsOf(Front(h), name)
    BY FieldsOfHead
  <1> QED BY <1>1 DEF Filed

\* The fields of an embedded struct.
LEMMA FiledUnder ==
  ASSUME NEW h \in Heads, h # << >>, Last(h).embedded, NEW prefix \in Paths, NEW m, NEW sofar, NEW r, NEW name,
         Filed(Front(h), prefix, m, sofar, name),
         Filed(Last(h).fields, FieldIndex(prefix, Len(h)), sofar, r, name)
  PROVE  Filed(h, prefix, m, r, name)
PROOF
  <1> DEFINE A == FieldsOf(Last(h).fields, name)
             n == Len(h)
  <1>1. n \in Nat
    BY FrontOfHead
  <1>2. CASE A = {}
    <2>1. AddedOf(h, name) = {}
      BY <1>2 DEF AddedOf, Deeper
    <2>2. r[name] = sofar[name]
      BY <1>2 DEF Filed
    <2> QED BY <2>1, <2>2, FiledBefore
  <1>3. CASE A # {}
    <2>1. PICK p \in Paths : Latest(p, A) /\ r[name] = FieldIndex(prefix, n) \o p
      BY <1>3 DEF Filed
    <2>2. Latest(Under(n, p), FieldsOf(h, name))
      BY <2>1, LatestUnder
    <2>3. r[name] = prefix \o Under(n, p) /\ Under(n, p) \in Paths
      <3> HIDE DEF n, A
      <3>1. FieldIndex(prefix, n) \o p = prefix \o Under(n, p)
        BY <1>1, PathsJoined
      <3>2. Under(n, p) \in Paths
        BY <1>1, UnderPath
      <3> QED BY <2>1, <3>1, <3>2
    <2>4. FieldsOf(h, name) # {}
      BY <2>2 DEF Latest
    <2> QED BY <2>2, <2>3, <2>4 DEF Filed
  <1> QED BY <1>2, <1>3

\* collectTagIndex files every name (scan.go:101-116).
LEMMA CollectFiles ==
  ASSUME NEW h \in Heads
  PROVE  Indexed(h)
PROOF
  <1> DEFINE P == {x \in Heads : Indexed(x)}
  <1>1. ASSUME NEW x \in Heads,
               x # << >> => Front(x) \in P /\ \A i \in Embeddings(x) : x[i].fields \in P
        PROVE  x \in P
    <2> SUFFICES ASSUME NEW prefix \in Paths, NEW m \in Indexes
                 PROVE  /\ collectTagIndex[x][prefix][m] \in Indexes
                        /\ \A name \in Names : Filed(x, prefix, m, collectTagIndex[x][prefix][m], name)
      BY DEF Indexed
    <2> DEFINE r == collectTagIndex[x][prefix][m]
    <2>1. CASE x = << >>
      <3>1. r = m
        <4>1. collectTagIndex[x] = Collected(collectTagIndex, x)
          BY CollectIs
        <4> QED BY <2>1, <4>1 DEF Collected
      <3>2. \A name \in Names : FieldsOf(x, name) = {}
        BY <2>1, NoFields
      <3> QED BY <3>1, <3>2 DEF Filed
    <2>2. CASE x # << >>
      <3> DEFINE f == Last(x)
                 n == Len(x)
                 idx == FieldIndex(prefix, n)
                 sofar == collectTagIndex[Front(x)][prefix][m]
      <3>1. /\ n \in Nat /\ Front(x) \in P
            /\ f.embedded => f.fields \in P
            /\ f = x[n]
        BY <1>1, <2>2, FrontOfHead, LastEmbedded
      <3>2. sofar \in Indexes /\ \A name \in Names : Filed(Front(x), prefix, m, sofar, name)
        BY <3>1 DEF Indexed
      <3>3. idx \in Paths /\ idx = prefix \o <<n>>
        BY <3>1, PathsJoined
      <3>4. r = IF f.embedded THEN collectTagIndex[f.fields][idx][sofar]
                ELSE IF ~Tagged(f) THEN sofar
                ELSE Entered(sofar, f.tag[1], idx)
        BY <2>2, CollectStep
      <3>5. CASE f.embedded
        <4>1. r = collectTagIndex[f.fields][idx][sofar]
          BY <3>4, <3>5
        <4>2. r \in Indexes /\ \A name \in Names : Filed(f.fields, idx, sofar, r, name)
          BY <3>1, <3>2, <3>3, <3>5, <4>1 DEF Indexed
        <4> HIDE DEF r, sofar, P
        <4>3. \A name \in Names : Filed(x, prefix, m, r, name)
          BY <2>2, <3>2, <3>5, <4>2, FiledUnder
        <4> QED BY <4>2, <4>3 DEF r
      <3>6. CASE ~f.embedded /\ ~Tagged(f)
        <4>1. r = sofar
          BY <3>4, <3>6
        <4>2. \A name : AddedOf(x, name) = {}
          BY <3>6 DEF AddedOf
        <4> HIDE DEF r, sofar, P
        <4>3. \A name \in Names : Filed(x, prefix, m, r, name)
          BY <2>2, <3>2, <4>1, <4>2, FiledBefore
        <4> QED BY <3>2, <4>1, <4>3 DEF r
      <3>7. CASE ~f.embedded /\ Tagged(f)
        <4>1. r = [sofar EXCEPT ![f.tag[1]] = idx]
          BY <3>4, <3>7 DEF Entered
        <4>2. f.tag[1] \in Names
          BY <2>2, <3>1, <3>7 DEF Names
        <4> DEFINE mine == f.tag[1]
        <4> HIDE DEF r, sofar, P, idx, mine
        <4>3. r \in Indexes /\ r[mine] = idx /\ \A name \in Names : name # mine => r[name] = sofar[name]
          BY <3>2, <3>3, <4>1, <4>2 DEF Indexes, mine
        <4>4. ASSUME NEW name \in Names, name # mine PROVE Filed(x, prefix, m, r, name)
          <5>1. AddedOf(x, name) = {}
            BY <3>7, <4>4 DEF AddedOf, mine
          <5> QED BY <2>2, <3>2, <4>3, <4>4, <5>1, FiledBefore
        <4>5. Filed(x, prefix, m, r, mine)
          <5>1. Latest(<<n>>, FieldsOf(x, mine)) /\ <<n>> \in Paths
            BY <2>2, <3>1, <3>7, LatestField, OneStep DEF mine
          <5>2. FieldsOf(x, mine) # {}
            BY <5>1 DEF Latest
          <5> QED BY <3>3, <4>3, <5>1, <5>2 DEF Filed
        <4>6. \A name \in Names : Filed(x, prefix, m, r, name)
          BY <4>4, <4>5
        <4> QED BY <4>3, <4>6 DEF r
      <3> QED BY <3>5, <3>6, <3>7
    <2> QED BY <2>1, <2>2
  <1> HIDE DEF P
  <1>2. Heads \subseteq P
    BY <1>1, HeadInduction
  <1> QED BY <1>2 DEF P

\* The tag index of a struct: the last of the fields that share a name, and
\* nothing for a name no field has (scan.go:92-99).
LEMMA TagIndexFinds ==
  ASSUME NEW type \in ToSet(Structs)
  PROVE  /\ type \in Heads /\ DOMAIN buildTagIndex(type) = Names
         /\ \A name \in Names :
              IF FieldsOf(type, name) = {} THEN buildTagIndex(type)[name] = Discard
              ELSE /\ buildTagIndex(type)[name] \in Paths
                   /\ Latest(buildTagIndex(type)[name], FieldsOf(type, name))
PROOF
  <1> DEFINE r == collectTagIndex[type][<< >>][Empty]
  <1>1. type \in Heads
    <2>1. PICK k \in DOMAIN Structs : type = Structs[k]
      BY DEF ToSet
    <2>2. Structs[k] \in HeadsOf(k)
      BY StructTyped
    <2> QED BY <2>1, <2>2 DEF Heads, HeadsOf, Begin
  <1>2. << >> \in Paths /\ Empty \in Indexes /\ \A name \in Names : Empty[name] = Discard
    BY DEF Paths, Indexes, Empty, Discard
  <1>3. r \in Indexes /\ \A name \in Names : Filed(type, << >>, Empty, r, name)
    BY <1>1, <1>2, CollectFiles DEF Indexed
  <1> HIDE DEF r
  <1>4. ASSUME NEW name \in Names
        PROVE  IF FieldsOf(type, name) = {} THEN r[name] = Discard
               ELSE r[name] \in Paths /\ Latest(r[name], FieldsOf(type, name))
    <2>1. CASE FieldsOf(type, name) = {}
      BY <1>2, <1>3, <2>1 DEF Filed
    <2>2. CASE FieldsOf(type, name) # {}
      <3>1. PICK p \in Paths : Latest(p, FieldsOf(type, name)) /\ r[name] = << >> \o p
        BY <1>3, <2>2 DEF Filed
      <3>2. << >> \o p = p
        BY <3>1, ConcatEmptySeq DEF Paths
      <3> QED BY <2>2, <3>1, <3>2
    <2> QED BY <2>1, <2>2
  <1>5. DOMAIN r = Names
    BY <1>3 DEF Indexes
  <1> QED BY <1>1, <1>4, <1>5 DEF r, buildTagIndex

-----------------------------------------------------------------------------
(* Scanning. *)

\* Every step of Scanning is one of Rows.
THEOREM ScanningIsRows == ScanningSpec => Spec
PROOF
  <1>1. ScanningInit => Init
    BY DEF ScanningInit
  <1>2. [ScanningNext]_scanningVars => [Next]_vars
    <2>1. ASSUME NEW c \in Calls, ScanningSteps(c) PROVE MethodSteps(c)
      BY <2>1 DEF ScanningSteps, ScanColumns, PointersPanic, Otherwise, MethodSteps
    <2>2. ScanningNext => Next
      BY <2>1 DEF ScanningNext, Next
    <2>3. UNCHANGED scanningVars => UNCHANGED vars
      BY DEF scanningVars
    <2> QED BY <2>2, <2>3
  <1> QED BY <1>1, <1>2, PTL DEF ScanningSpec, Spec

\* What the elements hold is what Rows.Scan put there from their rows.
ElementsAreFilled(c) == elems[c] = [i \in 1..Len(heap[c]) |-> Filled(heap[c][i])]

ScanningInv ==
  /\ Inv
  /\ shape \in Shapes /\ index = buildTagIndex(shape.type)
  /\ DOMAIN elems = Calls /\ \A c \in Calls : ElementsAreFilled(c)

\* No call has an element.
LEMMA ScanningInitEstablishesInv == ScanningInit => ScanningInv
PROOF
  <1> SUFFICES ASSUME ScanningInit PROVE ScanningInv
    OBVIOUS
  <1>1. Inv /\ shape \in Shapes /\ index = buildTagIndex(shape.type)
    BY InitEstablishesInv DEF ScanningInit
  <1>2. ASSUME NEW c \in Calls PROVE ElementsAreFilled(c)
    <2>1. heap[c] = << >> /\ elems[c] = << >>
      BY DEF ScanningInit, Init
    <2>2. Len(<< >>) = 0 /\ 1..0 = {}
      OBVIOUS
    <2> QED BY <2>1, <2>2 DEF ElementsAreFilled
  <1> QED BY <1>1, <1>2 DEF ScanningInv, ScanningInit

\* A function on the first numbers, with one more.
LEMMA OneMore ==
  ASSUME NEW T, NEW s \in Seq(T), NEW x \in T, NEW fill
  PROVE  Append([i \in 1..Len(s) |-> fill[s[i]]], fill[x])
           = [i \in 1..Len(Append(s, x)) |-> fill[Append(s, x)[i]]]
PROOF
  <1> DEFINE S == {fill[y] : y \in T}
             u == [i \in 1..Len(s) |-> fill[s[i]]]
             t == Append(s, x)
             v == [i \in 1..Len(t) |-> fill[t[i]]]
  <1>1. /\ Len(s) \in Nat /\ Len(t) = Len(s) + 1 /\ t[Len(s) + 1] = x
        /\ \A i \in 1..Len(s) : s[i] \in T /\ t[i] = s[i]
    BY AppendProperties, LenProperties, ElementOfSeq
  <1> HIDE DEF t
  <1>2. u \in [1..Len(s) -> S] /\ fill[x] \in S
    BY <1>1
  <1>3. v \in [1..Len(s) + 1 -> S]
    <2>1. \A i \in 1..Len(s) + 1 : i \in 1..Len(s) \/ i = Len(s) + 1
      BY <1>1
    <2>2. \A i \in 1..Len(s) + 1 : t[i] \in T
      BY <1>1, <2>1
    <2> QED BY <1>1, <2>2
  <1> HIDE DEF S
  <1>4. u \in Seq(S) /\ Len(u) = Len(s)
    BY <1>1, <1>2, SeqOfFunction
  <1>5. v \in Seq(S) /\ Len(v) = Len(s) + 1
    BY <1>1, <1>3, SeqOfFunction
  <1>6. /\ Append(u, fill[x]) \in Seq(S) /\ Len(Append(u, fill[x])) = Len(u) + 1
        /\ Append(u, fill[x])[Len(u) + 1] = fill[x]
        /\ \A i \in 1..Len(u) : Append(u, fill[x])[i] = u[i]
    <2> HIDE DEF u
    <2> QED BY <1>2, <1>4, AppendProperties
  <1>7. PICK w \in Seq(S) : /\ w = Append(u, fill[x]) /\ Len(w) = Len(s) + 1 /\ w[Len(s) + 1] = fill[x]
                            /\ \A i \in 1..Len(s) : w[i] = u[i]
    <2> HIDE DEF u
    <2> QED BY <1>4, <1>6
  <1>8. \A i \in 1..Len(w) : w[i] = v[i]
    <2>1. \A i \in 1..Len(w) : i \in 1..Len(s) \/ i = Len(s) + 1
      BY <1>1, <1>7
    <2> QED BY <1>1, <1>7, <2>1
  <1>9. w = v
    <2> HIDE DEF v
    <2> QED BY <1>5, <1>7, <1>8, SeqEqual
  <1> QED BY <1>7, <1>9 DEF t

\* Only Scan touches the elements.
LEMMA HeapKept ==
  ASSUME NEW c \in Calls, Otherwise(c) \/ PointersPanic(c) \/ Cancel(c) \/ AwaitDone(c)
  PROVE  heap' = heap
PROOF
  <1>1. CASE Query(c) \/ QueryFails(c) \/ BadDest(c) \/ Columns(c)
    BY <1>1 DEF Query, QueryFails, BadDest, Columns, Fail, method
  <1>2. CASE NextRow(c) \/ NextEnds(c) \/ NextCancelled(c) \/ AfterNext(c)
    BY <1>2 DEF NextRow, NextEnds, NextCancelled, AfterNext, Fail
  <1>3. CASE ScanFails(c) \/ ScanPanics(c) \/ Close(c)
    BY <1>3 DEF ScanFails, ScanPanics, Close, Fail
  <1>4. CASE Cancel(c) \/ AwaitDone(c)
    BY <1>4 DEF Cancel, AwaitDone, method
  <1> QED BY <1>1, <1>2, <1>3, <1>4 DEF Otherwise, PointersPanic

\* The step of Scan.
LEMMA ScanColumnsKeeps ==
  ASSUME ScanningInv, NEW c \in Calls, ScanColumns(c)
  PROVE  DOMAIN elems' = Calls /\ \A d \in Calls : ElementsAreFilled(d)'
PROOF
  <1>1. /\ shape' = shape /\ index' = index
        /\ elems' = [elems EXCEPT ![c] = Append(elems[c], Filled(pos[c]))]
        /\ heap' = [heap EXCEPT ![c] = Append(heap[c], pos[c])]
    BY DEF ScanColumns, Scan
  <1>2. DOMAIN elems = Calls /\ DOMAIN heap = Calls /\ heap[c] \in Seq(Nat) /\ pos[c] \in Nat
    <2>1. TypeOK
      BY DEF ScanningInv, Inv
    <2>2. heap[c] \in Seq(1..MaxRows) /\ pos[c] \in 0..MaxRows /\ DOMAIN heap = Calls
      BY <2>1 DEF TypeOK
    <2> QED BY <2>2, BoundsAssumption DEF ScanningInv
  <1>3. \A row : Filled(row)' = Filled(row)
    BY <1>1 DEF Filled, Pointers, Leaves
  <1>4. ASSUME NEW d \in Calls, d # c PROVE ElementsAreFilled(d)'
    <2>1. elems'[d] = elems[d] /\ heap'[d] = heap[d]
      BY <1>1, <1>2, <1>4
    <2>2. ElementsAreFilled(d)
      BY DEF ScanningInv
    <2> QED BY <1>3, <2>1, <2>2 DEF ElementsAreFilled
  <1>5. ElementsAreFilled(c)'
    <2> DEFINE fill == [row \in Nat |-> Filled(row)]
    <2>1. PICK s \in Seq(Nat), x \in Nat : s = heap[c] /\ x = pos[c]
      BY <1>2
    <2>2. /\ \A i \in 1..Len(s) : s[i] \in Nat
          /\ Append(s, x) \in Seq(Nat)
          /\ \A i \in 1..Len(Append(s, x)) : Append(s, x)[i] \in Nat
      BY AppendProperties, ElementOfSeq
    <2>3. elems[c] = [i \in 1..Len(s) |-> fill[s[i]]]
      BY <2>1, <2>2 DEF ScanningInv, ElementsAreFilled
    <2>4. elems'[c] = Append(elems[c], fill[x]) /\ heap'[c] = Append(s, x)
      BY <1>1, <1>2, <2>1
    <2> HIDE DEF fill
    <2>5. elems'[c] = [i \in 1..Len(Append(s, x)) |-> fill[Append(s, x)[i]]]
      BY <2>3, <2>4, OneMore
    <2>6. elems'[c] = [i \in 1..Len(heap'[c]) |-> Filled(heap'[c][i])]
      BY <2>2, <2>4, <2>5 DEF fill
    <2> QED BY <1>3, <2>6 DEF ElementsAreFilled
  <1>6. DOMAIN elems' = Calls
    BY <1>1, <1>2
  <1> QED BY <1>4, <1>5, <1>6

\* The invariant of the composition.
THEOREM ScanningInvariance == ScanningSpec => []ScanningInv
PROOF
  <1>1. ScanningInv /\ Inv' /\ [ScanningNext]_scanningVars => ScanningInv'
    <2> SUFFICES ASSUME ScanningInv, Inv', [ScanningNext]_scanningVars PROVE ScanningInv'
      OBVIOUS
    <2>0. ASSUME heap' = heap, shape' = shape, index' = index, elems' = elems
          PROVE  ScanningInv'
      <3>1. \A row : Filled(row)' = Filled(row)
        BY <2>0 DEF Filled, Pointers, Leaves
      <3> QED BY <2>0, <3>1 DEF ScanningInv, ElementsAreFilled
    <2>1. CASE UNCHANGED scanningVars
      BY <2>0, <2>1 DEF scanningVars, vars, method
    <2>3. ASSUME NEW c \in Calls,
                 \/ Otherwise(c) \/ PointersPanic(c)
                 \/ (Cancel(c) \/ AwaitDone(c)) /\ UNCHANGED <<shape, index, elems>>
          PROVE  ScanningInv'
      <3>1. heap' = heap
        BY <2>3, HeapKept
      <3> QED BY <2>0, <2>3, <3>1 DEF Otherwise, PointersPanic
    <2>2. ASSUME NEW c \in Calls, ScanColumns(c) PROVE ScanningInv'
      <3>1. shape' = shape /\ index' = index
        BY <2>2 DEF ScanColumns
      <3> QED BY <2>2, <3>1, ScanColumnsKeeps DEF ScanningInv
    <2> QED BY <2>1, <2>2, <2>3 DEF ScanningNext, ScanningSteps
  <1>2. ScanningSpec => []Inv
    BY ScanningIsRows, Invariance, PTL
  <1> QED BY <1>1, <1>2, ScanningInitEstablishesInv, PTL DEF ScanningSpec

\* The columns that are named after the field at p.
ColumnsOf(p) == {j \in DOMAIN shape.cols : p \in FieldsOf(shape.type, shape.cols[j])}

\* Of the fields that share its name it is declared last.
DeclaredLast(p) ==
  \A q \in FieldsOf(shape.type, FieldAt(shape.type, p).tag[1]) : p = q \/ Before(q, p)

\* A column goes to the last field of its name, and nowhere else.
LEMMA PointersFind ==
  ASSUME shape \in Shapes, index = buildTagIndex(shape.type), NEW p \in Leaves(shape.type),
         NEW j \in DOMAIN shape.cols
  PROVE  Pointers[j] = p <=> j \in ColumnsOf(p) /\ DeclaredLast(p)
PROOF
  <1> DEFINE type == shape.type
             name == shape.cols[j]
             S == FieldsOf(type, name)
  <1>1. type \in ToSet(Structs)
    BY ShapesAssumption
  <1>2. /\ type \in Heads /\ DOMAIN index = Names
        /\ \A n \in Names :
             IF FieldsOf(type, n) = {} THEN index[n] = Discard
             ELSE index[n] \in Paths /\ Latest(index[n], FieldsOf(type, n))
    BY <1>1, TagIndexFinds
  <1>3. p \in Paths /\ p # Discard
    <2>1. p \in Paths /\ Len(p) >= 1
      BY <1>2, FieldsTyped DEF Leaves
    <2>2. Len(Discard) = 0
      BY DEF Discard
    <2> QED BY <2>1, <2>2
  <1>4. Pointers[j] = IF name \in Names THEN index[name] ELSE Discard
    BY <1>2 DEF Pointers, fieldPointersFromIndex
  <1>5. j \in ColumnsOf(p) <=> p \in S
    BY DEF ColumnsOf
  <1>6. p \in S => FieldAt(type, p).tag[1] = name
    BY DEF FieldsOf
  <1> HIDE DEF type, name, S
  <1>7. S # {} => name \in Names
    BY <1>2, NamesKnown DEF S
  <1>8. ASSUME Pointers[j] = p PROVE p \in S /\ DeclaredLast(p)
    <2>1. name \in Names /\ index[name] = p
      BY <1>3, <1>4, <1>8
    <2>2. S # {}
      BY <1>2, <1>3, <2>1 DEF S
    <2>3. Latest(p, S)
      BY <1>2, <2>1, <2>2 DEF S
    <2>4. p \in S /\ \A q \in S : q = p \/ Before(q, p)
      BY <2>3 DEF Latest
    <2>5. FieldsOf(shape.type, FieldAt(shape.type, p).tag[1]) = S
      BY <1>6, <2>4 DEF S, type
    <2> QED BY <2>4, <2>5 DEF DeclaredLast
  <1>9. ASSUME p \in S, DeclaredLast(p) PROVE Pointers[j] = p
    <2>1. name \in Names /\ index[name] \in Paths /\ Latest(index[name], S)
      BY <1>2, <1>7, <1>9 DEF S
    <2> DEFINE q == index[name]
    <2> HIDE DEF q
    <2>2. q \in S /\ q \in Paths /\ (p = q \/ Before(p, q))
      BY <1>9, <2>1 DEF Latest, q
    <2>3. FieldsOf(shape.type, FieldAt(shape.type, p).tag[1]) = S
      BY <1>6, <1>9 DEF S, type
    <2>4. p = q \/ Before(q, p)
      BY <1>9, <2>2, <2>3 DEF DeclaredLast
    <2>5. p = q
      BY <1>3, <2>2, <2>4, BeforeOneWay
    <2> QED BY <1>4, <2>1, <2>5 DEF q
  <1> QED BY <1>5, <1>8, <1>9

\* What is in a field of an element of that row.
Right(p, value, row) ==
  IF ColumnsOf(p) = {} \/ ~DeclaredLast(p) THEN value = Zero
  ELSE value.row = row /\ value.column \in ColumnsOf(p) /\ \A j \in ColumnsOf(p) : j <= value.column

\* Filled puts it there.
LEMMA FilledIsRight ==
  ASSUME shape \in Shapes, index = buildTagIndex(shape.type), NEW p \in Leaves(shape.type), NEW row
  PROVE  Right(p, Filled(row)[p], row)
PROOF
  <1> DEFINE to == {i \in DOMAIN Pointers : Pointers[i] = p}
  <1>1. DOMAIN Pointers = DOMAIN shape.cols
    BY DEF Pointers, fieldPointersFromIndex
  <1>2. to = IF DeclaredLast(p) THEN ColumnsOf(p) ELSE {}
    BY <1>1, PointersFind DEF ColumnsOf
  <1>3. Filled(row)[p] = IF to = {} THEN Zero
          ELSE [column |-> CHOOSE i \in to : \A j \in to : j <= i, row |-> row]
    BY DEF Filled
  <1>4. to \subseteq DOMAIN shape.cols
    BY <1>1
  <1> HIDE DEF to
  <1>5. CASE to = {}
    <2>1. ColumnsOf(p) = {} \/ ~DeclaredLast(p)
      BY <1>2, <1>5
    <2> QED BY <1>3, <1>5, <2>1 DEF Right
  <1>6. CASE to # {}
    <2>1. ColumnsOf(p) = to /\ DeclaredLast(p)
      BY <1>2, <1>6
    <2>2. \E i \in to : \A j \in to : j <= i
      <3>1. shape.cols \in Seq(STRING)
        BY ShapesAssumption
      <3>2. Len(shape.cols) \in Nat /\ DOMAIN shape.cols = 1..Len(shape.cols)
        BY <3>1, LenProperties
      <3>3. to \subseteq 0..Len(shape.cols)
        BY <1>4, <3>2
      <3> QED BY <1>6, <3>2, <3>3, GreatestElement
    <2> DEFINE i == CHOOSE i \in to : \A j \in to : j <= i
    <2>3. i \in to /\ \A j \in to : j <= i
      BY <2>2
    <2> HIDE DEF i
    <2>4. Filled(row)[p] = [column |-> i, row |-> row]
      BY <1>3, <1>6 DEF i
    <2> QED BY <1>6, <2>1, <2>3, <2>4 DEF Right
  <1> QED BY <1>5, <1>6

\* Every field of a result gets the column of its name, from its own row, for
\* structs embedded to any depth, any columns and results of any length
\* (scan.go:55-116).
THEOREM ColumnsReach == ScanningSpec => []ColumnsReachTheirFields
PROOF
  <1>1. ScanningInv => ColumnsReachTheirFields
    <2> SUFFICES ASSUME ScanningInv, NEW c \in Calls, Succeeded(c),
                        NEW i \in DOMAIN result[c], NEW p \in Leaves(shape.type)
                 PROVE  Right(p, elems[c][result[c][i]][p], i)
      BY DEF ColumnsReachTheirFields, Right, ColumnsOf, DeclaredLast
    <2>1. Elements(c) /\ TypeOK /\ ElementsAreFilled(c)
      BY DEF ScanningInv, Inv, CallInv
    <2>2. /\ Len(result[c]) = Len(heap[c]) /\ \A k \in 1..Len(result[c]) : result[c][k] = k /\ heap[c][k] = k
      BY <2>1 DEF Elements, Succeeded
    <2>3. i \in 1..Len(result[c])
      <3>1. result[c] \in Seq(1..MaxRows)
        BY <2>1 DEF TypeOK
      <3> QED BY <3>1, LenProperties
    <2>4. elems[c][result[c][i]] = Filled(i)
      BY <2>1, <2>2, <2>3 DEF ElementsAreFilled
    <2>5. Right(p, Filled(i)[p], i)
      BY FilledIsRight DEF ScanningInv
    <2> QED BY <2>4, <2>5
  <1> QED BY <1>1, ScanningInvariance, PTL
=============================================================================
