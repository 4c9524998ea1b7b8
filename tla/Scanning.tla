------------------------------- MODULE Scanning -------------------------------
(***************************************************************************)
(* Rows with what its elements hold: TagIndex says where each column of a  *)
(* row is written, and every step of Rows is a step here.                  *)
(*                                                                         *)
(* The value of a column is its place in the row and the row's number.     *)
(***************************************************************************)
EXTENDS Rows, TagIndex

CONSTANT
  Shapes  \* what is scanned into what: [type, cols]

ASSUME ShapesAssumption == Shapes \subseteq [type : ToSet(Structs), cols : Seq(STRING)]

VARIABLES
  shape,  \* the struct type and the columns of the result
  index,  \* its tag index: every call builds the same one
  elems   \* elems[c][a]: what the element at address a holds in each field

scanningVars == <<vars, shape, index, elems>>

ScanningInit ==
  /\ Init
  /\ shape \in Shapes /\ index = buildTagIndex(shape.type)
  /\ elems = [c \in Calls |-> << >>]

Zero == [column |-> 0, row |-> 0]

Pointers == fieldPointersFromIndex(shape.cols, index)

\* A tagged field that is not exported cannot be set by reflection.
Settable ==
  \A p \in ToSet(Pointers) \ {Discard} : FieldAt(shape.type, p).exported

\* A new element after Rows.Scan has gone through the columns in their order.
Filled(row) ==
  [p \in Leaves(shape.type) |->
     LET to == {i \in DOMAIN Pointers : Pointers[i] = p}
     IN  IF to = {} THEN Zero ELSE [column |-> CHOOSE i \in to : \A j \in to : j <= i, row |-> row]]

ScanColumns(c) ==
  /\ Scan(c) /\ Settable
  /\ elems' = [elems EXCEPT ![c] = Append(@, Filled(pos[c]))]
  /\ UNCHANGED <<shape, index>>

\* FieldPointers panics before Scan is called.
PointersPanic(c) ==
  /\ ScanPanics(c) /\ ~Settable
  /\ UNCHANGED <<shape, index, elems>>

Otherwise(c) ==
  /\ \/ Query(c) \/ QueryFails(c) \/ BadDest(c) \/ Columns(c)
     \/ NextRow(c) \/ NextEnds(c) \/ NextCancelled(c) \/ AfterNext(c)
     \/ (ScanFails(c) \/ ScanPanics(c)) /\ Settable
     \/ Close(c)
  /\ UNCHANGED <<shape, index, elems>>

ScanningSteps(c) == ScanColumns(c) \/ PointersPanic(c) \/ Otherwise(c)

ScanningNext ==
  \E c \in Calls :
    \/ ScanningSteps(c)
    \/ (Cancel(c) \/ AwaitDone(c)) /\ UNCHANGED <<shape, index, elems>>

ScanningSpec ==
  /\ ScanningInit /\ [][ScanningNext]_scanningVars
  /\ \A c \in Calls : WF_scanningVars(ScanningSteps(c))

-----------------------------------------------------------------------------
(* Properties. *)

\* The README: rows are scanned by matching column names to fields, and an
\* embedded struct's fields are flattened. In every element that comes back
\* without an error, a field that alone has its name holds the column of that
\* name, of its own row; of fields that share a name only the one declared last
\* is filled; what no column names is zero (scan.go:64-116).
ColumnsReachTheirFields ==
  \A c \in Calls : Succeeded(c) =>
    \A i \in DOMAIN result[c], p \in Leaves(shape.type) :
      LET f == FieldAt(shape.type, p)
          columns == {j \in DOMAIN shape.cols : p \in FieldsOf(shape.type, shape.cols[j])}
          value == elems[c][result[c][i]][p]
          last == \A q \in FieldsOf(shape.type, f.tag[1]) : p = q \/ Before(q, p)
      IN  IF columns = {} \/ ~last THEN value = Zero
          ELSE value.row = i /\ value.column \in columns /\ \A j \in columns : j <= value.column
=============================================================================
