------------------------------- MODULE Runner -------------------------------
(***************************************************************************)
(* internal.Load, Runner.Run and readerImpl.ReadDir: runs of the generator *)
(* that read interfaces from directories and write output files, perhaps   *)
(* into those same directories. Runs may be repeated, crash, fail to write *)
(* and overlap, and the sources are edited between their steps.            *)
(*                                                                         *)
(* A file's content is the sequence of what it was generated from: for     *)
(* each repository key the version of its interface. The order in which    *)
(* Go iterates over the configuration's map is chosen by every run.        *)
(*                                                                         *)
(* The definitions whose name starts with Wrong are mistakes one could     *)
(* make in the definition that follows them; nothing uses them.            *)
(***************************************************************************)
EXTENDS Integers, Sequences, FiniteSets, SequencesExt, Filter

CONSTANTS
  Runs,         \* processes that run the generator
  KeyOrder,     \* the configuration's keys as sort.Strings orders them
  DirOf,        \* DirOf[k]: the directory k's interface is in
  OutputOf,     \* OutputOf[k]: the file k's repository is generated into
  Layouts,      \* the ways to place the outputs in directories, see place
  MaxEdits,     \* bound: edits of the sources
  MaxFaults,    \* bound: crashes and writes that fail half way
  MaxRuns       \* bound: how often each process runs the generator

Keys == ToSet(KeyOrder)
Dirs == {DirOf[k] : k \in Keys}
Outputs == {OutputOf[k] : k \in Keys}

ASSUME KeysAssumption == KeyOrder \in Seq(Keys) /\ IsInjective(KeyOrder)
ASSUME RunsAssumption == Runs # {}
ASSUME LayoutsAssumption == \A layout \in Layouts : Outputs \subseteq DOMAIN layout
ASSUME BoundsAssumption == MaxEdits \in Nat /\ MaxFaults \in Nat /\ MaxRuns \in Nat

VARIABLES
  place,        \* place[o]: the directory output o is in
  version,  \* version[d]: how often the sources in d were edited
  broken,   \* the directories whose sources do not parse now
  disk,     \* disk[o]: "absent", "cut" short, "mixed", or the parts of a complete file
  pc,       \* pc[r]: "idle", "parse", "generate", "open" or "write"
  keys,     \* keys[r]: the configuration's keys as r sorted them
  order,    \* order[r]: outFileOrder, what is left of it
  parts,    \* parts[r]: requests, for the output at the head of order
  result,   \* result[r]: how r's last run ended
  began,    \* history: the versions when r's run began
  reason,   \* history: whether something r's run met excuses its failure
  edits, faults, count  \* what was used up of the bounds

sources == <<place, version, broken>>
local == <<keys, order, parts>>
history == <<began, reason>>
bounds == <<edits, faults, count>>
vars == <<sources, disk, pc, local, result, history, bounds>>

PCs == {"idle", "parse", "generate", "open", "write"}
Part(k, v) == [key |-> k, version |-> v]
Parts == [key : Keys, version : 0..MaxEdits]

\* A file on the disk.
File(state, ps) == [state |-> state, parts |-> ps]
Absent == File("absent", << >>)
Cut == File("cut", << >>)
Mixed == File("mixed", << >>)
Complete(ps) == File("complete", ps)

TypeOK ==
  /\ place \in Layouts
  /\ version \in [Dirs -> 0..MaxEdits] /\ broken \subseteq Dirs
  /\ \A o \in Outputs : disk[o] \in {Absent, Cut, Mixed} \/ \E n \in 1..Len(KeyOrder) :
       disk[o] = Complete(SubSeq(disk[o].parts, 1, n)) /\ disk[o].parts \in Seq(Parts)
  /\ pc \in [Runs -> PCs]
  /\ \A r \in Runs :
       /\ keys[r] \in {<< >>} \cup SetToSeqs(Keys)
       /\ ToSet(order[r]) \subseteq Outputs /\ Len(order[r]) <= Cardinality(Outputs)
       /\ parts[r] \in Seq(Parts)
  /\ result \in [Runs -> {"none", "ok", "error", "crashed"}]
  /\ began \in [Runs -> [Dirs -> 0..MaxEdits]] /\ reason \in [Runs -> BOOLEAN]
  /\ edits \in 0..MaxEdits /\ faults \in 0..MaxFaults /\ count \in [Runs -> 0..MaxRuns]

Init ==
  /\ place \in Layouts
  /\ version = [d \in Dirs |-> 0] /\ broken \in SUBSET Dirs
  /\ disk = [o \in Outputs |-> Absent]
  /\ pc = [r \in Runs |-> "idle"]
  /\ keys = [r \in Runs |-> << >>]
  /\ order = [r \in Runs |-> << >>] /\ parts = [r \in Runs |-> << >>]
  /\ result = [r \in Runs |-> "none"]
  /\ began = [r \in Runs |-> version] /\ reason = [r \in Runs |-> FALSE]
  /\ edits = 0 /\ faults = 0 /\ count = [r \in Runs |-> 0]

-----------------------------------------------------------------------------
(* Run: the keys are sorted and grouped by output file. *)

WrongSorted(ks) == ks

\* The keys come out of the configuration's map in any order, ks.
Sorted(ks) == Keep(KeyOrder, ToSet(ks))

\* One group of keys for every output.
Group(ks, o) == Keep(ks, {k \in Keys : OutputOf[k] = o})

WrongOutFileOrder(ks) == [i \in DOMAIN ks |-> OutputOf[ks[i]]]

\* The outputs in the order in which they occur first.
OutFileOrder(ks) ==
  LET firsts == Keep(ks, {k \in ToSet(ks) : k = Head(Group(ks, OutputOf[k]))})
  IN  [i \in DOMAIN firsts |-> OutputOf[firsts[i]]]

\* The loop over outFileOrder begins or goes on with what is left of it.
NextOutput(r, left) ==
  /\ pc' = [pc EXCEPT ![r] = "parse"]
  /\ order' = [order EXCEPT ![r] = left]
  /\ parts' = [parts EXCEPT ![r] = << >>]
  /\ UNCHANGED result

\* A run that ends leaves nothing behind but its files.
Ends(r, how) ==
  /\ result' = [result EXCEPT ![r] = how]
  /\ pc' = [pc EXCEPT ![r] = "idle"]
  /\ keys' = [keys EXCEPT ![r] = << >>]
  /\ order' = [order EXCEPT ![r] = << >>]
  /\ parts' = [parts EXCEPT ![r] = << >>]

Begins(r) ==
  /\ pc[r] = "idle" /\ count[r] < MaxRuns
  /\ began' = [began EXCEPT ![r] = version]
  /\ count' = [count EXCEPT ![r] = @ + 1]
  /\ UNCHANGED <<sources, disk, edits, faults>>

Start(r) ==
  /\ Begins(r)
  /\ \E ks \in SetToSeqs(Keys) :
       /\ keys' = [keys EXCEPT ![r] = Sorted(ks)]
       /\ pc' = [pc EXCEPT ![r] = "parse"]
       /\ order' = [order EXCEPT ![r] = OutFileOrder(Sorted(ks))]
  /\ result' = [result EXCEPT ![r] = "none"]
  /\ reason' = [reason EXCEPT ![r] = FALSE]
  /\ UNCHANGED parts

\* The run ends before it reads an interface; nothing is written.
EndsAtOnce(r) ==
  /\ Begins(r)
  /\ Ends(r, "error")
  /\ reason' = [reason EXCEPT ![r] = TRUE]

\* The configuration cannot be decoded, names no known dialect, or has a
\* repository without output.
LoadFails(r) == EndsAtOnce(r)

\* It has a key in which splitKey finds no directory.
BadKey(r) == EndsAtOnce(r)

-----------------------------------------------------------------------------
(* One output file. *)

Output(r) == Head(order[r])
Entries(r) == Group(keys[r], Output(r))
Entry(r) == Entries(r)[Len(parts[r]) + 1]

WrongReadable(d) ==
  d \notin broken /\ \A o \in Outputs : disk[o].state \in {"absent", "complete"}

\* Every .go file of the directory must parse, also what runs left there.
Readable(d) ==
  d \notin broken /\ \A o \in Outputs : place[o] = d => disk[o].state \in {"absent", "complete"}

ParseEntry(r) ==
  /\ pc[r] = "parse"
  /\ \E k \in Keys : LET d == DirOf[k] IN
       /\ k = Entry(r)
       /\ IF Readable(d)
            THEN /\ parts' = [parts EXCEPT ![r] = Append(@, Part(k, version[d]))]
                 /\ pc' = [pc EXCEPT ![r] = IF Len(parts'[r]) = Len(Entries(r)) THEN "generate" ELSE @]
                 /\ UNCHANGED <<keys, order, result, reason>>
            ELSE /\ Ends(r, "error")
                 /\ reason' = [reason EXCEPT ![r] = @ \/ d \in broken]
  /\ UNCHANGED <<sources, disk, began, bounds>>

WrongGenerate(r) ==
  /\ pc[r] = "generate"
  /\ \/ /\ pc' = [pc EXCEPT ![r] = "open"]
        /\ UNCHANGED <<disk, local, result, reason>>
     \/ /\ Ends(r, "error")
        /\ reason' = [reason EXCEPT ![r] = TRUE]
        /\ disk' = [disk EXCEPT ![Output(r)] = Mixed]
  /\ UNCHANGED <<sources, began, bounds>>

\* The templates of what was parsed compile, or one of them does not.
Generate(r) ==
  /\ pc[r] = "generate"
  /\ \/ /\ pc' = [pc EXCEPT ![r] = "open"]
        /\ UNCHANGED <<local, result, reason>>
     \/ /\ Ends(r, "error")
        /\ reason' = [reason EXCEPT ![r] = TRUE]
  /\ UNCHANGED <<sources, disk, began, bounds>>

\* The directory or the file cannot be created.
OpenFails(r) ==
  /\ pc[r] = "open"
  /\ Ends(r, "error")
  /\ reason' = [reason EXCEPT ![r] = TRUE]
  /\ UNCHANGED <<sources, disk, began, bounds>>

\* os.WriteFile opens the file and cuts it to nothing ...
OpenTruncate(r) ==
  /\ pc[r] = "open"
  /\ disk' = [disk EXCEPT ![Output(r)] = Cut]
  /\ pc' = [pc EXCEPT ![r] = "write"]
  /\ UNCHANGED <<sources, local, result, history, bounds>>

WrongWriteOver(file, ps) ==
  IF file \in {Absent, Cut} THEN Complete(ps) ELSE Mixed

\* ... and writes from its beginning, over what another run wrote meanwhile.
WriteOver(file, ps) ==
  IF file \in {Absent, Cut, Complete(ps)} THEN Complete(ps) ELSE Mixed

WrongWrite(r) ==
  /\ pc[r] = "write"
  /\ disk' = [disk EXCEPT ![Output(r)] = WriteOver(@, parts[r])]
  /\ NextOutput(r, order[r]) /\ UNCHANGED keys
  /\ UNCHANGED <<sources, history, bounds>>

Write(r) ==
  /\ pc[r] = "write"
  /\ disk' = [disk EXCEPT ![Output(r)] = WriteOver(@, parts[r])]
  /\ IF Len(order[r]) = 1 THEN Ends(r, "ok")
     ELSE NextOutput(r, Tail(order[r])) /\ UNCHANGED keys
  /\ UNCHANGED <<sources, history, bounds>>

\* The disk is full, say: some of the file is there.
WriteFails(r) ==
  /\ pc[r] = "write" /\ faults < MaxFaults
  /\ disk' = [disk EXCEPT ![Output(r)] = IF @ = Cut THEN Cut ELSE Mixed]
  /\ Ends(r, "error")
  /\ reason' = [reason EXCEPT ![r] = TRUE]
  /\ faults' = faults + 1
  /\ UNCHANGED <<sources, began, edits, count>>

-----------------------------------------------------------------------------
(* The environment. *)

Crash(r) ==
  /\ pc[r] # "idle" /\ faults < MaxFaults
  /\ Ends(r, "crashed")
  /\ faults' = faults + 1
  /\ UNCHANGED <<sources, disk, history, edits, count>>

\* Somebody edits the sources of a directory; they may stop being valid.
Edit(d) ==
  /\ edits < MaxEdits
  /\ version' = [version EXCEPT ![d] = @ + 1]
  /\ broken' \in {broken \ {d}, broken \cup {d}}
  /\ edits' = edits + 1
  /\ UNCHANGED <<place, disk, pc, local, result, history, faults, count>>

RunSteps(r) ==
  \/ ParseEntry(r) \/ Generate(r) \/ OpenFails(r)
  \/ OpenTruncate(r) \/ Write(r) \/ WriteFails(r)

Next ==
  \/ \E r \in Runs : Start(r) \/ LoadFails(r) \/ BadKey(r) \/ RunSteps(r) \/ Crash(r)
  \/ \E d \in Dirs : Edit(d)

Spec == Init /\ [][Next]_vars

\* A process that runs goes on.
FairSpec == Spec /\ \A r \in Runs : WF_vars(RunSteps(r))

-----------------------------------------------------------------------------
(* Properties. *)

KeysOf(o) == Keep(KeyOrder, {k \in Keys : OutputOf[k] = o})

\* The file holds all its repositories, in the order of their keys whatever
\* order the map had, and none older than the start of the run.
UpToDate(o, since) ==
  /\ disk[o].state = "complete"
  /\ [i \in DOMAIN disk[o].parts |-> disk[o].parts[i].key] = KeysOf(o)
  /\ \A i \in DOMAIN disk[o].parts :
       LET p == disk[o].parts[i] IN since[DirOf[p.key]] <= p.version

\* No other process ever ran.
Alone(r) == \A other \in Runs \ {r} : count[other] = 0

\* When the only process answers success, every output is complete, has its
\* repositories in the order of their keys, and is not older than the run
\* (runner.go:49-114).
SuccessIsComplete ==
  [][\A r \in Runs :
       Alone(r) /\ result[r] # "ok" /\ result'[r] = "ok" =>
         \A o \in Outputs : UpToDate(o, began[r])']_vars

\* Runs that overlap on unchanged sources do each other no harm: when all are
\* over and none failed, every file is complete.
OverlappingRunsAgree ==
  edits = 0 /\ (\A r \in Runs : pc[r] = "idle" /\ result[r] = "ok") =>
    \A o \in Outputs : UpToDate(o, version)

Beside == \E o \in Outputs : place[o] \in Dirs

\* A run fails only for a reason of its own: a configuration it refuses, invalid
\* sources, or a failed write. What an earlier run left on the disk is none,
\* unless the outputs are beside the interfaces, as in the README, and it was
\* left damaged there, or is being written now (reader.go:24-49).
FailsForAReason ==
  \A r \in Runs : result[r] = "error" =>
    reason[r] \/ (Beside /\ (faults > 0 \/ ~Alone(r)))

\* A bad key, sources that do not parse, a template that does not compile or a
\* file that cannot be opened cost no file its content: a file is damaged only
\* while somebody writes it, after a crash or a failed write, or when processes
\* overlapped while the sources changed (runner.go:84-110).
ErrorsKeepFiles ==
  \A o \in Outputs :
    disk[o].state \in {"cut", "mixed"} =>
      \/ faults > 0 \/ \E r \in Runs : pc[r] = "write" /\ Output(r) = o
      \/ edits > 0 /\ ~\E r \in Runs : Alone(r)

\* A run ends.
RunsEnd == \A r \in Runs : pc[r] # "idle" ~> pc[r] = "idle"
=============================================================================
