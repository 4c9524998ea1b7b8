---------------------------- MODULE RunnerProofs ----------------------------
(***************************************************************************)
(* Theorems about Runner, for any number of processes and runs, any        *)
(* configuration, and any layout of the outputs.                           *)
(***************************************************************************)
EXTENDS Runner, SequenceLemmas, FiniteSetTheorems

Damaged(file) == file.state \in {"cut", "mixed"}

\* What the proofs need of the types.
Shape ==
  /\ place \in Layouts
  /\ disk = [o \in Outputs |-> disk[o]]
  /\ \A o \in Outputs : disk[o].state \in {"absent", "cut", "mixed", "complete"}
  /\ pc \in [Runs -> PCs] /\ result \in [Runs -> {"none", "ok", "error", "crashed"}]
  /\ reason \in [Runs -> BOOLEAN]
  /\ faults \in Nat /\ count \in [Runs -> Nat]
  /\ \A r \in Runs : pc[r] # "idle" => count[r] > 0

\* A process that no other ever disturbed, and no fault either, has damaged
\* nothing but the file it is writing, and that one it has just cut.
LoneInv ==
  \A r \in Runs : Alone(r) /\ faults = 0 =>
    /\ \A o \in Outputs : Damaged(disk[o]) => pc[r] = "write" /\ o = Output(r)
    /\ pc[r] = "write" /\ Output(r) \in Outputs => disk[Output(r)] = Cut

Healthy == LoneInv /\ FailsForAReason
RInv == Shape /\ Healthy

-----------------------------------------------------------------------------
(* The shape of the state. *)

\* What a file can be after one of the steps that change it.
LEMMA FileStates ==
  /\ Cut.state = "cut" /\ Mixed.state = "mixed" /\ Absent.state = "absent"
  /\ \A ps : Complete(ps).state = "complete"
  /\ \A file, ps : WriteOver(file, ps) \in {Complete(ps), Mixed}
  /\ \A ps : WriteOver(Cut, ps) = Complete(ps)
PROOF
  BY DEF Cut, Mixed, Absent, Complete, File, WriteOver

\* The step leaves file in the place of output o.
Writes(o, file) ==
  /\ disk' = [disk EXCEPT ![o] = file]
  /\ file.state \in {"absent", "cut", "mixed", "complete"}

\* Writing to a file of the outputs keeps the shape of the disk.
LEMMA DiskShape ==
  ASSUME Shape, NEW o, NEW file, Writes(o, file)
  PROVE  /\ disk' = [u \in Outputs |-> disk'[u]]
         /\ \A u \in Outputs : disk'[u].state \in {"absent", "cut", "mixed", "complete"}
         /\ \A u \in Outputs : disk'[u] = IF u = o THEN file ELSE disk[u]
PROOF
  <1>1. disk = [u \in Outputs |-> disk[u]]
    BY DEF Shape
  <1>2. disk' = [u \in Outputs |-> IF u = o THEN file ELSE disk[u]]
    BY <1>1 DEF Writes
  <1>3. \A u \in Outputs : disk'[u] = IF u = o THEN file ELSE disk[u]
    BY <1>2
  <1>4. disk' = [u \in Outputs |-> disk'[u]]
    BY <1>2, <1>3
  <1> QED BY <1>3, <1>4 DEF Shape, Writes

\* Files are absent and nobody runs at the start.
LEMMA InitShape == Init => Shape
PROOF
  <1> SUFFICES ASSUME Init PROVE Shape
    OBVIOUS
  <1>1. disk = [o \in Outputs |-> Absent]
    BY DEF Init
  <1>2. disk = [o \in Outputs |-> disk[o]]
    BY <1>1
  <1>3. \A o \in Outputs : disk[o].state = "absent"
    BY <1>1, FileStates
  <1> QED BY <1>2, <1>3 DEF Init, Shape, PCs

\* A process that begins has run once more.
LEMMA BeginsShape ==
  ASSUME Shape, NEW r \in Runs, Begins(r)
  PROVE  /\ place' = place /\ disk' = disk /\ faults' = faults
         /\ count' \in [Runs -> Nat] /\ count'[r] > 0
         /\ \A p \in Runs : count'[p] >= count[p]
PROOF
  BY DEF Begins, Shape, sources

\* So is the shape after a step of a process that runs.
LEMMA RunningShape ==
  ASSUME Shape, NEW r \in Runs, pc[r] # "idle", place' = place,
         disk' = [o \in Outputs |-> disk'[o]],
         \A o \in Outputs : disk'[o].state \in {"absent", "cut", "mixed", "complete"},
         NEW where \in PCs, pc' = [pc EXCEPT ![r] = where],
         NEW how \in {"none", "ok", "error", "crashed"},
         result' = [result EXCEPT ![r] = how] \/ result' = result,
         NEW why \in BOOLEAN, reason' = [reason EXCEPT ![r] = why],
         count' = count, faults' \in Nat
  PROVE  Shape'
PROOF
  <1>1. pc' \in [Runs -> PCs] /\ \A p \in Runs : pc'[p] # "idle" => count'[p] > 0
    BY DEF Shape
  <1>2. result' \in [Runs -> {"none", "ok", "error", "crashed"}] /\ reason' \in [Runs -> BOOLEAN]
    BY DEF Shape
  <1> QED BY <1>1, <1>2 DEF Shape

\* The files keep their shape when none is written.
LEMMA SameDisk ==
  ASSUME Shape, disk' = disk
  PROVE  /\ disk' = [o \in Outputs |-> disk'[o]]
         /\ \A o \in Outputs : disk'[o].state \in {"absent", "cut", "mixed", "complete"}
PROOF
  BY DEF Shape

\* A reason that is not set is as it was.
LEMMA SameReason ==
  ASSUME Shape, NEW r \in Runs, reason' = reason
  PROVE  reason[r] \in BOOLEAN /\ reason' = [reason EXCEPT ![r] = reason[r]]
PROOF
  BY DEF Shape

\* Every action keeps the shape.
LEMMA StepShape == Shape /\ [Next]_vars => Shape'
PROOF
  <1> SUFFICES ASSUME Shape, [Next]_vars PROVE Shape'
    OBVIOUS
  <1> USE DEF sources, local, history, bounds
  <1>1. ASSUME NEW r \in Runs, Start(r) PROVE Shape'
    <2>1. Begins(r) /\ UNCHANGED parts /\ pc' = [pc EXCEPT ![r] = "parse"]
          /\ result' = [result EXCEPT ![r] = "none"] /\ reason' = [reason EXCEPT ![r] = FALSE]
      BY <1>1 DEF Start
    <2> QED BY <2>1, BeginsShape DEF Shape, PCs
  <1>2. ASSUME NEW r \in Runs, LoadFails(r) \/ BadKey(r) PROVE Shape'
    <2>1. Begins(r) /\ pc' = [pc EXCEPT ![r] = "idle"]
          /\ result' = [result EXCEPT ![r] = "error"] /\ reason' = [reason EXCEPT ![r] = TRUE]
      BY <1>2 DEF LoadFails, BadKey, EndsAtOnce, Ends
    <2> QED BY <2>1, BeginsShape DEF Shape, PCs
  <1>3. ASSUME NEW r \in Runs, ParseEntry(r) PROVE Shape'
    <2>1. /\ pc[r] # "idle" /\ UNCHANGED <<place, disk, count, faults>>
          /\ \E k \in Keys :
               \/ /\ pc' = [pc EXCEPT ![r] = "generate"] \/ pc' = [pc EXCEPT ![r] = pc[r]]
                  /\ result' = result /\ reason' = reason
               \/ /\ pc' = [pc EXCEPT ![r] = "idle"] /\ result' = [result EXCEPT ![r] = "error"]
                  /\ reason' = [reason EXCEPT ![r] = reason[r] \/ DirOf[k] \in broken]
      BY <1>3 DEF ParseEntry, Ends
    <2>2. faults' \in Nat /\ pc[r] \in PCs /\ {"generate", "idle"} \subseteq PCs
      BY <2>1 DEF Shape, PCs
    <2>3. CASE result' = result /\ reason' = reason
      BY <2>1, <2>2, <2>3, RunningShape, SameDisk, SameReason
    <2>4. ASSUME NEW k \in Keys, pc' = [pc EXCEPT ![r] = "idle"],
                 result' = [result EXCEPT ![r] = "error"],
                 reason' = [reason EXCEPT ![r] = reason[r] \/ DirOf[k] \in broken]
          PROVE  Shape'
      <3>1. (reason[r] \/ DirOf[k] \in broken) \in BOOLEAN
        OBVIOUS
      <3> QED BY <2>1, <2>2, <2>4, <3>1, RunningShape, SameDisk
    <2> QED BY <2>1, <2>3, <2>4
  <1>4. ASSUME NEW r \in Runs, Generate(r) \/ OpenFails(r) PROVE Shape'
    <2>1. /\ pc[r] # "idle" /\ UNCHANGED <<place, disk, count, faults>>
          /\ \/ pc' = [pc EXCEPT ![r] = "open"] /\ result' = result /\ reason' = reason
             \/ /\ pc' = [pc EXCEPT ![r] = "idle"] /\ result' = [result EXCEPT ![r] = "error"]
                /\ reason' = [reason EXCEPT ![r] = TRUE]
      BY <1>4 DEF Generate, OpenFails, Ends
    <2>2. faults' \in Nat /\ {"open", "idle"} \subseteq PCs
      BY <2>1 DEF Shape, PCs
    <2> QED BY <2>1, <2>2, RunningShape, SameDisk, SameReason
  <1>5. ASSUME NEW r \in Runs, OpenTruncate(r) PROVE Shape'
    <2>1. /\ disk' = [o \in Outputs |-> disk'[o]]
          /\ \A o \in Outputs : disk'[o].state \in {"absent", "cut", "mixed", "complete"}
      <3>1. Writes(Output(r), Cut)
        BY <1>5, FileStates DEF OpenTruncate, Writes
      <3> QED BY <3>1, DiskShape
    <2>2. /\ pc[r] # "idle" /\ UNCHANGED <<place, count, faults, result, reason>>
          /\ pc' = [pc EXCEPT ![r] = "write"] /\ "write" \in PCs
      BY <1>5 DEF OpenTruncate, PCs
    <2>3. faults' \in Nat
      BY <2>2 DEF Shape
    <2> QED BY <2>1, <2>2, <2>3, RunningShape, SameReason
  <1>6. ASSUME NEW r \in Runs, Write(r) \/ WriteFails(r) PROVE Shape'
    <2>1. PICK file : Writes(Output(r), file)
      <3>1. CASE Write(r)
        <4>1. disk' = [disk EXCEPT ![Output(r)] = WriteOver(disk[Output(r)], parts[r])]
          BY <3>1 DEF Write
        <4> QED BY <4>1, FileStates DEF Writes
      <3>2. CASE WriteFails(r)
        <4>1. disk' = [disk EXCEPT ![Output(r)] = IF disk[Output(r)] = Cut THEN Cut ELSE Mixed]
          BY <3>2 DEF WriteFails
        <4> QED BY <4>1, FileStates DEF Writes
      <3> QED BY <1>6, <3>1, <3>2
    <2>2. /\ disk' = [o \in Outputs |-> disk'[o]]
          /\ \A o \in Outputs : disk'[o].state \in {"absent", "cut", "mixed", "complete"}
      BY <2>1, DiskShape
    <2>3. /\ pc[r] # "idle" /\ UNCHANGED <<place, count>>
          /\ faults' = faults \/ faults' = faults + 1
          /\ \/ /\ \/ pc' = [pc EXCEPT ![r] = "idle"] /\ result' = [result EXCEPT ![r] = "ok"]
                   \/ pc' = [pc EXCEPT ![r] = "parse"] /\ result' = result
                /\ reason' = reason
             \/ /\ pc' = [pc EXCEPT ![r] = "idle"] /\ result' = [result EXCEPT ![r] = "error"]
                /\ reason' = [reason EXCEPT ![r] = TRUE]
      BY <1>6 DEF Write, WriteFails, NextOutput, Ends
    <2>4. faults' \in Nat /\ {"parse", "idle"} \subseteq PCs
      BY <2>3 DEF Shape, PCs
    <2> QED BY <2>2, <2>3, <2>4, RunningShape, SameReason
  <1>7. ASSUME NEW r \in Runs, Crash(r) PROVE Shape'
    <2>1. /\ pc[r] # "idle" /\ UNCHANGED <<place, disk, count, reason>> /\ faults' = faults + 1
          /\ pc' = [pc EXCEPT ![r] = "idle"] /\ result' = [result EXCEPT ![r] = "crashed"]
      BY <1>7 DEF Crash, Ends
    <2>2. faults' \in Nat /\ "idle" \in PCs
      BY <2>1 DEF Shape, PCs
    <2> QED BY <2>1, <2>2, RunningShape, SameDisk, SameReason
  <1>8. ASSUME NEW d \in Dirs, Edit(d) PROVE Shape'
    <2>1. UNCHANGED <<place, disk, pc, result, reason, faults, count>>
      BY <1>8 DEF Edit
    <2> QED BY <2>1 DEF Shape
  <1>9. CASE UNCHANGED vars
    <2>1. UNCHANGED <<place, disk, pc, result, reason, faults, count>>
      BY <1>9 DEF vars
    <2> QED BY <2>1 DEF Shape
  <1> QED BY <1>1, <1>2, <1>3, <1>4, <1>5, <1>6, <1>7, <1>8, <1>9 DEF Next, RunSteps

-----------------------------------------------------------------------------
(* One process alone. *)

\* While a lone process does not write, every file is whole.
LEMMA LoneIsClean ==
  ASSUME LoneInv, NEW r \in Runs, Alone(r), faults = 0, pc[r] # "write"
  PROVE  \A o \in Outputs : ~Damaged(disk[o])
PROOF
  BY DEF LoneInv

\* A step of process p leaves no other process alone, and takes no excuse from
\* one: only p has to be looked at.
LEMMA OneProcess ==
  ASSUME RInv, NEW p \in Runs, place' = place,
         \A r \in Runs \ {p} : result'[r] = result[r] /\ reason'[r] = reason[r],
         faults' \in Nat, faults' >= faults,
         count' \in [Runs -> Nat], count'[p] > 0,
         \A r \in Runs : count'[r] >= count[r],
         result'[p] = "error" => reason'[p] \/ (Beside /\ (faults' > 0 \/ ~Alone(p)')),
         Alone(p)' /\ faults' = 0 =>
           /\ \A o \in Outputs : Damaged(disk'[o]) => pc'[p] = "write" /\ o = Output(p)'
           /\ pc'[p] = "write" /\ Output(p)' \in Outputs => disk'[Output(p)'] = Cut
  PROVE  Healthy'
PROOF
  <1>1. \A r \in Runs \ {p} : ~Alone(r)'
    BY DEF Alone
  <1>2. LoneInv'
    BY <1>1 DEF LoneInv, Damaged
  <1>3. Beside' <=> Beside
    BY DEF Beside
  <1>4. ASSUME NEW r \in Runs, result'[r] = "error"
        PROVE  reason'[r] \/ (Beside' /\ (faults' > 0 \/ ~Alone(r)'))
    <2>1. CASE r = p
      BY <1>3, <1>4, <2>1
    <2>2. CASE r # p
      BY <1>1, <1>3, <1>4, <2>2 DEF RInv, Healthy, FailsForAReason
    <2> QED BY <2>1, <2>2
  <1> QED BY <1>2, <1>4 DEF FailsForAReason, Healthy

\* A process that begins has found every file as it was.
LEMMA BeginsAlone ==
  ASSUME RInv, NEW r \in Runs, Begins(r), pc'[r] # "write",
         \A p \in Runs \ {r} : result'[p] = result[p] /\ reason'[p] = reason[p],
         result'[r] = "error" => reason'[r]
  PROVE  Healthy'
PROOF
  <1>1. Shape /\ LoneInv
    BY DEF RInv, Healthy
  <1>2. /\ place' = place /\ disk' = disk /\ faults' = faults
        /\ count' \in [Runs -> Nat] /\ count'[r] > 0
        /\ \A p \in Runs : count'[p] >= count[p]
    BY <1>1, BeginsShape
  <1>3. faults' \in Nat /\ faults' >= faults
    BY <1>1, <1>2 DEF Shape
  <1>4. Alone(r)' => Alone(r)
    BY <1>1, <1>2 DEF Alone, Shape, Begins
  <1>5. pc[r] # "write"
    BY DEF Begins
  <1>6. Alone(r)' /\ faults' = 0 => \A o \in Outputs : ~Damaged(disk'[o])
    BY <1>1, <1>2, <1>4, <1>5, LoneIsClean
  <1> QED BY <1>2, <1>3, <1>6, OneProcess

\* A process that goes on, without a fault: what it must not do is damage files.
LEMMA GoesOnAlone ==
  ASSUME RInv, NEW r \in Runs, pc[r] # "idle",
         UNCHANGED <<place, faults, count>>,
         \A p \in Runs \ {r} : result'[p] = result[p] /\ reason'[p] = reason[p],
         result'[r] = "error" => reason'[r] \/ (Beside /\ (faults > 0 \/ ~Alone(r))),
         Alone(r) /\ faults = 0 =>
           /\ \A o \in Outputs : Damaged(disk'[o]) => pc'[r] = "write" /\ o = Output(r)'
           /\ pc'[r] = "write" /\ Output(r)' \in Outputs => disk'[Output(r)'] = Cut
  PROVE  Healthy'
PROOF
  <1>1. /\ count' \in [Runs -> Nat] /\ count'[r] > 0
        /\ \A p \in Runs : count'[p] >= count[p]
        /\ faults' \in Nat /\ faults' >= faults
    BY DEF RInv, Shape
  <1>2. Alone(r)' <=> Alone(r)
    BY DEF Alone
  <1> QED BY <1>1, <1>2, OneProcess

\* A fault explains everything from then on.
LEMMA FaultAlone ==
  ASSUME RInv, NEW r \in Runs, pc[r] # "idle", UNCHANGED <<place, count>>, faults' = faults + 1,
         \A p \in Runs \ {r} : result'[p] = result[p] /\ reason'[p] = reason[p],
         result'[r] = "error" => reason'[r]
  PROVE  Healthy'
PROOF
  <1>1. /\ count' \in [Runs -> Nat] /\ count'[r] > 0
        /\ \A p \in Runs : count'[p] >= count[p]
        /\ faults' \in Nat /\ faults' >= faults /\ faults' # 0
    BY DEF RInv, Shape
  <1> QED BY <1>1, OneProcess

\* Every action keeps the invariant.
LEMMA StepLone == RInv /\ [Next]_vars => Healthy'
PROOF
  <1> SUFFICES ASSUME RInv, [Next]_vars PROVE Healthy'
    OBVIOUS
  <1> USE DEF sources, local, history, bounds
  <1>0. Shape /\ LoneInv /\ FailsForAReason
    BY DEF RInv, Healthy
  <1>1. ASSUME NEW r \in Runs, Start(r) \/ LoadFails(r) \/ BadKey(r) PROVE Healthy'
    <2>1. /\ Begins(r) /\ pc'[r] # "write"
          /\ \A p \in Runs \ {r} : result'[p] = result[p] /\ reason'[p] = reason[p]
          /\ result'[r] = "error" => reason'[r]
      BY <1>0, <1>1 DEF Start, LoadFails, BadKey, EndsAtOnce, Ends, Shape
    <2> QED BY <2>1, BeginsAlone
  <1>2. ASSUME NEW r \in Runs, ParseEntry(r) PROVE Healthy'
    <2>1. /\ UNCHANGED <<place, disk, faults, count>>
          /\ pc[r] = "parse" /\ pc'[r] \in {"parse", "generate", "idle"}
          /\ \A p \in Runs \ {r} : result'[p] = result[p] /\ reason'[p] = reason[p]
      BY <1>0, <1>2 DEF ParseEntry, Ends, Shape
    <2>2. ASSUME result'[r] = "error"
          PROVE  reason'[r] \/ (Beside /\ (faults > 0 \/ ~Alone(r)))
      <3>1. PICK k \in Keys :
              \/ result' = result /\ reason' = reason
              \/ ~Readable(DirOf[k]) /\ reason' = [reason EXCEPT ![r] = reason[r] \/ DirOf[k] \in broken]
        BY <1>2 DEF ParseEntry
      <3>2. CASE result' = result /\ reason' = reason
        BY <1>0, <2>2, <3>2 DEF FailsForAReason
      <3>3. CASE /\ ~Readable(DirOf[k])
                 /\ reason' = [reason EXCEPT ![r] = reason[r] \/ DirOf[k] \in broken]
        <4>1. CASE DirOf[k] \in broken
          BY <1>0, <3>3, <4>1 DEF Shape
        <4>2. CASE DirOf[k] \notin broken
          <5>1. PICK o \in Outputs : place[o] = DirOf[k] /\ disk[o].state \notin {"absent", "complete"}
            BY <3>3, <4>2 DEF Readable
          <5>2. Damaged(disk[o])
            BY <1>0, <5>1 DEF Shape, Damaged
          <5>3. Beside
            BY <5>1 DEF Beside, Dirs
          <5>4. faults > 0 \/ ~Alone(r)
            <6>1. faults = 0 => ~Alone(r)
              BY <1>0, <2>1, <5>2, LoneIsClean
            <6> QED BY <1>0, <6>1 DEF Shape
          <5> QED BY <5>3, <5>4
        <4> QED BY <4>1, <4>2
      <3> QED BY <3>1, <3>2, <3>3
    <2>3. Alone(r) /\ faults = 0 => \A o \in Outputs : ~Damaged(disk'[o])
      BY <1>0, <2>1, LoneIsClean
    <2> QED BY <2>1, <2>2, <2>3, GoesOnAlone
  <1>3. ASSUME NEW r \in Runs, Generate(r) \/ OpenFails(r) PROVE Healthy'
    <2>1. /\ UNCHANGED <<place, disk, faults, count>>
          /\ pc[r] \in {"generate", "open"} /\ pc'[r] \in {"open", "idle"}
          /\ \A p \in Runs \ {r} : result'[p] = result[p] /\ reason'[p] = reason[p]
          /\ \/ result'[r] = result[r] /\ reason'[r] = reason[r]
             \/ reason'[r]
      BY <1>0, <1>3 DEF Generate, OpenFails, Ends, Shape
    <2>2. result'[r] = "error" => reason'[r] \/ (Beside /\ (faults > 0 \/ ~Alone(r)))
      BY <1>0, <2>1 DEF FailsForAReason
    <2>3. Alone(r) /\ faults = 0 => \A o \in Outputs : ~Damaged(disk'[o])
      BY <1>0, <2>1, LoneIsClean
    <2> QED BY <2>1, <2>2, <2>3, GoesOnAlone
  <1>4. ASSUME NEW r \in Runs, OpenTruncate(r) PROVE Healthy'
    <2>1. /\ UNCHANGED <<place, faults, count, order, result, reason>>
          /\ pc[r] = "open" /\ pc'[r] = "write"
      BY <1>0, <1>4 DEF OpenTruncate, Shape
    <2>2. \A o \in Outputs : disk'[o] = IF o = Output(r) THEN Cut ELSE disk[o]
      <3>1. Writes(Output(r), Cut)
        BY <1>4, FileStates DEF OpenTruncate, Writes
      <3> QED BY <1>0, <3>1, DiskShape
    <2>3. Output(r)' = Output(r)
      BY <2>1 DEF Output
    <2>4. result'[r] = "error" => reason'[r] \/ (Beside /\ (faults > 0 \/ ~Alone(r)))
      BY <1>0, <2>1 DEF FailsForAReason
    <2>5. Alone(r) /\ faults = 0 =>
            /\ \A o \in Outputs : Damaged(disk'[o]) => pc'[r] = "write" /\ o = Output(r)'
            /\ pc'[r] = "write" /\ Output(r)' \in Outputs => disk'[Output(r)'] = Cut
      BY <1>0, <2>1, <2>2, <2>3, LoneIsClean
    <2>6. \A p \in Runs \ {r} : result'[p] = result[p] /\ reason'[p] = reason[p]
      BY <2>1
    <2>7. pc[r] # "idle" /\ UNCHANGED <<place, faults, count>>
      BY <2>1
    <2> QED BY <2>4, <2>5, <2>6, <2>7, GoesOnAlone
  <1>5. ASSUME NEW r \in Runs, Write(r) PROVE Healthy'
    <2>1. /\ UNCHANGED <<place, faults, count, reason>>
          /\ pc[r] = "write" /\ pc'[r] \in {"parse", "idle"}
          /\ disk' = [disk EXCEPT ![Output(r)] = WriteOver(disk[Output(r)], parts[r])]
          /\ \A p \in Runs \ {r} : result'[p] = result[p] /\ reason'[p] = reason[p]
          /\ result'[r] = result[r] \/ result'[r] = "ok"
      BY <1>0, <1>5 DEF Write, NextOutput, Ends, Shape
    <2>2. \A o \in Outputs :
            disk'[o] = IF o = Output(r) THEN WriteOver(disk[Output(r)], parts[r]) ELSE disk[o]
      <3>1. Writes(Output(r), WriteOver(disk[Output(r)], parts[r]))
        BY <2>1, FileStates DEF Writes
      <3> QED BY <1>0, <3>1, DiskShape
    <2>3. result'[r] = "error" => reason'[r] \/ (Beside /\ (faults > 0 \/ ~Alone(r)))
      BY <1>0, <2>1 DEF FailsForAReason
    <2>4. Alone(r) /\ faults = 0 => \A o \in Outputs : ~Damaged(disk'[o])
      <3> SUFFICES ASSUME Alone(r), faults = 0, NEW o \in Outputs
                   PROVE  ~Damaged(disk'[o])
        OBVIOUS
      <3>1. CASE o = Output(r)
        <4>1. disk[Output(r)] = Cut
          BY <1>0, <2>1, <3>1 DEF LoneInv
        <4> QED BY <2>2, <3>1, <4>1, FileStates DEF Damaged
      <3>2. CASE o # Output(r)
        BY <1>0, <2>2, <3>2 DEF LoneInv
      <3> QED BY <3>1, <3>2
    <2> QED BY <2>1, <2>3, <2>4, GoesOnAlone
  <1>6. ASSUME NEW r \in Runs, WriteFails(r) \/ Crash(r) PROVE Healthy'
    <2>1. /\ pc[r] # "idle" /\ UNCHANGED <<place, count>> /\ faults' = faults + 1
          /\ \A p \in Runs \ {r} : result'[p] = result[p] /\ reason'[p] = reason[p]
          /\ result'[r] = "error" => reason'[r]
      BY <1>0, <1>6 DEF WriteFails, Crash, Ends, Shape
    <2> QED BY <2>1, FaultAlone
  <1>7. ASSUME UNCHANGED <<place, disk, pc, order, result, reason, faults, count>> PROVE Healthy'
    <2>1. \A r : (Alone(r)' <=> Alone(r)) /\ Output(r)' = Output(r)
      BY <1>7 DEF Alone, Output
    <2>2. Beside' <=> Beside
      BY <1>7 DEF Beside
    <2>3. LoneInv'
      BY <1>0, <1>7, <2>1 DEF LoneInv, Damaged
    <2>4. FailsForAReason'
      BY <1>0, <1>7, <2>1, <2>2 DEF FailsForAReason
    <2> QED BY <2>3, <2>4 DEF Healthy
  <1>8. ASSUME NEW d \in Dirs, Edit(d) PROVE Healthy'
    BY <1>7, <1>8 DEF Edit
  <1>9. CASE UNCHANGED vars
    BY <1>7, <1>9 DEF vars
  <1> QED BY <1>1, <1>2, <1>3, <1>4, <1>5, <1>6, <1>8, <1>9 DEF Next, RunSteps

-----------------------------------------------------------------------------
(* The theorems. *)

\* No file is there and nobody has failed at the start.
LEMMA InitLone == Init => RInv
PROOF
  <1> SUFFICES ASSUME Init PROVE RInv
    OBVIOUS
  <1>1. \A o \in Outputs : ~Damaged(disk[o])
    BY FileStates DEF Init, Damaged
  <1>2. \A r \in Runs : pc[r] # "write" /\ result[r] # "error"
    BY DEF Init
  <1> QED BY <1>1, <1>2, InitShape DEF RInv, Healthy, LoneInv, FailsForAReason

\* The inductive invariant.
THEOREM RunnerInvariance == Spec => []RInv
PROOF
  <1>1. RInv /\ [Next]_vars => RInv'
    BY StepShape, StepLone DEF RInv
  <1> QED BY <1>1, InitLone, PTL DEF Spec

\* A run fails only for a reason of its own, unless a fault or another process
\* damaged an output beside the interfaces (runner.go:37-114, reader.go:24-49).
THEOREM FailuresHaveReasons == Spec => []FailsForAReason
PROOF
  <1>1. RInv => FailsForAReason
    BY DEF RInv, Healthy
  <1> QED BY <1>1, RunnerInvariance, PTL

\* Where nothing crashed, no write failed and no other process ever ran, a run
\* that is not writing has left every file whole, however it ended
\* (runner.go:79-113).
THEOREM LoneRunsKeepFiles ==
  Spec => [](\A r \in Runs : Alone(r) /\ faults = 0 /\ pc[r] # "write" =>
               \A o \in Outputs : disk[o].state \in {"absent", "complete"})
PROOF
  <1>1. RInv => \A r \in Runs : Alone(r) /\ faults = 0 /\ pc[r] # "write" =>
                  \A o \in Outputs : disk[o].state \in {"absent", "complete"}
    BY LoneIsClean DEF RInv, Healthy, Shape, Damaged
  <1> QED BY <1>1, RunnerInvariance, PTL

-----------------------------------------------------------------------------
(* What Run computes from the configuration. *)

\* The keys of the configuration are finitely many.
LEMMA KeysCounted ==
  /\ Len(KeyOrder) \in Nat /\ KeyOrder \in [1..Len(KeyOrder) -> Keys]
  /\ IsFiniteSet(Keys) /\ Cardinality(Keys) = Len(KeyOrder)
PROOF
  <1>1. Len(KeyOrder) \in Nat /\ KeyOrder \in [1..Len(KeyOrder) -> Keys]
    BY KeysAssumption, LenProperties
  <1>2. KeyOrder \in Bijection(1..Len(KeyOrder), Keys)
    BY <1>1, KeysAssumption DEF Bijection, Injection, Surjection, Keys, ToSet
  <1>3. ExistsBijection(1..Len(KeyOrder), Keys)
    BY <1>2 DEF ExistsBijection
  <1> QED BY <1>1, <1>3, FS_NatBijection, FS_CountingElements

\* However the map is traversed, every key comes by.
LEMMA TraversedKeys ==
  ASSUME NEW ks \in SetToSeqs(Keys)
  PROVE  ToSet(ks) = Keys
PROOF
  <1> DEFINE n == Cardinality(Keys)
  <1>1. n \in Nat /\ IsFiniteSet(Keys)
    BY KeysCounted
  <1>2. ks \in [1..n -> Keys] /\ \A i, j \in 1..n : i # j => ks[i] # ks[j]
    BY DEF SetToSeqs
  <1>3. ks \in Injection(1..n, Keys)
    BY <1>2 DEF Injection, IsInjective
  <1>4. Cardinality(1..n) = n
    BY <1>1, FS_Interval
  <1>5. ks \in Surjection(1..n, Keys)
    BY <1>1, <1>3, <1>4, FS_Injection
  <1> QED BY <1>2, <1>5 DEF Surjection, ToSet

\* So sort.Strings always gives the same.
LEMMA SortedIsKeyOrder ==
  ASSUME NEW ks \in SetToSeqs(Keys)
  PROVE  Sorted(ks) = KeyOrder
PROOF
  <1>1. \A i \in DOMAIN KeyOrder : KeyOrder[i] \in ToSet(ks)
    BY TraversedKeys, KeysCounted
  <1> QED BY <1>1, KeysAssumption, KeepAll DEF Sorted

\* Every output has a key, and no more than there are.
LEMMA KeysOfOutput ==
  ASSUME NEW o \in Outputs
  PROVE  /\ KeysOf(o) \in Seq(Keys) /\ Len(KeysOf(o)) \in 1..Len(KeyOrder)
         /\ ToSet(KeysOf(o)) = {k \in Keys : OutputOf[k] = o}
PROOF
  <1>1. KeysOf(o) \in Seq(Keys)
    BY KeysAssumption, KeepSeq DEF KeysOf
  <1>2. ToSet(KeysOf(o)) = {k \in Keys : OutputOf[k] = o}
    BY KeysAssumption, KeepElements DEF KeysOf, Keys
  <1>3. Len(KeysOf(o)) <= Len(KeyOrder)
    BY KeysAssumption, KeepInjective DEF KeysOf
  <1>4. Len(KeysOf(o)) # 0
    <2>1. PICK k \in Keys : OutputOf[k] = o
      BY DEF Outputs
    <2>2. k \in ToSet(KeysOf(o))
      BY <1>2, <2>1
    <2> QED BY <1>1, <2>2 DEF ToSet
  <1> QED BY <1>1, <1>2, <1>3, <1>4, KeysCounted

\* outFileOrder has every output once.
LEMMA OutFileOrderLemma ==
  /\ OutFileOrder(KeyOrder) \in Seq(Outputs)
  /\ ToSet(OutFileOrder(KeyOrder)) = Outputs
  /\ IsInjective(OutFileOrder(KeyOrder))
PROOF
  <1> DEFINE F == {k \in ToSet(KeyOrder) : k = Head(Group(KeyOrder, OutputOf[k]))}
             firsts == Keep(KeyOrder, F)
  <1>1. OutFileOrder(KeyOrder) = [i \in DOMAIN firsts |-> OutputOf[firsts[i]]]
    BY DEF OutFileOrder
  <1>2. firsts \in Seq(Keys) /\ IsInjective(firsts) /\ ToSet(firsts) = Keys \cap F
    BY KeysAssumption, KeepSeq, KeepInjective, KeepElements DEF Keys
  <1>3. \A o : Group(KeyOrder, o) = KeysOf(o)
    BY DEF Group, KeysOf
  <1>4. \A k \in F : k \in Keys /\ k = Head(KeysOf(OutputOf[k]))
    BY <1>3 DEF Keys
  <1>5. ASSUME NEW o \in Outputs PROVE Head(KeysOf(o)) \in F /\ OutputOf[Head(KeysOf(o))] = o
    <2>1. Head(KeysOf(o)) = KeysOf(o)[1] /\ 1 \in DOMAIN KeysOf(o)
      BY KeysOfOutput
    <2>2. Head(KeysOf(o)) \in {k \in Keys : OutputOf[k] = o}
      BY <2>1, KeysOfOutput DEF ToSet
    <2> QED BY <1>3, <2>2 DEF Keys
  <1> HIDE DEF firsts, F
  <1> DEFINE all == [i \in DOMAIN firsts |-> OutputOf[firsts[i]]]
  <1>6. /\ Len(firsts) \in Nat /\ DOMAIN firsts = 1..Len(firsts)
        /\ \A i \in 1..Len(firsts) : firsts[i] \in Keys /\ firsts[i] \in F
    BY <1>2 DEF ToSet
  <1>7. all \in Seq(Outputs)
    <2>1. all \in [1..Len(firsts) -> Outputs]
      BY <1>6 DEF Outputs
    <2> QED BY <1>6, <2>1, SeqDef
  <1>8. ToSet(all) = Outputs
    <2>1. ToSet(all) \subseteq Outputs
      BY <1>6 DEF ToSet, Outputs
    <2>2. ASSUME NEW o \in Outputs PROVE o \in ToSet(all)
      <3>1. Head(KeysOf(o)) \in ToSet(firsts)
        BY <1>2, <1>4, <1>5
      <3>2. PICK i \in DOMAIN firsts : firsts[i] = Head(KeysOf(o))
        BY <3>1 DEF ToSet
      <3> QED BY <1>5, <3>2 DEF ToSet
    <2> QED BY <2>1, <2>2
  <1>9. IsInjective(all)
    <2> SUFFICES ASSUME NEW i \in DOMAIN firsts, NEW j \in DOMAIN firsts,
                        OutputOf[firsts[i]] = OutputOf[firsts[j]]
                 PROVE  i = j
      BY DEF IsInjective
    <2>1. firsts[i] = firsts[j]
      BY <1>4, <1>6
    <2> QED BY <1>2, <2>1 DEF IsInjective
  <1> QED BY <1>1, <1>7, <1>8, <1>9

-----------------------------------------------------------------------------
(* The types, and what a run has done of its work. *)

\* The sources only get newer, and no newer than the edits made them.
Moves ==
  /\ edits \in 0..MaxEdits /\ faults \in 0..MaxFaults /\ count \in [Runs -> 0..MaxRuns]
  /\ broken \subseteq Dirs
  /\ version \in [Dirs -> Nat] /\ \A d \in Dirs : version[d] <= edits
  /\ began \in [Runs -> [Dirs -> Nat]]
  /\ \A r \in Runs : \A d \in Dirs : began[r][d] <= version[d]

\* What was parsed for an output is what its first keys say, not older than the run.
Collected(r) ==
  LET ks == KeysOf(Output(r)) IN
  /\ Len(parts[r]) <= Len(ks)
  /\ Len(parts[r]) = Len(ks) <=> pc[r] # "parse"
  /\ \A i \in 1..Len(parts[r]) :
       /\ parts[r][i].key = ks[i]
       /\ began[r][DirOf[ks[i]]] <= parts[r][i].version /\ parts[r][i].version <= edits

\* Where a run is.
Progress(r) ==
  /\ pc[r] = "idle" => keys[r] = << >> /\ order[r] = << >> /\ parts[r] = << >>
  /\ pc[r] # "idle" =>
       /\ keys[r] = KeyOrder /\ IsInjective(order[r])
       /\ order[r] = << >> => pc[r] = "parse" /\ Keys = {}
       /\ order[r] # << >> => Collected(r)

Locals ==
  /\ keys \in [Runs -> Seq(Keys)] /\ order \in [Runs -> Seq(Outputs)]
  /\ parts \in [Runs -> Seq(Parts)]

Working == Locals /\ \A r \in Runs : Progress(r)

\* What a complete file holds when no step was lost.
IsFor(ps, o) ==
  /\ ps \in Seq(Parts) /\ Len(ps) = Len(KeysOf(o))
  /\ \A i \in 1..Len(ps) : ps[i].key = KeysOf(o)[i] /\ ps[i].version <= edits

Files ==
  \A o \in Outputs :
    disk[o] \in {Absent, Cut, Mixed} \/ \E ps : disk[o] = Complete(ps) /\ IsFor(ps, o)

\* Every action keeps the order of the versions.
LEMMA StepMoves == Moves /\ [Next]_vars => Moves'
PROOF
  <1> SUFFICES ASSUME Moves, [Next]_vars PROVE Moves'
    OBVIOUS
  <1> USE DEF sources, local, history, bounds
  <1>1. ASSUME NEW r \in Runs, Start(r) \/ LoadFails(r) \/ BadKey(r) PROVE Moves'
    <2>1. Begins(r) /\ UNCHANGED <<version, broken, edits, faults>>
      BY <1>1 DEF Start, LoadFails, BadKey, EndsAtOnce, Begins
    <2>2. count' \in [Runs -> 0..MaxRuns]
      BY <2>1, BoundsAssumption DEF Begins, Moves
    <2>3. /\ began' \in [Runs -> [Dirs -> Nat]]
          /\ \A p \in Runs : \A d \in Dirs : began'[p][d] <= version[d]
      BY <2>1 DEF Begins, Moves
    <2> QED BY <2>1, <2>2, <2>3 DEF Moves
  <1>2. ASSUME NEW r \in Runs, RunSteps(r) \/ Crash(r) PROVE Moves'
    <2>1. /\ UNCHANGED <<version, broken, began, edits, count>>
          /\ faults' = faults \/ (faults < MaxFaults /\ faults' = faults + 1)
      BY <1>2 DEF RunSteps, ParseEntry, Generate, OpenFails, OpenTruncate, Write, WriteFails, Crash
    <2>2. faults' \in 0..MaxFaults
      BY <2>1, BoundsAssumption DEF Moves
    <2> QED BY <2>1, <2>2 DEF Moves
  <1>3. ASSUME NEW d \in Dirs, Edit(d) PROVE Moves'
    <2>1. /\ edits < MaxEdits /\ edits' = edits + 1 /\ UNCHANGED <<began, faults, count>>
          /\ version' = [version EXCEPT ![d] = version[d] + 1]
          /\ broken' \in {broken \ {d}, broken \cup {d}}
      BY <1>3 DEF Edit
    <2>2. edits' \in 0..MaxEdits /\ broken' \subseteq Dirs
      BY <2>1, BoundsAssumption DEF Moves
    <2>3. version' \in [Dirs -> Nat] /\ \A e \in Dirs : version'[e] <= edits' /\ version[e] <= version'[e]
      BY <2>1, BoundsAssumption DEF Moves
    <2>4. \A p \in Runs : \A e \in Dirs : began[p][e] <= version'[e]
      BY <2>3 DEF Moves
    <2> QED BY <2>1, <2>2, <2>3, <2>4 DEF Moves
  <1>4. CASE UNCHANGED vars
    BY <1>4 DEF vars, Moves
  <1> QED BY <1>1, <1>2, <1>3, <1>4 DEF Next

\* A run makes no progress by the step of another.
LEMMA ProgressKept ==
  ASSUME Moves, Moves', NEW r \in Runs, Progress(r), Locals,
         pc'[r] = pc[r], keys'[r] = keys[r], order'[r] = order[r],
         parts'[r] = parts[r], began'[r] = began[r], edits' >= edits
  PROVE  Progress(r)'
PROOF
  <1>1. Output(r)' = Output(r)
    BY DEF Output
  <1>2. \A i \in 1..Len(parts[r]) : parts[r][i].version \in Nat
    <2>1. parts[r] \in Seq(Parts)
      BY DEF Locals
    <2>2. \A i \in 1..Len(parts[r]) : parts[r][i] \in Parts
      BY <2>1, ElementOfSeq
    <2> QED BY <2>2, BoundsAssumption DEF Parts
  <1>3. edits \in Nat /\ edits' \in Nat
    BY BoundsAssumption DEF Moves
  <1>4. Collected(r) => Collected(r)'
    BY <1>1, <1>2, <1>3 DEF Collected, KeysOf
  <1> QED BY <1>4 DEF Progress

\* A run that ends leaves nothing behind.
LEMMA EndsWorking ==
  ASSUME Moves, Moves', Shape, Working, NEW r \in Runs, NEW how, Ends(r, how), edits' = edits,
         \A p \in Runs \ {r} : began'[p] = began[p]
  PROVE  Working'
PROOF
  <1>1. Locals'
    BY DEF Ends, Locals, Working
  <1>2. Progress(r)'
    BY DEF Ends, Locals, Working, Progress, Shape
  <1>3. ASSUME NEW p \in Runs \ {r} PROVE Progress(p)'
    <2>1. /\ pc'[p] = pc[p] /\ keys'[p] = keys[p] /\ order'[p] = order[p] /\ parts'[p] = parts[p]
          /\ edits' >= edits
      BY BoundsAssumption DEF Ends, Locals, Working, Shape, Moves
    <2> QED BY <2>1, ProgressKept DEF Working
  <1> QED BY <1>1, <1>2, <1>3 DEF Working

\* So does a run whose step is known to keep its own progress.
LEMMA GoesOnWorking ==
  ASSUME Moves, Moves', Shape, Working, NEW r \in Runs, edits' = edits, Locals', Progress(r)',
         \A p \in Runs \ {r} : /\ pc'[p] = pc[p] /\ keys'[p] = keys[p] /\ began'[p] = began[p]
                               /\ order'[p] = order[p] /\ parts'[p] = parts[p]
  PROVE  Working'
PROOF
  <1>1. edits' >= edits
    BY BoundsAssumption DEF Moves
  <1> QED BY <1>1, ProgressKept DEF Working

\* A run that begins has everything before it.
LEMMA StartWorking ==
  ASSUME Moves, Moves', Shape, Working, NEW r \in Runs, Start(r)
  PROVE  Working' /\ order'[r] = OutFileOrder(KeyOrder)
PROOF
  <1>1. /\ pc[r] = "idle" /\ began' = [began EXCEPT ![r] = version] /\ edits' = edits
        /\ parts' = parts
    BY DEF Start, Begins
  <1>2. PICK ks \in SetToSeqs(Keys) :
          /\ keys' = [keys EXCEPT ![r] = Sorted(ks)] /\ pc' = [pc EXCEPT ![r] = "parse"]
          /\ order' = [order EXCEPT ![r] = OutFileOrder(Sorted(ks))]
    BY DEF Start
  <1>3. /\ keys' = [keys EXCEPT ![r] = KeyOrder]
        /\ order' = [order EXCEPT ![r] = OutFileOrder(KeyOrder)]
    BY <1>2, SortedIsKeyOrder
  <1>4. Locals'
    BY <1>1, <1>3, KeysAssumption, OutFileOrderLemma DEF Locals, Working
  <1>5. /\ pc'[r] = "parse" /\ keys'[r] = KeyOrder /\ order'[r] = OutFileOrder(KeyOrder)
        /\ parts'[r] = << >>
    BY <1>1, <1>2, <1>3 DEF Shape, Locals, Working, Progress
  <1>6. ASSUME order'[r] # << >> PROVE Collected(r)'
    <2>1. Output(r)' \in Outputs
      BY <1>5, <1>6, OutFileOrderLemma, HeadTailProperties DEF Output
    <2>2. Len(KeysOf(Output(r)')) \in Nat \ {0}
      BY <2>1, KeysOfOutput, KeysCounted
    <2>3. Len(parts'[r]) = 0
      BY <1>5
    <2> QED BY <1>5, <2>2, <2>3 DEF Collected, KeysOf
  <1>7. order'[r] = << >> => Keys = {}
    <2> SUFFICES ASSUME order'[r] = << >>, Keys # {} PROVE FALSE
      OBVIOUS
    <2>1. Outputs # {}
      BY DEF Outputs
    <2> QED BY <1>5, <2>1, OutFileOrderLemma DEF ToSet
  <1>8. Progress(r)'
    BY <1>5, <1>6, <1>7, OutFileOrderLemma DEF Progress
  <1>9. \A p \in Runs \ {r} :
          /\ pc'[p] = pc[p] /\ keys'[p] = keys[p] /\ began'[p] = began[p]
          /\ order'[p] = order[p] /\ parts'[p] = parts[p]
    BY <1>1, <1>2, <1>3 DEF Shape, Locals, Working, Moves
  <1> QED BY <1>1, <1>4, <1>5, <1>8, <1>9, GoesOnWorking

\* What is at the head of the loop, while there is something to do.
LEMMA AtOutput ==
  ASSUME Working, NEW r \in Runs, pc[r] # "idle", Keys # {} \/ pc[r] # "parse"
  PROVE  /\ order[r] \in Seq(Outputs) /\ order[r] # << >> /\ Output(r) \in Outputs
         /\ keys[r] = KeyOrder /\ Entries(r) = KeysOf(Output(r)) /\ Collected(r)
         /\ parts[r] \in Seq(Parts)
PROOF
  <1>1. order[r] \in Seq(Outputs) /\ parts[r] \in Seq(Parts)
    BY DEF Working, Locals
  <1>2. order[r] # << >> /\ Collected(r) /\ keys[r] = KeyOrder
    BY DEF Working, Progress
  <1>3. Output(r) \in Outputs
    BY <1>1, <1>2, HeadTailProperties DEF Output
  <1>4. Entries(r) = KeysOf(Output(r))
    BY <1>2 DEF Entries, Group, KeysOf
  <1> QED BY <1>1, <1>2, <1>3, <1>4

\* One entry more is collected.
LEMMA ParseWorking ==
  ASSUME Moves, Moves', Shape, Working, NEW r \in Runs, ParseEntry(r), pc'[r] # "idle"
  PROVE  Working'
PROOF
  <1>1. /\ pc[r] = "parse" /\ Keys # {} /\ UNCHANGED <<version, began, edits>>
    BY DEF ParseEntry, sources, bounds
  <1>2. PICK k \in Keys :
          /\ k = Entry(r)
          /\ \/ /\ parts' = [parts EXCEPT ![r] = Append(@, Part(k, version[DirOf[k]]))]
                /\ pc' = [pc EXCEPT ![r] = IF Len(parts'[r]) = Len(Entries(r)) THEN "generate" ELSE @]
                /\ UNCHANGED <<keys, order>>
             \/ Ends(r, "error")
    BY DEF ParseEntry
  <1>3. ~Ends(r, "error")
    BY DEF Ends, Shape
  <1> DEFINE ks == KeysOf(Output(r))
             x == Part(k, version[DirOf[k]])
             ps == Append(parts[r], x)
  <1>4. /\ order[r] # << >> /\ Output(r) \in Outputs /\ Entries(r) = ks
        /\ Collected(r) /\ parts[r] \in Seq(Parts) /\ keys[r] = KeyOrder
    BY <1>1, AtOutput
  <1>5. Len(ks) \in Nat
    BY <1>4, KeysOfOutput, KeysCounted
  <1>6. /\ DirOf[k] \in Dirs /\ version[DirOf[k]] \in Nat /\ version[DirOf[k]] <= edits
        /\ began[r][DirOf[k]] <= version[DirOf[k]] /\ edits \in 0..MaxEdits
    BY DEF Dirs, Moves
  <1>7. x \in Parts /\ x.key = k /\ x.version = version[DirOf[k]]
    BY <1>6, BoundsAssumption DEF Part, Parts
  <1>8. k = ks[Len(parts[r]) + 1]
    BY <1>2, <1>4 DEF Entry
  <1> HIDE DEF x, ks
  <1>9. /\ ps \in Seq(Parts) /\ Len(ps) = Len(parts[r]) + 1 /\ ps[Len(parts[r]) + 1] = x
        /\ \A i \in 1..Len(parts[r]) : ps[i] = parts[r][i]
        /\ Len(parts[r]) \in Nat
    BY <1>4, <1>7, AppendProperties, LenProperties
  <1>10. /\ parts' = [parts EXCEPT ![r] = ps] /\ UNCHANGED <<keys, order>>
         /\ pc' = [pc EXCEPT ![r] = IF Len(parts'[r]) = Len(ks) THEN "generate" ELSE "parse"]
    BY <1>1, <1>2, <1>3, <1>4 DEF x
  <1> HIDE DEF ps
  <1>11. /\ Locals' /\ parts'[r] = ps
         /\ pc'[r] = IF Len(ps) = Len(ks) THEN "generate" ELSE "parse"
    BY <1>9, <1>10 DEF Locals, Working, Shape
  <1>12. Len(parts[r]) < Len(ks)
    BY <1>1, <1>4, <1>5, <1>9 DEF Collected, ks
  <1>13. Output(r)' = Output(r)
    BY <1>10 DEF Output
  <1>14. Collected(r)'
    <2>1. /\ Len(ps) <= Len(ks)
          /\ Len(ps) = Len(ks) <=> pc'[r] # "parse"
      BY <1>5, <1>9, <1>11, <1>12
    <2>2. ASSUME NEW i \in 1..Len(ps)
          PROVE  /\ ps[i].key = ks[i]
                 /\ began[r][DirOf[ks[i]]] <= ps[i].version /\ ps[i].version <= edits
      <3>1. CASE i \in 1..Len(parts[r])
        BY <1>4, <1>9, <3>1 DEF Collected, ks
      <3>2. CASE i = Len(parts[r]) + 1
        BY <1>6, <1>7, <1>8, <1>9, <3>2
      <3> QED BY <1>9, <3>1, <3>2
    <2>3. KeysOf(Output(r)') = ks
      BY <1>13 DEF ks
    <2>4. \A o : KeysOf(o)' = KeysOf(o)
      BY DEF KeysOf
    <2> QED BY <1>1, <1>11, <2>1, <2>2, <2>3, <2>4 DEF Collected
  <1>15. Progress(r)'
    <2>1. IsInjective(order[r]) /\ order'[r] = order[r] /\ keys'[r] = keys[r]
      BY <1>1, <1>10 DEF Working, Progress
    <2> QED BY <1>4, <1>11, <1>14, <2>1 DEF Progress
  <1>16. \A p \in Runs \ {r} :
          /\ pc'[p] = pc[p] /\ keys'[p] = keys[p] /\ began'[p] = began[p]
          /\ order'[p] = order[p] /\ parts'[p] = parts[p]
    BY <1>1, <1>10 DEF Shape, Locals, Working
  <1> QED BY <1>1, <1>11, <1>15, <1>16, GoesOnWorking

\* What is collected stays so while the file is generated, opened and written.
LEMMA SamePlaceWorking ==
  ASSUME Moves, Moves', Shape, Working, NEW r \in Runs, pc[r] \in {"generate", "open"},
         NEW where \in {"open", "write"}, pc' = [pc EXCEPT ![r] = where],
         UNCHANGED <<keys, order, parts, began, edits>>
  PROVE  Working'
PROOF
  <1>1. pc'[r] = where /\ Locals'
    BY DEF Shape, Working, Locals
  <1>2. order[r] # << >> /\ keys[r] = KeyOrder /\ Collected(r) /\ IsInjective(order[r])
    BY AtOutput DEF Working, Progress
  <1>3. Collected(r)'
    <2>1. Output(r)' = Output(r) /\ \A o : KeysOf(o)' = KeysOf(o)
      BY DEF Output, KeysOf
    <2> QED BY <1>1, <1>2, <2>1 DEF Collected
  <1>4. Progress(r)'
    BY <1>1, <1>2, <1>3 DEF Progress
  <1> QED BY <1>1, <1>4, GoesOnWorking DEF Shape

\* The loop goes on with one output less.
LEMMA NextWorking ==
  ASSUME Moves, Moves', Shape, Working, NEW r \in Runs, pc[r] = "write", Len(order[r]) # 1,
         NextOutput(r, Tail(order[r])), UNCHANGED <<keys, began, edits>>
  PROVE  Working'
PROOF
  <1>1. /\ order[r] \in Seq(Outputs) /\ order[r] # << >> /\ keys[r] = KeyOrder
    BY AtOutput
  <1>2. IsInjective(order[r])
    BY DEF Working, Progress
  <1> DEFINE left == Tail(order[r])
  <1>3. /\ left \in Seq(Outputs) /\ Len(left) = Len(order[r]) - 1 /\ left # << >>
        /\ Len(left) \in Nat /\ \A i \in 1..Len(left) : left[i] = order[r][i + 1]
    <2>1. Len(order[r]) \in Nat \ {0}
      BY <1>1, EmptySeq
    <2>2. /\ left \in Seq(Outputs) /\ Len(left) = Len(order[r]) - 1
          /\ \A i \in 1..Len(left) : left[i] = order[r][i + 1]
      BY <1>1, HeadTailProperties
    <2> HIDE DEF left
    <2>3. Len(left) # 0
      BY <2>1, <2>2
    <2>4. left # << >>
      BY <2>3
    <2> QED BY <2>1, <2>2, <2>4
  <1>4. IsInjective(left)
    <2> SUFFICES ASSUME NEW i \in 1..Len(left), NEW j \in 1..Len(left), left[i] = left[j]
                 PROVE  i = j
      BY <1>3 DEF IsInjective
    <2>1. order[r][i + 1] = order[r][j + 1]
      BY <1>3
    <2> QED BY <1>1, <1>2, <1>3, <2>1 DEF IsInjective
  <1> HIDE DEF left
  <1>5. /\ order' = [order EXCEPT ![r] = left] /\ parts' = [parts EXCEPT ![r] = << >>]
        /\ pc' = [pc EXCEPT ![r] = "parse"]
    BY DEF NextOutput, left
  <1>6. /\ Locals' /\ order'[r] = left /\ parts'[r] = << >> /\ pc'[r] = "parse"
        /\ keys'[r] = KeyOrder
    BY <1>1, <1>3, <1>5 DEF Shape, Locals, Working
  <1>7. Collected(r)'
    <2>1. Output(r)' \in Outputs
      BY <1>3, <1>6, HeadTailProperties DEF Output
    <2>2. Len(KeysOf(Output(r)')) \in Nat \ {0}
      BY <2>1, KeysOfOutput, KeysCounted
    <2> QED BY <1>6, <2>2 DEF Collected, KeysOf
  <1>8. Progress(r)'
    BY <1>3, <1>4, <1>6, <1>7 DEF Progress
  <1>9. \A p \in Runs \ {r} :
          /\ pc'[p] = pc[p] /\ keys'[p] = keys[p] /\ began'[p] = began[p]
          /\ order'[p] = order[p] /\ parts'[p] = parts[p]
    BY <1>5 DEF Shape, Locals, Working
  <1> QED BY <1>6, <1>8, <1>9, GoesOnWorking

\* Every action does its part of the work, or ends the run.
LEMMA StepWorking == Moves /\ Moves' /\ Shape /\ Working /\ [Next]_vars => Working'
PROOF
  <1> SUFFICES ASSUME Moves, Moves', Shape, Working, [Next]_vars PROVE Working'
    OBVIOUS
  <1> USE DEF sources, local, history, bounds
  <1>1. ASSUME NEW r \in Runs, Start(r) PROVE Working'
    BY <1>1, StartWorking
  <1>2. ASSUME NEW r \in Runs, LoadFails(r) \/ BadKey(r) PROVE Working'
    <2>1. Ends(r, "error") /\ edits' = edits /\ began' = [began EXCEPT ![r] = version]
      BY <1>2 DEF LoadFails, BadKey, EndsAtOnce, Begins
    <2>2. \A p \in Runs \ {r} : began'[p] = began[p]
      BY <2>1 DEF Moves
    <2> QED BY <2>1, <2>2, EndsWorking
  <1>3. ASSUME NEW r \in Runs, NEW how, Ends(r, how), UNCHANGED <<began, edits>> PROVE Working'
    BY <1>3, EndsWorking
  <1>4. ASSUME NEW r \in Runs, ParseEntry(r) PROVE Working'
    <2>1. UNCHANGED <<began, edits>> /\ (pc'[r] = "idle" => Ends(r, "error"))
      BY <1>4 DEF ParseEntry, Shape
    <2> QED BY <1>3, <1>4, <2>1, ParseWorking
  <1>5. ASSUME NEW r \in Runs, Generate(r) \/ OpenFails(r) PROVE Working'
    <2>1. /\ pc[r] \in {"generate", "open"} /\ UNCHANGED <<began, edits>>
          /\ \/ pc' = [pc EXCEPT ![r] = "open"] /\ UNCHANGED <<keys, order, parts>>
             \/ Ends(r, "error")
      BY <1>5 DEF Generate, OpenFails
    <2> QED BY <1>3, <2>1, SamePlaceWorking
  <1>6. ASSUME NEW r \in Runs, OpenTruncate(r) PROVE Working'
    <2>1. /\ pc[r] = "open" /\ pc' = [pc EXCEPT ![r] = "write"]
          /\ UNCHANGED <<keys, order, parts, began, edits>>
      BY <1>6 DEF OpenTruncate
    <2> QED BY <2>1, SamePlaceWorking
  <1>7. ASSUME NEW r \in Runs, Write(r) PROVE Working'
    <2>1. /\ pc[r] = "write" /\ UNCHANGED <<began, edits>>
          /\ \/ Ends(r, "ok")
             \/ Len(order[r]) # 1 /\ NextOutput(r, Tail(order[r])) /\ UNCHANGED keys
      BY <1>7 DEF Write
    <2> QED BY <1>3, <2>1, NextWorking
  <1>8. ASSUME NEW r \in Runs, WriteFails(r) \/ Crash(r) PROVE Working'
    <2>1. UNCHANGED <<began, edits>> /\ \E how : Ends(r, how)
      BY <1>8 DEF WriteFails, Crash
    <2> QED BY <1>3, <2>1
  <1>9. ASSUME UNCHANGED <<pc, keys, order, parts, began>>, edits' >= edits PROVE Working'
    <2>1. Locals'
      BY <1>9 DEF Working, Locals
    <2> QED BY <1>9, <2>1, ProgressKept DEF Working
  <1>10. ASSUME NEW d \in Dirs, Edit(d) PROVE Working'
    <2>1. UNCHANGED <<pc, keys, order, parts, began>> /\ edits' = edits + 1
      BY <1>10 DEF Edit
    <2>2. edits' >= edits
      BY <2>1, BoundsAssumption DEF Moves
    <2> QED BY <1>9, <2>1, <2>2
  <1>11. CASE UNCHANGED vars
    <2>1. UNCHANGED <<pc, keys, order, parts, began>> /\ edits' = edits
      BY <1>11 DEF vars
    <2>2. edits' >= edits
      BY <2>1, BoundsAssumption DEF Moves
    <2> QED BY <1>9, <2>1, <2>2
  <1> QED BY <1>1, <1>2, <1>4, <1>5, <1>6, <1>7, <1>8, <1>10, <1>11 DEF Next, RunSteps

\* What a run at "write" has collected is the content of its file.
LEMMA CollectedIsFor ==
  ASSUME Working, NEW r \in Runs, pc[r] \in {"generate", "open", "write"}
  PROVE  Output(r) \in Outputs /\ IsFor(parts[r], Output(r))
PROOF
  <1>1. /\ Output(r) \in Outputs /\ Collected(r) /\ parts[r] \in Seq(Parts)
    BY AtOutput
  <1> QED BY <1>1 DEF Collected, IsFor

\* It stays so when the sources are edited.
LEMMA StillFor ==
  ASSUME Moves, Moves', edits' >= edits, NEW ps, NEW o, IsFor(ps, o)
  PROVE  IsFor(ps, o)'
PROOF
  <1>1. \A i \in 1..Len(ps) : ps[i].version \in Nat
    <2>1. \A i \in 1..Len(ps) : ps[i] \in Parts
      BY ElementOfSeq DEF IsFor
    <2> QED BY <2>1, BoundsAssumption DEF Parts
  <1>2. edits \in Nat /\ edits' \in Nat
    BY BoundsAssumption DEF Moves
  <1> QED BY <1>1, <1>2 DEF IsFor, KeysOf

\* Every file is absent, damaged, or holds all it should.
LEMMA StepFiles == Moves /\ Moves' /\ Shape /\ Working /\ Files /\ [Next]_vars => Files'
PROOF
  <1> SUFFICES ASSUME Moves, Moves', Shape, Working, Files, [Next]_vars PROVE Files'
    OBVIOUS
  <1> USE DEF sources, local, history, bounds
  <1>1. ASSUME disk' = disk, edits' \in {edits, edits + 1} PROVE Files'
    <2>1. edits' >= edits
      BY <1>1, BoundsAssumption DEF Moves
    <2> QED BY <1>1, <2>1, StillFor DEF Files
  <1>2. ASSUME NEW r \in Runs, NEW file, Writes(Output(r), file), edits' = edits,
               file \in {Absent, Cut, Mixed} \/ file = Complete(parts[r]), pc[r] \in {"open", "write"}
        PROVE  Files'
    <2>1. \A u \in Outputs : disk'[u] = IF u = Output(r) THEN file ELSE disk[u]
      BY <1>2, DiskShape
    <2>2. IsFor(parts[r], Output(r))
      BY <1>2, CollectedIsFor
    <2>3. \A ps, o : IsFor(ps, o) => IsFor(ps, o)'
      BY <1>2, BoundsAssumption, StillFor DEF Moves
    <2> QED BY <1>2, <2>1, <2>2, <2>3 DEF Files
  <1>3. ASSUME NEW r \in Runs, Start(r) \/ LoadFails(r) \/ BadKey(r) \/ ParseEntry(r)
                 \/ Generate(r) \/ OpenFails(r) \/ Crash(r)
        PROVE  Files'
    <2>1. UNCHANGED <<disk, edits>>
      BY <1>3 DEF Start, LoadFails, BadKey, EndsAtOnce, Begins, ParseEntry, Generate, OpenFails, Crash
    <2> QED BY <1>1, <2>1
  <1>4. ASSUME NEW r \in Runs, OpenTruncate(r) PROVE Files'
    <2>1. Writes(Output(r), Cut) /\ edits' = edits /\ pc[r] = "open"
      BY <1>4, FileStates DEF OpenTruncate, Writes
    <2> QED BY <1>2, <2>1
  <1>5. ASSUME NEW r \in Runs, Write(r) PROVE Files'
    <2> DEFINE file == WriteOver(disk[Output(r)], parts[r])
    <2>1. /\ disk' = [disk EXCEPT ![Output(r)] = file] /\ edits' = edits /\ pc[r] = "write"
      BY <1>5 DEF Write
    <2>2. file \in {Complete(parts[r]), Mixed}
      BY FileStates
    <2>3. Writes(Output(r), file)
      BY <2>1, <2>2, FileStates DEF Writes
    <2> QED BY <1>2, <2>1, <2>2, <2>3
  <1>6. ASSUME NEW r \in Runs, WriteFails(r) PROVE Files'
    <2> DEFINE file == IF disk[Output(r)] = Cut THEN Cut ELSE Mixed
    <2>1. /\ disk' = [disk EXCEPT ![Output(r)] = file] /\ edits' = edits /\ pc[r] = "write"
      BY <1>6 DEF WriteFails
    <2>2. Writes(Output(r), file)
      BY <2>1, FileStates DEF Writes
    <2> QED BY <1>2, <2>1, <2>2
  <1>7. ASSUME NEW d \in Dirs, Edit(d) PROVE Files'
    BY <1>1, <1>7 DEF Edit
  <1>8. CASE UNCHANGED vars
    BY <1>1, <1>8 DEF vars
  <1> QED BY <1>3, <1>4, <1>5, <1>6, <1>7, <1>8 DEF Next, RunSteps

-----------------------------------------------------------------------------
(* The files of a run that no other process disturbs. *)

\* What is not before a lone run anymore it has done.
Done(r) ==
  /\ pc[r] = "write" => disk[Output(r)] = Cut
  /\ \A o \in Outputs : o \in ToSet(order[r]) \/ UpToDate(o, began[r])

LoneDone == \A r \in Runs : Alone(r) /\ pc[r] # "idle" => Done(r)

\* What a current file holds.
Current(file, o, since) ==
  /\ file.state = "complete"
  /\ [i \in DOMAIN file.parts |-> file.parts[i].key] = KeysOf(o)
  /\ \A i \in DOMAIN file.parts : since[DirOf[file.parts[i].key]] <= file.parts[i].version

LEMMA UpToDateIsCurrent ==
  ASSUME NEW o, NEW r
  PROVE  /\ UpToDate(o, began[r]) <=> Current(disk[o], o, began[r])
         /\ UpToDate(o, began[r])' <=> Current(disk'[o], o, began'[r])
PROOF
  BY DEF UpToDate, Current, KeysOf

\* What was collected makes a file current.
LEMMA CollectedIsCurrent ==
  ASSUME Working, NEW r \in Runs, pc[r] = "write"
  PROVE  Current(Complete(parts[r]), Output(r), began[r])
PROOF
  <1> DEFINE ks == KeysOf(Output(r))
             ps == parts[r]
  <1>1. Output(r) \in Outputs /\ Collected(r) /\ ps \in Seq(Parts)
    BY AtOutput
  <1>2. /\ ps \in [1..Len(ps) -> Parts] /\ ks \in [1..Len(ks) -> Keys]
    BY <1>1, KeysOfOutput, LenProperties
  <1>3. Len(ps) = Len(ks)
    BY <1>1 DEF Collected
  <1>4. \A i \in 1..Len(ps) : ps[i].key = ks[i] /\ began[r][DirOf[ks[i]]] <= ps[i].version
    BY <1>1 DEF Collected
  <1>5. [i \in DOMAIN ps |-> ps[i].key] = ks
    BY <1>2, <1>3, <1>4
  <1>6. Complete(ps).state = "complete" /\ Complete(ps).parts = ps
    BY DEF Complete, File
  <1> QED BY <1>2, <1>4, <1>5, <1>6 DEF Current

\* The files when a lone run has written one.
LEMMA WriteDone ==
  ASSUME Shape, Working, NEW r \in Runs, Done(r), Write(r), NEW o \in Outputs
  PROVE  o \in ToSet(Tail(order[r])) \/ UpToDate(o, began[r])'
PROOF
  <1>1. /\ pc[r] = "write" /\ began' = began
        /\ disk' = [disk EXCEPT ![Output(r)] = WriteOver(disk[Output(r)], parts[r])]
    BY DEF Write, history
  <1>2. disk[Output(r)] = Cut
    BY <1>1 DEF Done
  <1>3. WriteOver(disk[Output(r)], parts[r]) = Complete(parts[r])
    BY <1>2, FileStates
  <1>4. Writes(Output(r), Complete(parts[r]))
    BY <1>1, <1>3, FileStates DEF Writes
  <1>5. disk'[o] = IF o = Output(r) THEN Complete(parts[r]) ELSE disk[o]
    BY <1>4, DiskShape
  <1>6. CASE o = Output(r)
    BY <1>1, <1>5, <1>6, CollectedIsCurrent, UpToDateIsCurrent
  <1>7. CASE o # Output(r)
    <2>1. CASE o \in ToSet(order[r])
      <3>1. order[r] \in Seq(Outputs) /\ order[r] # << >>
        BY <1>1, AtOutput
      <3>2. PICK i \in 1..Len(order[r]) : order[r][i] = o
        BY <2>1, <3>1 DEF ToSet
      <3>3. /\ Len(order[r]) \in Nat \ {0} /\ Head(order[r]) = order[r][1]
            /\ Tail(order[r]) \in Seq(Outputs) /\ Len(Tail(order[r])) = Len(order[r]) - 1
            /\ \A j \in 1..Len(Tail(order[r])) : Tail(order[r])[j] = order[r][j + 1]
        BY <3>1, HeadTailProperties, EmptySeq
      <3>4. i # 1
        BY <1>7, <3>2, <3>3 DEF Output
      <3>5. i - 1 \in 1..Len(Tail(order[r])) /\ Tail(order[r])[i - 1] = o
        BY <3>2, <3>3, <3>4
      <3>6. DOMAIN Tail(order[r]) = 1..Len(Tail(order[r]))
        BY <3>3, LenProperties
      <3> QED BY <3>5, <3>6 DEF ToSet
    <2>2. CASE o \notin ToSet(order[r])
      <3>1. UpToDate(o, began[r])
        BY <2>2 DEF Done
      <3> QED BY <1>1, <1>5, <1>7, <3>1, UpToDateIsCurrent
    <2> QED BY <2>1, <2>2
  <1> QED BY <1>6, <1>7

\* What a lone run has done is not undone by its other steps.
LEMMA SameDone ==
  ASSUME NEW r \in Runs, Done(r), disk' = disk, began' = began, order' = order,
         pc'[r] # "write" \/ pc'[r] = pc[r]
  PROVE  Done(r)'
PROOF
  <1>1. Output(r)' = Output(r)
    BY DEF Output
  <1>2. \A o : UpToDate(o, began[r])' <=> UpToDate(o, began[r])
    BY UpToDateIsCurrent
  <1> QED BY <1>1, <1>2 DEF Done

\* Only the step of a lone run itself matters to it.
LEMMA LoneStep ==
  ASSUME Shape, Shape', NEW r \in Runs, count' \in [Runs -> Nat], count'[r] > 0,
         \A p \in Runs : count'[p] >= count[p],
         LoneDone, Alone(r) /\ Alone(r)' /\ pc'[r] # "idle" => Done(r)'
  PROVE  LoneDone'
PROOF
  <1>1. \A p \in Runs \ {r} : ~Alone(p)'
    BY DEF Alone
  <1>2. Alone(r)' => Alone(r)
    BY DEF Alone, Shape
  <1> QED BY <1>1, <1>2 DEF LoneDone

\* Every action keeps what lone runs have done.
LEMMA StepLoneDone ==
  Shape /\ Shape' /\ Moves /\ Moves' /\ Working /\ LoneDone /\ [Next]_vars => LoneDone'
PROOF
  <1> SUFFICES ASSUME Shape, Shape', Moves, Moves', Working, LoneDone, [Next]_vars
               PROVE  LoneDone'
    OBVIOUS
  <1> USE DEF sources, local, history, bounds
  <1>1. ASSUME NEW r \in Runs, Start(r) PROVE LoneDone'
    <2>1. /\ count' \in [Runs -> Nat] /\ count'[r] > 0 /\ \A p \in Runs : count'[p] >= count[p]
      BY <1>1, BeginsShape DEF Start
    <2>2. order'[r] = OutFileOrder(KeyOrder)
      BY <1>1, StartWorking
    <2>3. pc'[r] = "parse"
      BY <1>1 DEF Start, Shape
    <2>4. Done(r)'
      BY <2>2, <2>3, OutFileOrderLemma DEF Done
    <2> QED BY <2>1, <2>4, LoneStep
  <1>2. ASSUME NEW r \in Runs, LoadFails(r) \/ BadKey(r) PROVE LoneDone'
    <2>1. /\ Begins(r) /\ Ends(r, "error")
      BY <1>2 DEF LoadFails, BadKey, EndsAtOnce
    <2>2. /\ count' \in [Runs -> Nat] /\ count'[r] > 0 /\ \A p \in Runs : count'[p] >= count[p]
      BY <2>1, BeginsShape
    <2>3. pc'[r] = "idle"
      BY <2>1 DEF Ends, Shape
    <2> QED BY <2>2, <2>3, LoneStep
  <1>3. ASSUME NEW r \in Runs, pc[r] # "idle", count' = count,
               Alone(r) /\ Alone(r)' /\ pc'[r] # "idle" => Done(r)'
        PROVE  LoneDone'
    <2>1. /\ count' \in [Runs -> Nat] /\ count'[r] > 0 /\ \A p \in Runs : count'[p] >= count[p]
      BY <1>3 DEF Shape
    <2> QED BY <1>3, <2>1, LoneStep
  <1>4. ASSUME NEW r \in Runs, ParseEntry(r) \/ Generate(r) \/ OpenFails(r) PROVE LoneDone'
    <2>1. /\ pc[r] # "idle" /\ UNCHANGED <<disk, began, count>>
          /\ pc'[r] = "idle" \/ (order' = order /\ (pc'[r] # "write" \/ pc'[r] = pc[r]))
      BY <1>4 DEF ParseEntry, Generate, OpenFails, Ends, Shape
    <2> QED BY <1>3, <2>1, SameDone DEF LoneDone
  <1>5. ASSUME NEW r \in Runs, OpenTruncate(r) PROVE LoneDone'
    <2>1. /\ pc[r] = "open" /\ pc'[r] = "write" /\ UNCHANGED <<order, began, count>>
      BY <1>5 DEF OpenTruncate, Shape
    <2>2. Output(r) \in Outputs /\ order[r] \in Seq(Outputs) /\ order[r] # << >>
      BY <2>1, AtOutput
    <2>3. \A o \in Outputs : disk'[o] = IF o = Output(r) THEN Cut ELSE disk[o]
      <3>1. Writes(Output(r), Cut)
        BY <1>5, FileStates DEF OpenTruncate, Writes
      <3> QED BY <3>1, DiskShape
    <2>4. Output(r) \in ToSet(order[r])
      <3>1. 1 \in DOMAIN order[r] /\ Output(r) = order[r][1]
        BY <2>2, EmptySeq, HeadTailProperties DEF Output
      <3> QED BY <3>1 DEF ToSet
    <2>5. ASSUME Done(r) PROVE Done(r)'
      <3>1. Output(r)' = Output(r)
        BY <2>1 DEF Output
      <3>2. \A o \in Outputs \ {Output(r)} : UpToDate(o, began[r])' <=> UpToDate(o, began[r])
        BY <2>1, <2>3, UpToDateIsCurrent
      <3> QED BY <2>1, <2>2, <2>3, <2>4, <2>5, <3>1, <3>2 DEF Done
    <2> QED BY <1>3, <2>1, <2>5 DEF LoneDone
  <1>6. ASSUME NEW r \in Runs, Write(r) PROVE LoneDone'
    <2>1. pc[r] = "write" /\ UNCHANGED <<began, count>>
      BY <1>6 DEF Write
    <2>2. pc'[r] = "idle" \/ (pc'[r] = "parse" /\ order'[r] = Tail(order[r]))
      BY <1>6 DEF Write, Ends, NextOutput, Shape, Working, Locals
    <2>3. ASSUME Done(r), pc'[r] # "idle" PROVE Done(r)'
      BY <1>6, <2>2, <2>3, WriteDone DEF Done
    <2> QED BY <1>3, <2>1, <2>3 DEF LoneDone
  <1>7. ASSUME NEW r \in Runs, WriteFails(r) \/ Crash(r) PROVE LoneDone'
    <2>1. pc[r] # "idle" /\ count' = count /\ pc'[r] = "idle"
      BY <1>7 DEF WriteFails, Crash, Ends, Shape
    <2> QED BY <1>3, <2>1
  <1>8. ASSUME UNCHANGED <<pc, disk, began, order, count>> PROVE LoneDone'
    <2>1. \A r \in Runs : Alone(r)' <=> Alone(r)
      BY <1>8 DEF Alone
    <2> QED BY <1>8, <2>1, SameDone DEF LoneDone
  <1>9. ASSUME NEW d \in Dirs, Edit(d) PROVE LoneDone'
    BY <1>8, <1>9 DEF Edit
  <1>10. CASE UNCHANGED vars
    BY <1>8, <1>10 DEF vars
  <1> QED BY <1>1, <1>2, <1>4, <1>5, <1>6, <1>7, <1>9, <1>10 DEF Next, RunSteps

-----------------------------------------------------------------------------
(* The files of runs that overlap, while nobody edits the sources. *)

\* Process r has not written output o since it last began, or did not succeed.
Owes(r, o) == IF pc[r] = "idle" THEN result[r] # "ok" ELSE o \in ToSet(order[r])

\* It has not opened it either, so it will cut it.
Mends(r, o) == Owes(r, o) /\ ~(pc[r] = "write" /\ Output(r) = o)

\* A file that is not complete is still somebody's to write.
Settled(o) ==
  \/ disk[o].state = "complete"
  \/ disk[o] \in {Absent, Cut} /\ \E r \in Runs : Owes(r, o)
  \/ \E r \in Runs : Mends(r, o)

Owing == edits = 0 => \A o \in Outputs : Settled(o)

\* Without faults no file is mixed, and one that is cut is being written.
CutOnly ==
  faults = 0 /\ edits = 0 =>
    \A o \in Outputs :
      /\ disk[o] # Mixed
      /\ disk[o] = Cut => \E r \in Runs : pc[r] = "write" /\ Output(r) = o

Shared == Owing /\ CutOnly

\* Of unedited sources there is one content for a file.
LEMMA OneContent ==
  ASSUME Moves, edits = 0, NEW o \in Outputs, NEW ps, NEW qs, IsFor(ps, o), IsFor(qs, o)
  PROVE  ps = qs
PROOF
  <1>1. ps \in Seq(Parts) /\ qs \in Seq(Parts) /\ Len(ps) = Len(qs)
    BY DEF IsFor
  <1>2. ASSUME NEW i \in 1..Len(ps) PROVE ps[i] = qs[i]
    <2>1. ps[i] \in Parts /\ qs[i] \in Parts
      BY <1>1, ElementOfSeq
    <2>2. ps[i].key = qs[i].key /\ ps[i].version = 0 /\ qs[i].version = 0
      BY <1>1, <2>1, BoundsAssumption, SMTT(30) DEF IsFor, Parts
    <2> QED BY <2>1, <2>2 DEF Parts
  <1> QED BY <1>1, <1>2, SeqEqual

\* What others owe and mend does not change by a step of r.
LEMMA OthersOwe ==
  ASSUME NEW p, pc'[p] = pc[p], result'[p] = result[p], order'[p] = order[p], NEW o
  PROVE  (Owes(p, o)' <=> Owes(p, o)) /\ (Mends(p, o)' <=> Mends(p, o))
PROOF
  BY DEF Owes, Mends, Output

\* Nor do the steps of r matter that touch no file and leave more to write.
LEMMA MendingShared ==
  ASSUME Shared, NEW r \in Runs, disk' = disk, edits' = edits, faults' >= faults, faults \in Nat,
         faults' \in Nat,
         faults' = 0 => pc[r] # "write",
         \A p \in Runs \ {r} : pc'[p] = pc[p] /\ result'[p] = result[p] /\ order'[p] = order[p],
         \A o \in Outputs : Owes(r, o) => Mends(r, o)'
  PROVE  Shared'
PROOF
  <1>1. \A p \in Runs \ {r} : \A o : (Owes(p, o)' <=> Owes(p, o)) /\ (Mends(p, o)' <=> Mends(p, o))
    BY OthersOwe
  <1>2. \A o \in Outputs : Settled(o) => Settled(o)'
    <2>1. \A p \in Runs : \A o \in Outputs : (Owes(p, o) => Owes(p, o)') /\ (Mends(p, o) => Mends(p, o)')
      BY <1>1 DEF Mends
    <2> QED BY <2>1 DEF Settled
  <1>3. CutOnly'
    <2> SUFFICES ASSUME faults' = 0, edits' = 0, NEW o \in Outputs
                 PROVE  /\ disk'[o] # Mixed
                        /\ disk'[o] = Cut => \E p \in Runs : pc'[p] = "write" /\ Output(p)' = o
      BY DEF CutOnly, Mixed, Cut, File
    <2>1. faults = 0 /\ edits = 0
      OBVIOUS
    <2>2. \A p \in Runs : pc[p] = "write" /\ Output(p) = o => pc'[p] = "write" /\ Output(p)' = o
      BY DEF Output
    <2> QED BY <2>1, <2>2 DEF Shared, CutOnly
  <1> QED BY <1>2, <1>3 DEF Shared, Owing

\* A run that ends without success owes every file again.
LEMMA FailingShared ==
  ASSUME Shape, Working, Shared, NEW r \in Runs, NEW how, how # "ok", Ends(r, how), disk' = disk,
         edits' = edits, faults' \in Nat, faults' >= faults, faults' = 0 => pc[r] # "write"
  PROVE  Shared'
PROOF
  <1>1. pc'[r] = "idle" /\ result'[r] = how
    BY DEF Ends, Shape
  <1>2. \A o \in Outputs : Mends(r, o)'
    BY <1>1 DEF Mends, Owes
  <1>3. \A p \in Runs \ {r} : pc'[p] = pc[p] /\ result'[p] = result[p] /\ order'[p] = order[p]
    BY DEF Ends, Shape, Working, Locals
  <1> QED BY <1>2, <1>3, MendingShared DEF Shape

\* A run that writes completes a file that is not mixed, and owes one file less.
LEMMA WriteShared ==
  ASSUME Shape, Moves, Working, Files, Shared, NEW r \in Runs, Write(r)
  PROVE  Shared'
PROOF
  <1> DEFINE u == Output(r)
             file == WriteOver(disk[u], parts[r])
  <1>1. /\ pc[r] = "write" /\ UNCHANGED <<edits, faults>>
        /\ disk' = [disk EXCEPT ![u] = file]
    BY DEF Write, bounds
  <1>2. /\ order[r] \in Seq(Outputs) /\ order[r] # << >> /\ u \in Outputs
        /\ IsFor(parts[r], u)
    BY <1>1, AtOutput, CollectedIsFor
  <1>3. \A o \in Outputs : disk'[o] = IF o = u THEN file ELSE disk[o]
    <2>1. Writes(u, file)
      BY <1>1, FileStates DEF Writes
    <2> QED BY <2>1, DiskShape
  <1>4. \A p \in Runs \ {r} : pc'[p] = pc[p] /\ result'[p] = result[p] /\ order'[p] = order[p]
    BY DEF Write, Ends, NextOutput, Shape, Working, Locals
  <1>5. \A p \in Runs \ {r} : \A o : (Owes(p, o)' <=> Owes(p, o)) /\ (Mends(p, o)' <=> Mends(p, o))
    BY <1>4, OthersOwe
  <1>6. \/ pc'[r] = "idle" /\ Len(order[r]) = 1
        \/ pc'[r] = "parse" /\ order'[r] = Tail(order[r])
    BY DEF Write, Ends, NextOutput, Shape, Working, Locals
  <1>7. ASSUME edits = 0, disk[u] # Mixed PROVE file = Complete(parts[r])
    <2>1. CASE disk[u] \in {Absent, Cut}
      BY <2>1 DEF WriteOver
    <2>2. CASE disk[u] \notin {Absent, Cut}
      <3>1. PICK ps : disk[u] = Complete(ps) /\ IsFor(ps, u)
        BY <1>2, <1>7, <2>2 DEF Files
      <3>2. ps = parts[r]
        BY <1>2, <1>7, <3>1, OneContent
      <3> QED BY <3>1, <3>2 DEF WriteOver
    <2> QED BY <2>1, <2>2
  <1> HIDE DEF u, file
  <1>8. ASSUME NEW o \in Outputs, o # u, Owes(r, o) PROVE Mends(r, o)'
    <2>1. o \in ToSet(order[r])
      BY <1>1, <1>8 DEF Owes
    <2>2. PICK i \in 1..Len(order[r]) : order[r][i] = o
      BY <1>2, <2>1 DEF ToSet
    <2>3. /\ Len(order[r]) \in Nat \ {0} /\ Head(order[r]) = order[r][1]
          /\ Tail(order[r]) \in Seq(Outputs) /\ Len(Tail(order[r])) = Len(order[r]) - 1
          /\ \A j \in 1..Len(Tail(order[r])) : Tail(order[r])[j] = order[r][j + 1]
      BY <1>2, HeadTailProperties, EmptySeq
    <2>4. i # 1
      BY <1>8, <2>2, <2>3 DEF Output, u
    <2>5. /\ i - 1 \in 1..Len(Tail(order[r])) /\ Tail(order[r])[i - 1] = o
          /\ DOMAIN Tail(order[r]) = 1..Len(Tail(order[r]))
      BY <2>2, <2>3, <2>4, LenProperties
    <2>6. o \in ToSet(Tail(order[r]))
      BY <2>5 DEF ToSet
    <2>7. Len(order[r]) # 1
      BY <2>2, <2>3, <2>4
    <2> QED BY <1>6, <2>6, <2>7 DEF Mends, Owes
  <1>9. ASSUME edits = 0, NEW o \in Outputs, Settled(o) PROVE Settled(o)'
    <2>1. CASE o = u
      <3>1. CASE disk[u] = Mixed
        <4>1. PICK p \in Runs : Mends(p, u)
          BY <1>9, <2>1, <3>1, FileStates DEF Settled
        <4>2. p # r
          BY <1>1, <4>1 DEF Mends, u
        <4> QED BY <1>5, <2>1, <4>1, <4>2 DEF Settled
      <3>2. CASE disk[u] # Mixed
        <4>1. disk'[o].state = "complete"
          BY <1>3, <1>7, <1>9, <2>1, <3>2, FileStates
        <4> QED BY <4>1 DEF Settled
      <3> QED BY <3>1, <3>2
    <2>2. CASE o # u
      <3>1. disk'[o] = disk[o]
        BY <1>3, <2>2
      <3>2. \A p \in Runs : (Owes(p, o) => Owes(p, o)') /\ (Mends(p, o) => Mends(p, o)')
        BY <1>5, <1>8, <2>2 DEF Mends
      <3> QED BY <1>9, <3>1, <3>2 DEF Settled, Absent, Cut, File
    <2> QED BY <2>1, <2>2
  <1>10. CutOnly'
    <2> SUFFICES ASSUME faults = 0, edits = 0, NEW o \in Outputs
                 PROVE  /\ disk'[o] # Mixed
                        /\ disk'[o] = Cut => \E p \in Runs : pc'[p] = "write" /\ Output(p)' = o
      BY <1>1 DEF CutOnly, Mixed, Cut, File
    <2>1. CASE o = u
      <3>1. disk'[o] = Complete(parts[r])
        BY <1>2, <1>3, <1>7, <2>1 DEF Shared, CutOnly
      <3> QED BY <3>1 DEF Complete, Mixed, Cut, File
    <2>2. CASE o # u
      <3>1. disk'[o] = disk[o]
        BY <1>3, <2>2
      <3>2. \A p \in Runs : pc[p] = "write" /\ Output(p) = o => pc'[p] = "write" /\ Output(p)' = o
        BY <1>4, <2>2 DEF Output, u
      <3> QED BY <3>1, <3>2 DEF Shared, CutOnly
    <2> QED BY <2>1, <2>2
  <1> QED BY <1>1, <1>9, <1>10 DEF Shared, Owing

\* Every action keeps it.
LEMMA StepShared ==
  Shape /\ Shape' /\ Moves /\ Moves' /\ Working /\ Files /\ Shared /\ [Next]_vars => Shared'
PROOF
  <1> SUFFICES ASSUME Shape, Shape', Moves, Moves', Working, Files, Shared, [Next]_vars
               PROVE  Shared'
    OBVIOUS
  <1> USE DEF sources, local, history, bounds
  <1>1. ASSUME NEW r \in Runs, Start(r) PROVE Shared'
    <2>1. /\ pc[r] = "idle" /\ UNCHANGED <<disk, edits, faults>>
          /\ pc'[r] = "parse" /\ order'[r] = OutFileOrder(KeyOrder)
      BY <1>1, StartWorking DEF Start, Begins, Shape
    <2>2. \A o \in Outputs : Mends(r, o)'
      BY <2>1, OutFileOrderLemma DEF Mends, Owes
    <2>3. \A p \in Runs \ {r} : pc'[p] = pc[p] /\ result'[p] = result[p] /\ order'[p] = order[p]
      BY <1>1 DEF Start, Shape, Working, Locals
    <2> QED BY <2>1, <2>2, <2>3, MendingShared DEF Shape
  <1>2. ASSUME NEW r \in Runs, NEW how, how # "ok", Ends(r, how), pc[r] # "write",
               UNCHANGED <<disk, edits, faults>>
        PROVE  Shared'
    BY <1>2, FailingShared DEF Shape
  <1>3. ASSUME NEW r \in Runs, LoadFails(r) \/ BadKey(r) PROVE Shared'
    BY <1>2, <1>3 DEF LoadFails, BadKey, EndsAtOnce, Begins
  <1>4. ASSUME NEW r \in Runs, ParseEntry(r) \/ Generate(r) \/ OpenFails(r) PROVE Shared'
    <2>1. /\ pc[r] \in {"parse", "generate", "open"} /\ UNCHANGED <<disk, edits, faults>>
      BY <1>4 DEF ParseEntry, Generate, OpenFails
    <2>2. CASE Ends(r, "error")
      BY <1>2, <2>1, <2>2
    <2>3. CASE ~Ends(r, "error")
      <3>1. /\ UNCHANGED <<order, result>> /\ pc'[r] \in {"parse", "generate", "open"}
            /\ \A p \in Runs \ {r} : pc'[p] = pc[p]
        BY <1>4, <2>3 DEF ParseEntry, Generate, OpenFails, Shape
      <3>2. \A o \in Outputs : Owes(r, o) => Mends(r, o)'
        BY <2>1, <3>1 DEF Owes, Mends
      <3> QED BY <2>1, <3>1, <3>2, MendingShared DEF Shape
    <2> QED BY <2>2, <2>3
  <1>5. ASSUME NEW r \in Runs, OpenTruncate(r) PROVE Shared'
    <2>1. /\ pc[r] = "open" /\ pc'[r] = "write" /\ UNCHANGED <<order, result, edits, faults>>
          /\ \A p \in Runs \ {r} : pc'[p] = pc[p]
      BY <1>5 DEF OpenTruncate, Shape
    <2>2. Output(r) \in Outputs /\ order[r] \in Seq(Outputs) /\ order[r] # << >>
      BY <2>1, AtOutput
    <2>3. \A o \in Outputs : disk'[o] = IF o = Output(r) THEN Cut ELSE disk[o]
      <3>1. Writes(Output(r), Cut)
        BY <1>5, FileStates DEF OpenTruncate, Writes
      <3> QED BY <3>1, DiskShape
    <2>4. Output(r) \in ToSet(order[r])
      <3>1. 1 \in DOMAIN order[r] /\ Output(r) = order[r][1]
        BY <2>2, EmptySeq, HeadTailProperties DEF Output
      <3> QED BY <3>1 DEF ToSet
    <2>5. \A p : Output(p)' = Output(p)
      BY <2>1 DEF Output
    <2>6. ASSUME NEW o \in Outputs, Settled(o) PROVE Settled(o)'
      <3>1. CASE o = Output(r)
        <4>1. Owes(r, o)'
          BY <2>1, <2>4, <3>1 DEF Owes
        <4> QED BY <2>3, <3>1, <4>1 DEF Settled, Cut, File
      <3>2. CASE o # Output(r)
        <4>1. \A p \in Runs : (Owes(p, o) => Owes(p, o)') /\ (Mends(p, o) => Mends(p, o)')
          BY <2>1, <2>5, <3>2 DEF Owes, Mends
        <4> QED BY <2>3, <2>6, <3>2, <4>1 DEF Settled, Absent, Cut, File
      <3> QED BY <3>1, <3>2
    <2>7. CutOnly'
      <3> SUFFICES ASSUME faults = 0, edits = 0, NEW o \in Outputs
                   PROVE  /\ disk'[o] # Mixed
                          /\ disk'[o] = Cut => \E p \in Runs : pc'[p] = "write" /\ Output(p)' = o
        BY <2>1 DEF CutOnly, Mixed, Cut, File
      <3>1. CASE o = Output(r)
        BY <2>1, <2>3, <2>5, <3>1 DEF Mixed, Cut, File
      <3>2. CASE o # Output(r)
        BY <2>1, <2>3, <2>5, <3>2 DEF Shared, CutOnly
      <3> QED BY <3>1, <3>2
    <2> QED BY <2>1, <2>6, <2>7 DEF Shared, Owing
  <1>6. ASSUME NEW r \in Runs, Write(r) PROVE Shared'
    BY <1>6, WriteShared
  <1>7. ASSUME NEW r \in Runs, Crash(r) PROVE Shared'
    <2>1. Ends(r, "crashed") /\ UNCHANGED <<disk, edits>> /\ faults' = faults + 1
      BY <1>7 DEF Crash
    <2>2. faults \in Nat
      BY DEF Shape
    <2> QED BY <2>1, <2>2, FailingShared
  <1>8. ASSUME NEW r \in Runs, WriteFails(r) PROVE Shared'
    <2>1. Ends(r, "error") /\ faults' = faults + 1
      BY <1>8 DEF WriteFails
    <2>2. faults' # 0
      BY <2>1 DEF Shape
    <2>3. \A o \in Outputs : Mends(r, o)'
      BY <2>1 DEF Ends, Shape, Mends, Owes
    <2> QED BY <2>2, <2>3 DEF Shared, Owing, Settled, CutOnly
  <1>9. ASSUME NEW d \in Dirs, Edit(d) PROVE Shared'
    <2>1. edits' # 0
      BY <1>9, BoundsAssumption DEF Edit, Moves
    <2> QED BY <2>1 DEF Shared, Owing, CutOnly
  <1>10. CASE UNCHANGED vars
    <2>1. UNCHANGED <<disk, pc, order, result, edits, faults>>
      BY <1>10 DEF vars
    <2>2. \A p : \A o : Owes(p, o)' = Owes(p, o) /\ Mends(p, o)' = Mends(p, o) /\ Output(p)' = Output(p)
      BY <2>1 DEF Owes, Mends, Output
    <2>3. Owing'
      BY <2>1, <2>2 DEF Shared, Owing, Settled, Absent, Cut, File
    <2>4. CutOnly'
      BY <2>1, <2>2 DEF Shared, CutOnly, Mixed, Cut, File
    <2> QED BY <2>3, <2>4 DEF Shared
  <1> QED BY <1>1, <1>3, <1>4, <1>5, <1>6, <1>7, <1>8, <1>9, <1>10 DEF Next, RunSteps

-----------------------------------------------------------------------------
(* The theorems about what a run did. *)

\* The second inductive invariant.
Work == Shape /\ Moves /\ Working /\ Files /\ LoneDone /\ Shared

\* Everybody owes every file at the start.
LEMMA InitWork == Init => Work
PROOF
  <1> SUFFICES ASSUME Init PROVE Work
    OBVIOUS
  <1>1. Shape
    BY InitShape
  <1>2. Moves
    BY BoundsAssumption DEF Init, Moves
  <1>3. Working
    <2>1. Locals
      BY EmptySeq DEF Init, Locals
    <2>2. \A r \in Runs : Progress(r)
      BY DEF Init, Progress
    <2> QED BY <2>1, <2>2 DEF Working
  <1>4. \A o \in Outputs : disk[o] = Absent
    BY DEF Init
  <1>5. Files /\ LoneDone
    BY <1>4 DEF Init, Files, LoneDone
  <1>6. Shared
    <2>1. \A r \in Runs : \A o \in Outputs : Owes(r, o)
      BY DEF Init, Owes
    <2>2. Owing
      BY <1>4, <2>1, RunsAssumption DEF Owing, Settled
    <2>3. CutOnly
      BY <1>4 DEF CutOnly, Absent, Mixed, Cut, File
    <2> QED BY <2>2, <2>3 DEF Shared
  <1> QED BY <1>1, <1>2, <1>3, <1>5, <1>6 DEF Work

THEOREM WorkInvariance == Spec => []Work
PROOF
  <1>1. Work /\ [Next]_vars => Work'
    BY StepShape, StepMoves, StepWorking, StepFiles, StepLoneDone, StepShared DEF Work
  <1> QED BY <1>1, InitWork, PTL DEF Spec

\* A file is damaged only while somebody writes it, after a crash or a failed
\* write, or when processes overlapped while the sources changed: no other error
\* costs a file its content (runner.go:84-110).
THEOREM ErrorsCostNothing == Spec => []ErrorsKeepFiles
PROOF
  <1>1. RInv /\ Work => ErrorsKeepFiles
    <2> SUFFICES ASSUME RInv, Work, NEW o \in Outputs, disk[o].state \in {"cut", "mixed"},
                        faults = 0, ~\E r \in Runs : pc[r] = "write" /\ Output(r) = o
                 PROVE  edits > 0 /\ ~\E r \in Runs : Alone(r)
      BY DEF ErrorsKeepFiles, RInv, Shape
    <2>1. \A r \in Runs : ~Alone(r)
      BY DEF RInv, Healthy, LoneInv, Damaged
    <2>2. edits # 0
      <3> SUFFICES ASSUME edits = 0 PROVE FALSE
        OBVIOUS
      <3>1. disk[o] # Mixed /\ disk[o] # Cut /\ disk[o] # Absent
        BY FileStates DEF Work, Shared, CutOnly
      <3>2. \E ps : disk[o] = Complete(ps)
        BY <3>1 DEF Work, Files
      <3> QED BY <3>2, FileStates
    <2> QED BY <2>1, <2>2, BoundsAssumption DEF Work, Moves
  <1> QED BY <1>1, RunnerInvariance, WorkInvariance, PTL

\* Runs that overlap on unchanged sources do each other no harm, whatever
\* crashed or failed before: when each has ended with success, every file is
\* complete and current (runner.go:79-113).
THEOREM OverlapIsHarmless == Spec => []OverlappingRunsAgree
PROOF
  <1>1. Work => OverlappingRunsAgree
    <2> SUFFICES ASSUME Work, edits = 0, \A r \in Runs : pc[r] = "idle" /\ result[r] = "ok",
                        NEW o \in Outputs
                 PROVE  UpToDate(o, version)
      BY DEF OverlappingRunsAgree
    <2>1. disk[o].state = "complete"
      BY DEF Work, Shared, Owing, Settled, Mends, Owes
    <2>2. PICK ps : disk[o] = Complete(ps) /\ IsFor(ps, o)
      BY <2>1, FileStates DEF Work, Files
    <2> DEFINE ks == KeysOf(o)
    <2>3. ps \in [1..Len(ps) -> Parts] /\ ks \in [1..Len(ks) -> Keys] /\ Len(ps) = Len(ks)
      BY <2>2, KeysOfOutput, LenProperties DEF IsFor
    <2>4. \A i \in 1..Len(ps) : ps[i].key = ks[i] /\ ps[i].version \in Nat
      BY <2>2, <2>3, BoundsAssumption DEF IsFor, Parts
    <2>5. [i \in DOMAIN ps |-> ps[i].key] = ks
      BY <2>3, <2>4
    <2>6. disk[o].parts = ps
      BY <2>2 DEF Complete, File
    <2>7. \A i \in 1..Len(ps) : version[DirOf[ps[i].key]] <= ps[i].version
      <3> SUFFICES ASSUME NEW i \in 1..Len(ps) PROVE version[DirOf[ps[i].key]] <= ps[i].version
        OBVIOUS
      <3>1. DirOf[ps[i].key] \in Dirs
        BY <2>3, <2>4 DEF Dirs
      <3>2. version[DirOf[ps[i].key]] = 0
        BY <3>1 DEF Work, Moves
      <3> QED BY <2>4, <3>2
    <2> QED BY <2>1, <2>3, <2>5, <2>6, <2>7 DEF UpToDate
  <1> QED BY <1>1, WorkInvariance, PTL

\* When the only process answers success, every output is complete, has its
\* repositories in the order of their keys and none older than the run, whatever
\* order the map had and however its earlier runs ended (runner.go:49-114).
THEOREM SuccessIsCompleteHolds == Spec => SuccessIsComplete
PROOF
  <1>1. Work /\ [Next]_vars =>
          \A r \in Runs : Alone(r) /\ result[r] # "ok" /\ result'[r] = "ok" =>
            \A o \in Outputs : UpToDate(o, began[r])'
    <2> SUFFICES ASSUME Work, [Next]_vars, NEW r \in Runs, Alone(r),
                        result[r] # "ok", result'[r] = "ok", NEW o \in Outputs
                 PROVE  UpToDate(o, began[r])'
      OBVIOUS
    <2>1. Shape
      BY DEF Work
    <2>2. Write(r) /\ Len(order[r]) = 1
      <3>1. \A p \in Runs : ~Start(p) /\ ~LoadFails(p) /\ ~BadKey(p) /\ ~ParseEntry(p) /\ ~Generate(p)
                            /\ ~OpenFails(p) /\ ~OpenTruncate(p) /\ ~WriteFails(p) /\ ~Crash(p)
        BY <2>1 DEF Shape, Start, LoadFails, BadKey, EndsAtOnce, ParseEntry, Generate, OpenFails,
                    OpenTruncate, WriteFails, Crash, Ends
      <3>2. \A d \in Dirs : ~Edit(d)
        BY DEF Edit
      <3>3. result' # result
        OBVIOUS
      <3>4. \E p \in Runs : Write(p)
        BY <3>1, <3>2, <3>3 DEF Next, RunSteps, vars
      <3>5. PICK p \in Runs : Write(p)
        BY <3>4
      <3>6. p = r /\ Len(order[p]) = 1
        BY <2>1, <3>5 DEF Write, Ends, NextOutput, Shape
      <3> QED BY <3>5, <3>6
    <2>3. pc[r] = "write"
      BY <2>2 DEF Write
    <2>4. Done(r)
      BY <2>3 DEF Work, LoneDone
    <2>5. o \notin ToSet(Tail(order[r]))
      <3>1. order[r] \in Seq(Outputs) /\ order[r] # << >>
        BY <2>3, AtOutput DEF Work
      <3>2. Tail(order[r]) \in Seq(Outputs) /\ Len(Tail(order[r])) = 0
        BY <2>2, <3>1, HeadTailProperties
      <3>3. DOMAIN Tail(order[r]) = 1..0
        BY <3>2, LenProperties
      <3>4. \A i \in 1..0 : FALSE
        OBVIOUS
      <3> QED BY <3>3, <3>4 DEF ToSet
    <2> QED BY <2>2, <2>4, <2>5, WriteDone DEF Work
  <1> QED BY <1>1, WorkInvariance, PTL DEF Spec, SuccessIsComplete

\* The types: among others, a run writes no output twice.
THEOREM TypeCorrect == Spec => []TypeOK
PROOF
  <1>1. Work => TypeOK
    <2> SUFFICES ASSUME Work PROVE TypeOK
      OBVIOUS
    <2>1. Shape /\ Moves /\ Locals /\ Files /\ \A r \in Runs : Progress(r)
      BY DEF Work, Working
    <2>2. \A o \in Outputs : disk[o] \in {Absent, Cut, Mixed} \/ \E n \in 1..Len(KeyOrder) :
            disk[o] = Complete(SubSeq(disk[o].parts, 1, n)) /\ disk[o].parts \in Seq(Parts)
      <3> SUFFICES ASSUME NEW o \in Outputs, disk[o] \notin {Absent, Cut, Mixed}
                   PROVE  \E n \in 1..Len(KeyOrder) :
                            /\ disk[o] = Complete(SubSeq(disk[o].parts, 1, n))
                            /\ disk[o].parts \in Seq(Parts)
        OBVIOUS
      <3>1. PICK ps : disk[o] = Complete(ps) /\ IsFor(ps, o)
        BY <2>1 DEF Files
      <3>2. ps \in Seq(Parts) /\ Len(ps) \in 1..Len(KeyOrder)
        BY <3>1, KeysOfOutput DEF IsFor
      <3>3. disk[o].parts = ps
        BY <3>1 DEF Complete, File
      <3>4. SubSeq(ps, 1, Len(ps)) = ps
        BY <3>2, SubSeqFull
      <3> QED BY <3>1, <3>2, <3>3, <3>4
    <2>3. \A r \in Runs : keys[r] \in {<< >>} \cup SetToSeqs(Keys)
      <3>1. KeyOrder \in SetToSeqs(Keys)
        BY KeysCounted, KeysAssumption DEF SetToSeqs, IsInjective
      <3> QED BY <2>1, <3>1 DEF Progress
    <2>4. ASSUME NEW r \in Runs
          PROVE  ToSet(order[r]) \subseteq Outputs /\ Len(order[r]) <= Cardinality(Outputs)
      <3>1. order[r] \in Seq(Outputs) /\ IsInjective(order[r])
        BY <2>1 DEF Locals, Progress, IsInjective
      <3>2. order[r] \in [1..Len(order[r]) -> Outputs] /\ Len(order[r]) \in Nat
        BY <3>1, LenProperties
      <3>3. order[r] \in Injection(1..Len(order[r]), Outputs)
        BY <3>1, <3>2 DEF Injection
      <3>4. IsFiniteSet(Outputs)
        <4> DEFINE f == [k \in Keys |-> OutputOf[k]]
        <4>1. f \in Surjection(Keys, Outputs)
          BY DEF Surjection, Outputs
        <4> HIDE DEF f
        <4> QED BY <4>1, KeysCounted, FS_Surjection
      <3>5. Cardinality(1..Len(order[r])) = Len(order[r])
        BY <3>2, FS_Interval
      <3>6. Len(order[r]) <= Cardinality(Outputs)
        BY <3>3, <3>4, <3>5, FS_Injection
      <3> QED BY <3>2, <3>6 DEF ToSet
    <2>5. /\ version \in [Dirs -> 0..MaxEdits]
          /\ began \in [Runs -> [Dirs -> 0..MaxEdits]]
      <3>1. edits \in 0..MaxEdits /\ MaxEdits \in Nat
        BY <2>1, BoundsAssumption DEF Moves
      <3>2. \A d \in Dirs : version[d] \in 0..MaxEdits
        BY <2>1, <3>1 DEF Moves
      <3>3. \A r \in Runs : \A d \in Dirs : began[r][d] \in 0..MaxEdits
        BY <2>1, <3>1, <3>2 DEF Moves
      <3> QED BY <2>1, <3>2, <3>3 DEF Moves
    <2> QED BY <2>1, <2>2, <2>3, <2>4, <2>5 DEF TypeOK, Shape, Moves, Locals
  <1> QED BY <1>1, WorkInvariance, PTL
=============================================================================
