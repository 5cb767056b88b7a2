---------------------------- MODULE NetstatProofs ----------------------------
(***************************************************************************)
(* Proofs about asp_measure of the netstatraw6 ASP: its types, and that   *)
(* every return has released the graph, the file, the variable and the    *)
(* data, for files of any length.                                         *)
(***************************************************************************)
EXTENDS NetstatAsp, TLAPS

\* What asp_measure may hold at each control point: what the steps before
\* it acquired (the getline buffer from the header read on).
Acquired(p) ==
    CASE p = "start"              -> {}
      [] p = "addr"               -> {"graph"}
      [] p \in {"stat", "path"}   -> {"graph", "address"}
      [] p = "var"                -> {"graph", "address", "path"}
      [] p = "open"               -> {"graph", "address", "path", "var"}
      [] p = "header"             -> {"graph", "address", "path", "var", "fp"}
      [] p = "alloc"              -> Resources \ {"data"}
      [] p = "read"               -> Resources
      [] p = "done"               -> {"address", "path", "line"}
      [] p = "crashed"            -> Resources

(* The inductive invariant: nothing is held that the code has not         *)
(* acquired on the way to the current control point, and on return only   *)
(* the leaked address, path and getline buffer can be left.               *)
NInv ==
    /\ TypeOK
    /\ held \subseteq Acquired(npc)

USE NetstatAssumption

\* The initial states satisfy the invariant.
LEMMA NInvInit == Init => NInv
<1> SUFFICES ASSUME Init PROVE NInv
  OBVIOUS
<1>1. TypeOK
  <2>1. npc \in NPCs /\ held \subseteq Resources
    BY DEF Init, NPCs, Resources
  <2>2. ret \in {0, -1, -EINVAL}
    BY DEF Init
  <2>3. fileLines \in 0..MaxLines /\ readLines \in 0..fileLines
    BY DEF Init
  <2>4. rawAdded \in BOOLEAN /\ nullEntry \in BOOLEAN
    BY Zenon DEF Init
  <2>. QED
    BY <2>1, <2>2, <2>3, <2>4 DEF TypeOK
<1>2. Acquired("start") = {}
  BY DEF Acquired
<1>. QED
  BY <1>1, <1>2 DEF Init, NInv

\* Every step of asp_measure keeps it.
LEMMA NInvStep == NInv /\ [Next]_vars => NInv'
<1> SUFFICES ASSUME NInv, [Next]_vars PROVE NInv'
  OBVIOUS
<1> USE DEF NInv, TypeOK, NPCs, Acquired, Resources, EINVAL
<1>1. CASE Start
  BY <1>1 DEF Start, Return
<1>2. CASE AllocAddress
  BY <1>2 DEF AllocAddress, Return
<1>3. CASE Stat
  BY <1>3 DEF Stat, Return
<1>4. CASE DupPath
  BY <1>4 DEF DupPath, Return
<1>5. CASE NewVar
  BY <1>5 DEF NewVar, Return
<1>6. CASE Open
  BY <1>6 DEF Open, Return, VarParts
<1>7. CASE ReadHeader
  BY <1>7 DEF ReadHeader, VarParts
<1>8. CASE AllocData
  BY <1>8 DEF AllocData
<1>9. CASE ReadLine
  <2>0. PICK bothZero \in BOOLEAN : \E nl \in ChunkLineData(bothZero) :
          \/ nl = "crash" /\ npc' = "crashed"
             /\ UNCHANGED <<held, readLines, nullEntry>>
          \/ /\ nl # "crash"
             /\ readLines' = readLines + 1
             /\ held' = held \ {"line"}
             /\ nullEntry' = (nullEntry \/ nl = "null")
             /\ UNCHANGED npc
    BY <1>9 DEF ReadLine
  <2>1. PICK nl \in ChunkLineData(bothZero) :
          \/ nl = "crash" /\ npc' = "crashed"
             /\ UNCHANGED <<held, readLines, nullEntry>>
          \/ /\ nl # "crash"
             /\ readLines' = readLines + 1
             /\ held' = held \ {"line"}
             /\ nullEntry' = (nullEntry \/ nl = "null")
             /\ UNCHANGED npc
    BY <2>0
  <2>2. UNCHANGED <<ret, fileLines, rawAdded>> /\ npc = "read" /\ readLines < fileLines
    BY <1>9 DEF ReadLine
  <2>3. CASE nl = "crash" /\ npc' = "crashed"
             /\ UNCHANGED <<held, readLines, nullEntry>>
    BY <2>2, <2>3
  <2>4. CASE /\ nl # "crash"
             /\ readLines' = readLines + 1
             /\ held' = held \ {"line"}
             /\ nullEntry' = (nullEntry \/ nl = "null")
             /\ UNCHANGED npc
    <3>1. nullEntry' \in BOOLEAN
      BY <2>4, Zenon
    <3>. QED
      BY <2>2, <2>4, <3>1
  <2>. QED
    BY <2>1, <2>3, <2>4
<1>10. CASE Finish
  BY <1>10 DEF Finish, VarParts
<1>11. CASE UNCHANGED vars
  BY <1>11 DEF vars
<1>. QED
  BY <1>1, <1>2, <1>3, <1>4, <1>5, <1>6, <1>7, <1>8, <1>9, <1>10, <1>11
     DEF Next

(* Every return of asp_measure (each early return of its error paths and  *)
(* the final one) has unmapped the graph, closed /proc/net/raw6 and freed *)
(* the measurement variable and data, for a file of any number of lines.  *)
THEOREM ClosedOnEveryReturn == Spec => []ClosedOnReturn
<1>1. NInv => ClosedOnReturn
  BY DEF NInv, Acquired, ClosedOnReturn
<1>. QED
  BY <1>1, NInvInit, NInvStep, PTL DEF Spec

(* asp_measure's variables keep their types for a file of any length: the *)
(* number of lines read never passes the number of lines in the file.     *)
THEOREM NetstatTypeCorrect == Spec => []TypeOK
<1>1. NInv => TypeOK
  BY DEF NInv
<1>. QED
  BY <1>1, NInvInit, NInvStep, PTL DEF Spec

=============================================================================
