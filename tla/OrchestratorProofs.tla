-------------------------- MODULE OrchestratorProofs --------------------------
(***************************************************************************)
(* Proofs about apb_execute: every path frees what it acquired, and a     *)
(* repeated "@_0" or "@_t" argument never displaces the first, for every  *)
(* argument list and place directory.                                      *)
(***************************************************************************)
EXTENDS Orchestrator, SequenceTheorems, TLAPS

\* What apb_execute may hold at each control point: what the code before it
\* acquired.  A label holds at most what the code below it frees.
Acquired(p) ==
    CASE p \in {"start", "done"}                        -> {}
      [] p \in {"args", "spec", "place_arg_err", "meas_spec_err"}
                                                        -> {"dom_z_info", "dom_t_info"}
      [] p \in {"graph", "graph_err"}                   -> {"dom_z_info", "dom_t_info", "mspec"}
      [] p = "stage"                   -> {"dom_z_info", "dom_t_info", "mspec", "graph"}
      [] p \in {"measure", "pipeline", "str_alloc_err"} -> Resources

(* The inductive invariant for the cleanup chain.                          *)
RInv ==
    /\ opc \in OPCs
    /\ held \subseteq Acquired(opc)

\* The initial states satisfy it.
LEMMA RInvInit == Init => RInv
BY DEF Init, RInv, OPCs, Acquired

\* Each label frees at least what may be held when the code jumps to it.
LEMMA LabelsFreeAcquired == \A l \in Labels : Acquired(l) \subseteq Freed(l)
BY DEF Labels, Acquired, Freed, Resources

\* Every step of apb_execute keeps it.
LEMMA RInvStep == RInv /\ [Next]_vars => RInv'
<1> SUFFICES ASSUME RInv, [Next]_vars PROVE RInv'
  OBVIOUS
<1> USE DEF RInv, OPCs, Labels, Acquired, Resources
<1>1. CASE Start
  BY <1>1 DEF Start
<1>2. CASE ParseArg
  BY <1>2 DEF ParseArg
<1>3. CASE CheckPlaces
  BY <1>3 DEF CheckPlaces
<1>4. CASE LoadSpec
  BY <1>4 DEF LoadSpec
<1>5. CASE CreateGraph
  BY <1>5 DEF CreateGraph
<1>6. CASE Stage
  BY <1>6 DEF Stage
<1>7. CASE Measure
  BY <1>7 DEF Measure
<1>8. CASE RunPipeline
  BY <1>8 DEF RunPipeline
<1>9. CASE Cleanup
  BY <1>9, LabelsFreeAcquired DEF Cleanup
<1>10. CASE UNCHANGED vars
  BY <1>10 DEF vars
<1>. QED
  BY <1>1, <1>2, <1>3, <1>4, <1>5, <1>6, <1>7, <1>8, <1>9, <1>10 DEF Next

(* Whatever path apb_execute takes, it returns with the place information, *)
(* the measurement specification, the graph and the credential strings    *)
(* freed: every goto lands on a label whose cleanup covers what was       *)
(* acquired before it.                                                     *)
THEOREM AlwaysAllReleased == Spec => []AllReleased
<1>1. RInv => AllReleased
  BY DEF RInv, Acquired, AllReleased
<1>. QED
  BY <1>1, RInvInit, RInvStep, PTL DEF Spec

-----------------------------------------------------------------------------
(* First occurrence wins.                                                  *)

\* An argument as the attestation manager passes it.
Arg == [key : Keys, value : Ids]

\* The place global a "@_0" or "@_t" argument fills.
Glob(k) == IF k = "@_0" THEN domZ ELSE domT

\* Argument j is the first one with key k.
IsFirst(k, j) == args[j].key = k /\ \A j2 \in 1..(j - 1) : args[j2].key # k

(* The inductive invariant of the argument loop: a filled place global    *)
(* holds the place of the first argument with its key among those the     *)
(* loop has visited, and while the loop runs an unfilled one has seen no  *)
(* argument with its key.                                                  *)
FInv ==
    /\ args \in Seq(Arg)
    /\ opc \in OPCs
    /\ i \in 1..(Len(args) + 1)
    /\ opc = "start" => i = 1
    /\ \A k \in {"@_0", "@_t"} :
         /\ Glob(k) # NoPlace =>
              \E j \in 1..(i - 1) : IsFirst(k, j) /\ Glob(k) = Directory[args[j].value]
         /\ opc = "args" /\ Glob(k) = NoPlace =>
              \A j \in 1..(i - 1) : args[j].key # k

USE OrchestratorAssumption

\* The argument lists of the model are sequences.
LEMMA ArgListsAreSeqs == ArgLists \subseteq Seq(Arg)
<1> SUFFICES ASSUME NEW a \in ArgLists PROVE a \in Seq(Arg)
  OBVIOUS
<1>1. PICK n \in 0..MaxArgs : a \in [1..n -> Arg]
  BY DEF ArgLists, Arg
<1>2. n \in Nat
  BY <1>1
<1>3. a \in UNION {[1..m -> Arg] : m \in Nat}
  BY <1>1, <1>2
<1>. QED
  BY <1>3, SeqDef

\* At most one argument is the first with a given key.
LEMMA FirstIsUnique ==
    ASSUME NEW k, NEW j1 \in Nat, NEW j2 \in Nat, IsFirst(k, j1), IsFirst(k, j2),
           j1 >= 1, j2 >= 1
    PROVE  j1 = j2
BY DEF IsFirst

\* The initial states satisfy the loop invariant.
LEMMA FInvInit == Init => FInv
<1> SUFFICES ASSUME Init PROVE FInv
  OBVIOUS
<1>1. args \in Seq(Arg)
  BY ArgListsAreSeqs DEF Init
<1>2. Len(args) \in Nat
  BY <1>1, LenProperties
<1>. QED
  BY <1>1, <1>2 DEF Init, FInv, OPCs, Glob

\* A step that leaves the arguments and the place globals alone, does not
\* move the loop index back, and leaves the loop keeps the loop invariant.
LEMMA FInvFrame ==
    ASSUME FInv, UNCHANGED <<args, domZ, domT>>, i' \in {i, i + 1},
           i' \in 1..(Len(args) + 1), opc' \in OPCs \ {"start", "args"}
    PROVE  FInv'
<1>1. args' \in Seq(Arg) /\ i' \in 1..(Len(args') + 1) /\ (opc = "start" => i = 1)'
  BY DEF FInv
<1>2. \A k \in {"@_0", "@_t"} : Glob(k)' = Glob(k)
  BY DEF Glob
<1>3. ASSUME NEW k \in {"@_0", "@_t"}, Glob(k)' # NoPlace
      PROVE  \E j \in 1..(i' - 1) : IsFirst(k, j)' /\ Glob(k)' = Directory[args'[j].value]
  <2>1. PICK j \in 1..(i - 1) : IsFirst(k, j) /\ Glob(k) = Directory[args[j].value]
    BY <1>2, <1>3 DEF FInv
  <2>2. Len(args) \in Nat /\ i \in Nat
    BY LenProperties DEF FInv
  <2>5. j \in 1..(i' - 1)
    <3>1. CASE i' = i
      BY <3>1
    <3>2. CASE i' = i + 1
      BY <2>2, <3>2
    <3>. QED
      BY <3>1, <3>2
  <2>4. IsFirst(k, j)'
    BY <2>1, Zenon DEF IsFirst
  <2>. QED
    BY <1>2, <2>1, <2>4, <2>5
<1>4. \A k \in {"@_0", "@_t"} :
        /\ Glob(k)' # NoPlace =>
             \E j \in 1..(i' - 1) : IsFirst(k, j)' /\ Glob(k)' = Directory[args'[j].value]
        /\ opc' = "args" /\ Glob(k)' = NoPlace => \A j \in 1..(i' - 1) : args'[j].key # k
  BY <1>3
<1>5. opc' \in OPCs /\ (opc' = "start" => i' = 1)
  OBVIOUS
<1>. QED
  BY <1>1, <1>4, <1>5 DEF FInv

\* One iteration of the argument loop keeps the loop invariant.
LEMMA ParseArgKeepsFInv ==
    ASSUME FInv, ParseArg
    PROVE  FInv'
<1> DEFINE k0 == args[i].key
           p0 == PlaceOfId(args[i].value)
<1>1. /\ opc = "args" /\ i \in 1..Len(args) /\ Len(args) \in Nat
      /\ args[i] \in Arg /\ UNCHANGED args /\ i' = i + 1
  BY LenProperties DEF ParseArg, FInv
<1>2. p0 = Directory[args[i].value] /\ args[i].value \in Ids
  BY <1>1 DEF PlaceOfId, Arg
<1>3. args' \in Seq(Arg) /\ i' \in 1..(Len(args') + 1)
  BY <1>1 DEF FInv
<1>4. CASE /\ k0 \notin {"@_0", "@_t"} \/ ~Unresolved(k0)
           /\ UNCHANGED <<retVal, domZ, domT, held>> /\ opc' = "args"
  <2>1. \A k \in {"@_0", "@_t"} : Glob(k) = NoPlace => k0 # k
    BY <1>4 DEF Unresolved, Glob
  <2>. QED
    BY <1>1, <1>3, <1>4, <2>1 DEF FInv, Glob, IsFirst
<1>5. CASE /\ k0 \in {"@_0", "@_t"} /\ Unresolved(k0) /\ p0 = NoPlace
           /\ retVal' = -1 /\ opc' = "place_arg_err"
           /\ UNCHANGED <<domZ, domT, held>>
  BY <1>1, <1>3, <1>5, FInvFrame DEF OPCs, Labels
<1>6. CASE /\ k0 = "@_0" /\ Unresolved(k0) /\ p0 # NoPlace
           /\ retVal' = 0 /\ opc' = "args"
           /\ domZ' = p0 /\ held' = held \cup {"dom_z_info"}
           /\ UNCHANGED domT
  <2>1. IsFirst("@_0", i)
    BY <1>1, <1>6 DEF FInv, Glob, Unresolved, IsFirst
  <2>. QED
    BY <1>1, <1>2, <1>3, <1>6, <2>1 DEF FInv, Glob, IsFirst
<1>7. CASE /\ k0 = "@_t" /\ Unresolved(k0) /\ p0 # NoPlace
           /\ retVal' = 0 /\ opc' = "args"
           /\ domT' = p0 /\ held' = held \cup {"dom_t_info"}
           /\ UNCHANGED domZ
  <2>1. IsFirst("@_t", i)
    BY <1>1, <1>7 DEF FInv, Glob, Unresolved, IsFirst
  <2>. QED
    BY <1>1, <1>2, <1>3, <1>7, <2>1 DEF FInv, Glob, IsFirst
<1>. QED
  BY <1>4, <1>5, <1>6, <1>7 DEF ParseArg

\* Every step of apb_execute keeps the loop invariant.
LEMMA FInvStep == FInv /\ [Next]_vars => FInv'
<1> SUFFICES ASSUME FInv, [Next]_vars PROVE FInv'
  OBVIOUS
<1>1. CASE Start
  <2>1. i = 1 /\ UNCHANGED <<args, i, domZ, domT>>
    BY <1>1 DEF Start, FInv
  <2>2. CASE opc' = "args"
    BY <1>1, <2>1, <2>2 DEF FInv, OPCs, Glob, IsFirst
  <2>3. CASE opc' = "done"
    BY <2>1, <2>3, FInvFrame DEF OPCs, FInv
  <2>. QED
    BY <1>1, <2>2, <2>3 DEF Start
<1>2. CASE ParseArg
  BY <1>2, ParseArgKeepsFInv
<1>3. CASE CheckPlaces
  BY <1>3, FInvFrame DEF CheckPlaces, OPCs, Labels, FInv
<1>4. CASE LoadSpec
  BY <1>4, FInvFrame DEF LoadSpec, OPCs, Labels, FInv
<1>5. CASE CreateGraph
  BY <1>5, FInvFrame DEF CreateGraph, OPCs, Labels, FInv
<1>6. CASE Stage
  BY <1>6, FInvFrame DEF Stage, OPCs, Labels, FInv
<1>7. CASE Measure
  BY <1>7, FInvFrame DEF Measure, OPCs, Labels, FInv
<1>8. CASE RunPipeline
  BY <1>8, FInvFrame DEF RunPipeline, OPCs, Labels, FInv
<1>9. CASE Cleanup
  BY <1>9, FInvFrame DEF Cleanup, OPCs, Labels, FInv
<1>10. CASE UNCHANGED vars
  BY <1>10 DEF vars, FInv, Glob, IsFirst
<1>. QED
  BY <1>1, <1>2, <1>3, <1>4, <1>5, <1>6, <1>7, <1>8, <1>9, <1>10 DEF Next


\* A filled place global is the place of the first argument with its key.
LEMMA FInvFirstPlace ==
    ASSUME FInv, NEW k \in {"@_0", "@_t"}, Glob(k) # NoPlace
    PROVE  Glob(k) = Directory[FirstValue(k)]
<1>1. PICK j \in 1..(i - 1) : IsFirst(k, j) /\ Glob(k) = Directory[args[j].value]
  BY DEF FInv
<1>2. Len(args) \in Nat /\ DOMAIN args = 1..Len(args)
  BY LenProperties DEF FInv
<1>3. j \in DOMAIN args
  BY <1>2 DEF FInv
<1>4. \E j1 \in DOMAIN args : IsFirst(k, j1)
  BY <1>1, <1>3
<1>5. PICK c \in DOMAIN args : c = CHOOSE j1 \in DOMAIN args : IsFirst(k, j1)
  BY <1>4
<1>6. IsFirst(k, c)
  BY <1>4, <1>5
<1>7. c = j
  BY <1>1, <1>2, <1>3, <1>6, FirstIsUnique
<1>8. FirstValue(k) = args[c].value
  BY <1>5 DEF FirstValue, IsFirst
<1>. QED
  BY <1>1, <1>7, <1>8

(* Spec sections 4.6 and 8: whatever argument list the attestation manager *)
(* passes, apb_execute keeps in dom_z_info and dom_t_info the places of    *)
(* the first "@_0" and "@_t" arguments; the "Multiple copies" test makes   *)
(* it ignore a later repetition.                                           *)
THEOREM FirstPlaceAlwaysWins == Spec => []FirstPlaceWins
<1>1. FInv => FirstPlaceWins
  <2> SUFFICES ASSUME FInv PROVE FirstPlaceWins
    OBVIOUS
  <2>1. domZ # NoPlace => domZ = Directory[FirstValue("@_0")]
    BY FInvFirstPlace DEF Glob
  <2>2. domT # NoPlace => domT = Directory[FirstValue("@_t")]
    BY FInvFirstPlace DEF Glob
  <2>. QED
    BY <2>1, <2>2 DEF FirstPlaceWins
<1>. QED
  BY <1>1, FInvInit, FInvStep, PTL DEF Spec

-----------------------------------------------------------------------------
(* Type correctness.                                                       *)

\* An argument list of the model is a sequence of at most MaxArgs arguments.
LEMMA ArgListLen ==
    ASSUME NEW a \in ArgLists
    PROVE  a \in Seq(Arg) /\ Len(a) \in 0..MaxArgs
<1>1. PICK n \in 0..MaxArgs : a \in [1..n -> Arg]
  BY DEF ArgLists, Arg
<1>2. a \in Seq(Arg)
  BY ArgListsAreSeqs
<1>3. DOMAIN a = 1..Len(a) /\ Len(a) \in Nat
  BY <1>2, LenProperties
<1>4. 1..n = 1..Len(a)
  BY <1>1, <1>3
<1>5. Len(a) = n
  <2>1. CASE n < Len(a)
    <3>1. Len(a) \in 1..Len(a) /\ Len(a) \notin 1..n
      BY <1>1, <1>3, <2>1
    <3>. QED
      BY <1>4, <3>1
  <2>2. CASE Len(a) < n
    <3>1. n \in 1..n /\ n \notin 1..Len(a)
      BY <1>1, <1>3, <2>2
    <3>. QED
      BY <1>4, <3>1
  <2>. QED
    BY <1>1, <1>3, <2>1, <2>2
<1>. QED
  BY <1>1, <1>2, <1>5

\* The initial states are well typed.
LEMMA OTypeInit == Init => TypeOK
<1> SUFFICES ASSUME Init PROVE TypeOK
  OBVIOUS
<1>1. pipelineRan \in BOOLEAN
  BY Zenon DEF Init
<1>. QED
  BY <1>1, ArgListLen DEF Init, TypeOK, OPCs

\* Every step of apb_execute keeps the variables in their types.
LEMMA OTypeStep == TypeOK /\ [Next]_vars => TypeOK'
<1> SUFFICES ASSUME TypeOK, [Next]_vars PROVE TypeOK'
  OBVIOUS
<1>0. pipelineRan' \in BOOLEAN
  BY Zenon DEF TypeOK, Next, vars, Start, ParseArg, CheckPlaces, LoadSpec,
               CreateGraph, Stage, Measure, RunPipeline, Cleanup
<1> SUFFICES /\ opc' \in OPCs /\ args' \in ArgLists /\ i' \in 1..(MaxArgs + 1)
             /\ retVal' \in Int /\ domZ' \in Places \cup {NoPlace}
             /\ domT' \in Places \cup {NoPlace} /\ held' \subseteq Resources
  BY <1>0, Zenon DEF TypeOK
<1> USE DEF TypeOK, OPCs, Labels, Resources
<1>1. CASE Start
  BY <1>1 DEF Start
<1>2. CASE ParseArg
  <2>1. args \in Seq(Arg) /\ Len(args) \in 0..MaxArgs
    BY ArgListLen
  <2>2. i \in 1..Len(args) /\ args[i] \in Arg
    BY <1>2, <2>1 DEF ParseArg
  <2>3. Directory[args[i].value] \in Places \cup {NoPlace}
    BY <2>2 DEF Arg
  <2>4. i' \in 1..(MaxArgs + 1)
    BY <1>2, <2>1, <2>2 DEF ParseArg
  <2>5. domZ' \in Places \cup {NoPlace} /\ domT' \in Places \cup {NoPlace}
    BY <1>2, <2>3 DEF ParseArg, PlaceOfId
  <2>6. retVal' \in Int
    BY <1>2 DEF ParseArg
  <2>7. opc' \in OPCs
    BY <1>2 DEF ParseArg
  <2>8. held' \subseteq Resources
    BY <1>2 DEF ParseArg
  <2>. QED
    BY <1>2, <2>4, <2>5, <2>6, <2>7, <2>8 DEF ParseArg
<1>3. CASE CheckPlaces
  BY <1>3 DEF CheckPlaces
<1>4. CASE LoadSpec
  <2>1. opc' \in OPCs
    BY <1>4 DEF LoadSpec
  <2>2. args' \in ArgLists /\ i' \in 1..(MaxArgs + 1)
    BY <1>4 DEF LoadSpec
  <2>3. retVal' \in Int
    BY <1>4 DEF LoadSpec
  <2>4. domZ' \in Places \cup {NoPlace} /\ domT' \in Places \cup {NoPlace}
    BY <1>4 DEF LoadSpec
  <2>5. held' \subseteq Resources
    BY <1>4 DEF LoadSpec
  <2>. QED
    BY <2>1, <2>2, <2>3, <2>4, <2>5
<1>5. CASE CreateGraph
  <2>1. retVal' \in Int
    BY <1>5 DEF CreateGraph, EIO
  <2>2. opc' \in OPCs /\ held' \subseteq Resources
    BY <1>5 DEF CreateGraph
  <2>. QED
    BY <1>5, <2>1, <2>2 DEF CreateGraph
<1>6. CASE Stage
  BY <1>6 DEF Stage
<1>7. CASE Measure
  BY <1>7 DEF Measure
<1>8. CASE RunPipeline
  BY <1>8 DEF RunPipeline, PipelineResults
<1>9. CASE Cleanup
  BY <1>9 DEF Cleanup
<1>10. CASE UNCHANGED vars
  BY <1>10 DEF vars
<1>. QED
  BY <1>1, <1>2, <1>3, <1>4, <1>5, <1>6, <1>7, <1>8, <1>9, <1>10 DEF Next

(* apb_execute's variables keep their types for every argument list of at  *)
(* most MaxArgs arguments: the loop index never passes one beyond the last *)
(* argument, and a resolved place global holds a place.                    *)
THEOREM OrchestratorTypeCorrect == Spec => []TypeOK
BY OTypeInit, OTypeStep, PTL DEF Spec

=============================================================================
