---------------------------- MODULE Orchestrator ----------------------------
(***************************************************************************)
(* The entry point of the layered attestation APB, apb_execute            *)
(* (src/src/apbs/layered_att_apb.c): argument checks, resolution of the   *)
(* "@_0" and "@_t" places, the measurement specification, the graph, the  *)
(* credential strings copied into globals, measurement, the pipeline and  *)
(* the cleanup chain of labels.  Measurement and the pipeline are single  *)
(* steps here (modules Dispatcher and Pipeline model them); what this     *)
(* module follows is the return value and what is held and released.      *)
(***************************************************************************)
EXTENDS Integers, Sequences

CONSTANTS
    Keys,       \* argument keys: "@_0", "@_t" and others
    Ids,        \* argument values: place ids
    Directory,  \* get_place_information: the place of an id, or NoPlace
    Places,
    NoPlace,
    MaxArgs     \* longest argument list

ASSUME OrchestratorAssumption ==
    /\ {"@_0", "@_t"} \subseteq Keys
    /\ Directory \in [Ids -> Places \cup {NoPlace}]
    /\ NoPlace \notin Places
    /\ MaxArgs \in Nat

\* Argument lists the attestation manager may pass: key/value pairs.
ArgLists ==
    UNION {[1..n -> [key : Keys, value : Ids]] : n \in 0..MaxArgs}

\* Resources apb_execute acquires and must release.
Resources == {"dom_z_info", "dom_t_info", "mspec", "graph", "creds"}

EIO == 5

VARIABLES
    opc,        \* control point of apb_execute
    args,       \* arg_list
    i,          \* loop index over the arguments
    retVal,     \* ret_val
    domZ,       \* g_dom_z_info (NoPlace for NULL)
    domT,       \* g_dom_t_info
    held,       \* resources currently allocated
    pipelineRan \* execute_sign_send_pipeline was called (ghost)

vars == <<opc, args, i, retVal, domZ, domT, held, pipelineRan>>

Labels == {"str_alloc_err", "graph_err", "meas_spec_err", "place_arg_err"}

OPCs == {"start", "args", "spec", "graph", "stage", "measure", "pipeline",
         "done"} \cup Labels

\* What the cleanup code from each label on frees.
Freed(l) ==
    CASE l = "str_alloc_err" -> Resources
      [] l = "graph_err"     -> {"mspec", "dom_z_info", "dom_t_info"}
      [] l \in {"meas_spec_err", "place_arg_err"} -> {"dom_z_info", "dom_t_info"}

\* Results execute_sign_send_pipeline can return (module Pipeline).
PipelineResults == {-2, -1, 1}

TypeOK ==
    /\ opc \in OPCs
    /\ args \in ArgLists
    /\ i \in 1..(MaxArgs + 1)
    /\ retVal \in Int
    /\ domZ \in Places \cup {NoPlace}
    /\ domT \in Places \cup {NoPlace}
    /\ held \subseteq Resources
    /\ pipelineRan \in BOOLEAN

Init ==
    /\ opc = "start"
    /\ args \in ArgLists
    /\ i = 1
    /\ retVal = -1
    /\ domZ = NoPlace
    /\ domT = NoPlace
    /\ held = {}
    /\ pipelineRan = FALSE

-----------------------------------------------------------------------------
(* argc must be 2, then register_types; either failure returns at once.    *)
Start ==
    /\ opc = "start"
    /\ \/ Len(args) # 2 /\ retVal' = -1 /\ opc' = "done"
       \/ Len(args) = 2 /\ retVal' = -1 /\ opc' = "done"  \* register_types < 0
       \/ Len(args) = 2 /\ retVal' = 0 /\ opc' = "args"
    /\ UNCHANGED <<args, i, domZ, domT, held, pipelineRan>>

\* Mutant of PlaceOfId: the id itself kept where the place_info belongs.
PlaceOfIdRaw(x) == x

\* get_place_information for a place id: its place, or NoPlace on failure.
PlaceOfId(x) == Directory[x]

\* Mutant of Unresolved: the "Multiple copies" test left out.
UnresolvedAlways(k) == TRUE

\* The global that a first "@_0" or "@_t" argument fills is still NULL.
Unresolved(k) == (IF k = "@_0" THEN domZ ELSE domT) = NoPlace

(* One iteration of the argument loop: a second "@_0" or "@_t" is ignored, *)
(* a first one is resolved (a failure jumps to place_arg_err), any other   *)
(* key is logged and skipped.                                              *)
ParseArg ==
    /\ opc = "args"
    /\ i <= Len(args)
    /\ LET k == args[i].key
           p == PlaceOfId(args[i].value) IN
         \/ /\ k \notin {"@_0", "@_t"} \/ ~Unresolved(k)
            /\ UNCHANGED <<retVal, domZ, domT, held>> /\ opc' = "args"
         \/ /\ k \in {"@_0", "@_t"} /\ Unresolved(k) /\ p = NoPlace
            /\ retVal' = -1 /\ opc' = "place_arg_err"
            /\ UNCHANGED <<domZ, domT, held>>
         \/ /\ k = "@_0" /\ Unresolved(k) /\ p # NoPlace
            /\ retVal' = 0 /\ opc' = "args"
            /\ domZ' = p /\ held' = held \cup {"dom_z_info"}
            /\ UNCHANGED domT
         \/ /\ k = "@_t" /\ Unresolved(k) /\ p # NoPlace
            /\ retVal' = 0 /\ opc' = "args"
            /\ domT' = p /\ held' = held \cup {"dom_t_info"}
            /\ UNCHANGED domZ
    /\ i' = i + 1
    /\ UNCHANGED <<args, pipelineRan>>

(* After the loop: both places must be resolved, else place_arg_err.       *)
CheckPlaces ==
    /\ opc = "args"
    /\ i > Len(args)
    /\ opc' = IF domZ = NoPlace \/ domT = NoPlace THEN "place_arg_err"
                                                   ELSE "spec"
    /\ UNCHANGED <<args, i, retVal, domZ, domT, held, pipelineRan>>

(* get_target_meas_spec; a failure jumps to meas_spec_err.                 *)
LoadSpec ==
    /\ opc = "spec"
    /\ \/ retVal' = 0 /\ held' = held \cup {"mspec"} /\ opc' = "graph"
       \/ retVal' = -1 /\ opc' = "meas_spec_err" /\ UNCHANGED held
    /\ UNCHANGED <<args, i, domZ, domT, pipelineRan>>

\* Mutant of CreateGraph: a failure jumps past free_meas_spec.
CreateGraphWrongLabel ==
    /\ opc = "graph"
    /\ \/ held' = held \cup {"graph"} /\ opc' = "stage" /\ UNCHANGED retVal
       \/ retVal' = -EIO /\ opc' = "meas_spec_err" /\ UNCHANGED held
    /\ UNCHANGED <<args, i, domZ, domT, pipelineRan>>

(* create_measurement_graph; a failure sets -EIO and jumps to graph_err.   *)
CreateGraph ==
    /\ opc = "graph"
    /\ \/ held' = held \cup {"graph"} /\ opc' = "stage" /\ UNCHANGED retVal
       \/ retVal' = -EIO /\ opc' = "graph_err" /\ UNCHANGED held
    /\ UNCHANGED <<args, i, domZ, domT, pipelineRan>>

(* strdup of the seven credential strings into the globals; if any copy   *)
(* failed the code jumps to str_alloc_err without touching ret_val.        *)
Stage ==
    /\ opc = "stage"
    /\ held' = held \cup {"creds"}
    /\ \/ opc' = "measure"
       \/ opc' = "str_alloc_err"
    /\ UNCHANGED <<args, i, retVal, domZ, domT, pipelineRan>>

(* evaluate_measurement_spec with the dispatcher; its result is ignored.   *)
Measure ==
    /\ opc = "measure"
    /\ opc' = "pipeline"
    /\ UNCHANGED <<args, i, retVal, domZ, domT, held, pipelineRan>>

(* execute_sign_send_pipeline; its result is the return value.             *)
RunPipeline ==
    /\ opc = "pipeline"
    /\ \E r \in PipelineResults : retVal' = r
    /\ pipelineRan' = TRUE
    /\ opc' = "str_alloc_err"
    /\ UNCHANGED <<args, i, domZ, domT, held>>

(* From the label it jumped to (or fell through to), apb_execute frees    *)
(* what the code below that label frees, then returns ret_val.             *)
Cleanup ==
    /\ opc \in Labels
    /\ held' = held \ Freed(opc)
    /\ opc' = "done"
    /\ UNCHANGED <<args, i, retVal, domZ, domT, pipelineRan>>

Next ==
    \/ Start \/ ParseArg \/ CheckPlaces \/ LoadSpec \/ CreateGraph
    \/ Stage \/ Measure \/ RunPipeline \/ Cleanup

Spec == Init /\ [][Next]_vars

-----------------------------------------------------------------------------
(* Properties.                                                             *)

(* Whatever path apb_execute takes, the place information, measurement     *)
(* specification, graph and credential strings it acquired are all freed   *)
(* when it returns: each error jumps to the label that frees exactly what  *)
(* has been acquired by then.                                              *)
AllReleased ==
    opc = "done" => held = {}

\* The value of the first argument with key k.
FirstValue(k) ==
    args[CHOOSE j \in DOMAIN args :
            args[j].key = k /\ \A j2 \in 1..(j - 1) : args[j2].key # k].value

(* Spec section 4.6/8: of two "@_0" (or "@_t") arguments the first wins:   *)
(* the resolved place is always that of the first occurrence.              *)
FirstPlaceWins ==
    /\ domZ # NoPlace => domZ = Directory[FirstValue("@_0")]
    /\ domT # NoPlace => domT = Directory[FirstValue("@_t")]

(* Spec sections 4.6 and 7: a run that stops before the pipeline (missing  *)
(* place, specification, graph or credential copy) returns a failure, not  *)
(* 0.                                                                      *)
FailedRunNotSuccess ==
    (opc = "done" /\ ~pipelineRan) => retVal # 0

=============================================================================
