----------------------------- MODULE Dispatcher -----------------------------
(***************************************************************************)
(* The measurement dispatcher of the layered attestation APB               *)
(* (src/src/apbs/layered_att_apb.c): measure_variable_shim and the helpers *)
(* it calls (select_asp_shim, get_measurement_request_addr_from_node,      *)
(* get_target_channel_info, invoke_send_execute_tcp).                      *)
(*                                                                         *)
(* The spec-evaluation engine calls the dispatcher once per (variable,     *)
(* type) pair, sequentially.  A call is split into the steps of the code   *)
(* so that the window in which the scenario holds a borrowed contract      *)
(* (lines 273-287) is a state of its own.  The graph keeps, per variable,  *)
(* whether it has a node, the types it holds data of, and the payload of   *)
(* the blob the remote-layered path attaches.                              *)
(***************************************************************************)
EXTENDS Integers

CONSTANTS
    Vars,           \* measurement variables the engine may ask about
    Types,          \* measurement types
    KernelType,     \* kernel_measurement_type
    BlobType,       \* blob_measurement_type
    Attesters,      \* attester names that may appear in a request address
    DomZero,        \* "@_0"
    DomTarget,      \* "@_t"
    Resources,      \* resource names that may appear in a request address
    OtherAddr,      \* any address that is not a dynamic measurement request
    VarAddr,        \* the address recorded for each variable
    Places,         \* resolved place_info values
    PlaceInfo,      \* g_dom_z_info / g_dom_t_info: place of "@_0" and "@_t"
    Registry,       \* names of the ASPs in apb_asps
    Capable(_, _),  \* what the generic select_asp may return for (var, type)
    NoAsp,          \* select_asp / find_asp returning NULL
    NoContract,     \* the NULL contract pointer
    NoBlob,         \* a node without blob data
    OrigContract,   \* the scenario's own contract buffer
    OrigSize,       \* the scenario's own contract size
    Requests,       \* (variable, type) pairs the engine dispatches
    MaxCalls        \* bound on the number of dispatches

\* Addresses of kind dynamic_measurement_request_address.
DynReqAddrs == [attester : Attesters, resource : Resources]

\* Contracts a place can answer with: signed by the attester of the place
\* for a resource; ok is whether its signatures verify.
Contracts == [att : Attesters, res : Resources, ok : BOOLEAN]

\* What process_contract extracts from a verified contract.
Payloads == [att : Attesters, res : Resources]

AspNames == {"kernel_msmt_asp", "send_execute_tcp_asp", "userspace_asp"}

ASSUME DispatcherAssumption ==
    /\ KernelType \in Types /\ BlobType \in Types /\ KernelType # BlobType
    /\ {DomZero, DomTarget} \subseteq Attesters /\ DomZero # DomTarget
    /\ VarAddr \in [Vars -> DynReqAddrs \cup {OtherAddr}]
    /\ OtherAddr \notin DynReqAddrs
    /\ PlaceInfo \in [{DomZero, DomTarget} -> Places]
    /\ PlaceInfo[DomZero] # PlaceInfo[DomTarget]
    /\ Registry \subseteq AspNames
    /\ NoAsp \notin AspNames
    /\ NoContract \notin Contracts /\ OrigContract \notin Contracts
    /\ NoContract # OrigContract
    /\ NoBlob \notin Payloads
    /\ OrigSize \in Nat
    /\ Requests \subseteq Vars \X Types /\ Requests # {}
    /\ MaxCalls \in Nat
    /\ Resources # {}

-----------------------------------------------------------------------------
VARIABLES
    pc,         \* where the current dispatch is; "idle" between calls
    cur,        \* the (variable, type) being dispatched
    asp,        \* the ASP select_asp_shim chose
    nodes,      \* variables with a node in the measurement graph
    data,       \* data[v]: types of the measurement data on v's node
    blob,       \* blob[v]: payload of the blob data on v's node
    va,         \* request address get_measurement_request_addr_from_node found
    target,     \* place_info chosen by get_target_channel_info
    received,   \* contract returned by the send_execute_tcp ASP
    scen,       \* g_scen->contract and g_scen->size
    tmp,        \* tmp_contract and tmp_con_len
    extracted,  \* what process_contract wrote into blob->buffer
    vrc,        \* rc of process_contract
    ret,        \* return value of the last dispatch
    err,        \* error class of the last dispatch (ghost, spec section 4.3)
    nodesAtCall,\* nodes when the current dispatch started (ghost)
    calls       \* dispatches so far

vars == <<pc, cur, asp, nodes, data, blob, va, target, received, scen, tmp,
          extracted, vrc, ret, err, nodesAtCall, calls>>

ScenOrig == [contract |-> OrigContract, size |-> OrigSize]

\* con_len of a contract handed back by run_asp_buffers: 0 for NULL.
ConLen(c) == IF c = NoContract THEN 0 ELSE 1

\* The attester whose place is p.
OwnerOf(p) == CHOOSE a \in {DomZero, DomTarget} : PlaceInfo[a] = p

ErrNames == {"none", "NoCapableAsp", "GraphWriteFailed", "AddressUnavailable",
             "AddressKindMismatch", "UnknownAttester", "ChannelError",
             "ContractVerificationFailed", "SerializationFailed",
             "WorkerFailed"}

PCs == {"idle", "add_node", "run_kernel", "userspace", "resolve", "invoke",
        "swap", "verify", "restore", "add_data", "crashed"}

TypeOK ==
    /\ pc \in PCs
    /\ cur \in Vars \X Types
    /\ asp \in AspNames \cup {NoAsp}
    /\ nodes \subseteq Vars
    /\ data \in [Vars -> SUBSET Types]
    /\ blob \in [Vars -> Payloads \cup {NoBlob}]
    /\ va \in DynReqAddrs
    /\ target \in {PlaceInfo[a] : a \in {DomZero, DomTarget}}
    /\ received \in Contracts \cup {NoContract}
    /\ scen \in [contract : Contracts \cup {NoContract, OrigContract},
                 size : Nat]
    /\ tmp \in [contract : Contracts \cup {NoContract, OrigContract},
                size : Nat]
    /\ extracted \in Payloads \cup {NoBlob}
    /\ vrc \in {-1, 0}
    /\ ret \in Int
    /\ err \in ErrNames
    /\ nodesAtCall \subseteq Vars
    /\ calls \in 0..MaxCalls

Init ==
    /\ pc = "idle"
    /\ cur = CHOOSE r \in Requests : TRUE
    /\ asp = NoAsp
    /\ nodes = {}
    /\ data = [v \in Vars |-> {}]
    /\ blob = [v \in Vars |-> NoBlob]
    /\ va = CHOOSE a \in DynReqAddrs : TRUE
    /\ target = PlaceInfo[DomZero]
    /\ received = NoContract
    /\ scen = ScenOrig
    /\ tmp = ScenOrig
    /\ extracted = NoBlob
    /\ vrc = 0
    /\ ret = 0
    /\ err = "none"
    /\ nodesAtCall = {}
    /\ calls = 0

\* Return from measure_variable_shim with value r and error class e.
Return(r, e) == pc' = "idle" /\ ret' = r /\ err' = e

-----------------------------------------------------------------------------
(* select_asp_shim: kernel measurements go to kernel_msmt_asp when it is   *)
(* registered; every other type goes to the generic select_asp.            *)
select_asp_shim(v, t) ==
    IF t = KernelType
    THEN IF "kernel_msmt_asp" \in Registry THEN {"kernel_msmt_asp"} ELSE {NoAsp}
    ELSE (Capable(v, t) \cap Registry) \cup {NoAsp}

ENOENT == 2

(* The engine calls measure_variable_shim for (v, t); the shim selects an  *)
(* ASP and fails with -ENOENT when there is none.                          *)
Select ==
    /\ pc = "idle"
    /\ calls < MaxCalls
    /\ \E r \in Requests, a \in AspNames \cup {NoAsp} :
         /\ a \in select_asp_shim(r[1], r[2])
         /\ cur' = r
         /\ asp' = a
         /\ calls' = calls + 1
         /\ nodesAtCall' = nodes
         /\ \/ a = NoAsp /\ Return(-ENOENT, "NoCapableAsp")
            \/ a \in {"kernel_msmt_asp", "send_execute_tcp_asp"}
               /\ pc' = "add_node" /\ UNCHANGED <<ret, err>>
            \/ a = "userspace_asp" /\ pc' = "userspace" /\ UNCHANGED <<ret, err>>
    /\ UNCHANGED <<nodes, data, blob, va, target, received, scen, tmp,
                   extracted, vrc>>

\* Mutant of AddNode: the measurement_node_has_data test left out.
AddNodeNoDataCheck ==
    /\ pc = "add_node"
    /\ \/ Return(-1, "GraphWriteFailed") /\ UNCHANGED nodes
       \/ /\ nodes' = nodes \cup {cur[1]}
          /\ pc' = IF asp = "kernel_msmt_asp" THEN "run_kernel" ELSE "resolve"
          /\ UNCHANGED <<ret, err>>
    /\ UNCHANGED <<cur, asp, data, blob, va, target, received, scen, tmp,
                   extracted, vrc, nodesAtCall, calls>>

(* Kernel and remote paths: measurement_graph_add_node (new or existing    *)
(* node, or an error), then return 0 at once if the node already has data  *)
(* of the requested type.                                                  *)
AddNode ==
    /\ pc = "add_node"
    /\ \/ Return(-1, "GraphWriteFailed") /\ UNCHANGED nodes
       \/ /\ nodes' = nodes \cup {cur[1]}
          /\ IF cur[2] \in data[cur[1]]
             THEN Return(0, "none")
             ELSE /\ pc' = IF asp = "kernel_msmt_asp" THEN "run_kernel"
                                                      ELSE "resolve"
                  /\ UNCHANGED <<ret, err>>
    /\ UNCHANGED <<cur, asp, data, blob, va, target, received, scen, tmp,
                   extracted, vrc, nodesAtCall, calls>>

(* run_asp(kernel_msmt_asp, graph_path, node id): the ASP, given the       *)
(* graph's path and the node, records its measurement on the node; its     *)
(* exit status is returned verbatim.                                       *)
RunKernel ==
    /\ pc = "run_kernel"
    /\ \/ /\ data' = [data EXCEPT ![cur[1]] = @ \cup {cur[2]}]
          /\ Return(0, "none")
       \/ \E rc \in {-1, 1} : Return(rc, "WorkerFailed") /\ UNCHANGED data
    /\ UNCHANGED <<cur, asp, nodes, blob, va, target, received, scen, tmp,
                   extracted, vrc, nodesAtCall, calls>>

(* measure_variable_internal, the standard userspace path: it manages the  *)
(* node itself and either records data of the type or fails.               *)
Userspace ==
    /\ pc = "userspace"
    /\ \/ /\ nodes' = nodes \cup {cur[1]}
          /\ data' = [data EXCEPT ![cur[1]] = @ \cup {cur[2]}]
          /\ Return(0, "none")
       \/ /\ \E n \in {nodes, nodes \cup {cur[1]}} : nodes' = n
          /\ Return(-1, "WorkerFailed") /\ UNCHANGED data
    /\ UNCHANGED <<cur, asp, blob, va, target, received, scen, tmp, extracted,
                   vrc, nodesAtCall, calls>>

\* Mutant of Resolve: the "@_0" and "@_t" branches of get_target_channel_info
\* swapped.
ResolveSwapped ==
    /\ pc = "resolve"
    /\ LET a == VarAddr[cur[1]] IN
         \/ Return(-1, "AddressUnavailable") /\ UNCHANGED <<va, target>>
         \/ /\ a \notin DynReqAddrs
            /\ Return(-1, "AddressKindMismatch") /\ UNCHANGED <<va, target>>
         \/ /\ a \in DynReqAddrs
            /\ a.attester \notin {DomZero, DomTarget}
            /\ Return(-1, "UnknownAttester") /\ UNCHANGED <<va, target>>
         \/ /\ a \in DynReqAddrs
            /\ a.attester \in {DomZero, DomTarget}
            /\ va' = a
            /\ target' = PlaceInfo[IF a.attester = DomZero THEN DomTarget
                                                        ELSE DomZero]
            /\ pc' = "invoke"
            /\ UNCHANGED <<ret, err>>
    /\ UNCHANGED <<cur, asp, nodes, data, blob, received, scen, tmp,
                   extracted, vrc, nodesAtCall, calls>>

(* get_measurement_request_addr_from_node then get_target_channel_info:    *)
(* no address, an address of another kind, or an attester that is neither  *)
(* "@_0" nor "@_t" fails the dispatch; otherwise the place is chosen.      *)
Resolve ==
    /\ pc = "resolve"
    /\ LET a == VarAddr[cur[1]] IN
         \/ Return(-1, "AddressUnavailable") /\ UNCHANGED <<va, target>>
         \/ /\ a \notin DynReqAddrs
            /\ Return(-1, "AddressKindMismatch") /\ UNCHANGED <<va, target>>
         \/ /\ a \in DynReqAddrs
            /\ a.attester \notin {DomZero, DomTarget}
            /\ Return(-1, "UnknownAttester") /\ UNCHANGED <<va, target>>
         \/ /\ a \in DynReqAddrs
            /\ a.attester \in {DomZero, DomTarget}
            /\ va' = a
            /\ target' = PlaceInfo[a.attester]
            /\ pc' = "invoke"
            /\ UNCHANGED <<ret, err>>
    /\ UNCHANGED <<cur, asp, nodes, data, blob, received, scen, tmp,
                   extracted, vrc, nodesAtCall, calls>>

(* invoke_send_execute_tcp: run_asp_buffers on send_execute_tcp_asp asks   *)
(* the place for the resource.  A negative status fails the dispatch; the  *)
(* contract is handed back only when the status is 0, and a positive       *)
(* status passes the caller's rc < 0 test with contract still NULL.        *)
Invoke ==
    /\ pc = "invoke"
    /\ \/ Return(-1, "ChannelError") /\ UNCHANGED received
       \/ /\ \E ok \in BOOLEAN :
               received' = [att |-> OwnerOf(target),
                            res |-> va.resource, ok |-> ok]
          /\ pc' = "swap" /\ UNCHANGED <<ret, err>>
       \/ received' = NoContract /\ pc' = "swap" /\ UNCHANGED <<ret, err>>
    /\ UNCHANGED <<cur, asp, nodes, data, blob, va, target, scen, tmp,
                   extracted, vrc, nodesAtCall, calls>>

\* Mutant of Swap: the scenario's contract saved after it was overwritten.
SwapSavesLate ==
    /\ pc = "swap"
    /\ tmp' = [contract |-> received, size |-> ConLen(received)]
    /\ scen' = [contract |-> received, size |-> ConLen(received)]
    /\ pc' = "verify"
    /\ UNCHANGED <<cur, asp, nodes, data, blob, va, target, received, extracted,
                   vrc, ret, err, nodesAtCall, calls>>

(* Save the scenario's contract and put the received one in its place.    *)
Swap ==
    /\ pc = "swap"
    /\ tmp' = scen
    /\ scen' = [contract |-> received, size |-> ConLen(received)]
    /\ pc' = "verify"
    /\ UNCHANGED <<cur, asp, nodes, data, blob, va, target, received, extracted,
                   vrc, ret, err, nodesAtCall, calls>>

(* alloc_measurement_data for the blob, unchecked: when it returns NULL,  *)
(* process_contract's write to blob->buffer or the free(blob->buffer) of  *)
(* its error path dereferences it and the APB process dies, g_scen still *)
(* holding the received contract.  Otherwise process_contract verifies    *)
(* the contract the scenario now holds and extracts its measurement; it   *)
(* can also fail for reasons of its own.                                   *)
Verify ==
    /\ pc = "verify"
    /\ \/ pc' = "crashed" /\ UNCHANGED <<extracted, vrc>>
       \/ /\ pc' = "restore"
          /\ \/ /\ scen.contract \in Contracts
                /\ scen.contract.ok
                /\ extracted' = [att |-> scen.contract.att, res |-> scen.contract.res]
                /\ vrc' = 0
             \/ vrc' = -1 /\ extracted' = NoBlob
    /\ UNCHANGED <<cur, asp, nodes, data, blob, va, target, received, scen, tmp,
                   ret, err, nodesAtCall, calls>>

(* Restore the scenario's contract whatever process_contract returned,     *)
(* then fail if it returned an error.                                      *)
Restore ==
    /\ pc = "restore"
    /\ scen' = tmp
    /\ \/ vrc < 0 /\ Return(-1, "ContractVerificationFailed")
       \/ vrc >= 0 /\ pc' = "add_data" /\ UNCHANGED <<ret, err>>
    /\ UNCHANGED <<cur, asp, nodes, data, blob, va, target, received, tmp,
                   extracted, vrc, nodesAtCall, calls>>

\* Mutant of AddData: the received contract recorded instead of the payload
\* process_contract extracted from it.
AddDataStoresContract ==
    /\ pc = "add_data"
    /\ \/ Return(-1, "SerializationFailed") /\ UNCHANGED <<data, blob>>
       \/ pc' = "crashed" /\ UNCHANGED <<ret, err, data, blob>>
       \/ Return(-1, "GraphWriteFailed") /\ UNCHANGED <<data, blob>>
       \/ /\ data' = [data EXCEPT ![cur[1]] = @ \cup {BlobType}]
          /\ blob' = [blob EXCEPT ![cur[1]] = received]
          /\ Return(0, "none")
    /\ UNCHANGED <<cur, asp, nodes, va, target, received, scen, tmp, extracted,
                   vrc, nodesAtCall, calls>>

(* marshall_measurement_data then measurement_node_add_data; the blob      *)
(* lands on the node when add_data returns 0.  When marshalling returns   *)
(* NULL the code calls free_measurement_data(&md->meas_data) on the NULL  *)
(* md: undefined behaviour, which returns -1 if the library tolerates     *)
(* the resulting pointer and kills the APB process if it does not.        *)
AddData ==
    /\ pc = "add_data"
    /\ \/ Return(-1, "SerializationFailed") /\ UNCHANGED <<data, blob>>
       \/ pc' = "crashed" /\ UNCHANGED <<ret, err, data, blob>>
       \/ Return(-1, "GraphWriteFailed") /\ UNCHANGED <<data, blob>>
       \/ /\ data' = [data EXCEPT ![cur[1]] = @ \cup {BlobType}]
          /\ blob' = [blob EXCEPT ![cur[1]] = extracted]
          /\ Return(0, "none")
    /\ UNCHANGED <<cur, asp, nodes, va, target, received, scen, tmp, extracted,
                   vrc, nodesAtCall, calls>>

Next ==
    \/ Select \/ AddNode \/ RunKernel \/ Userspace \/ Resolve
    \/ Invoke \/ Swap \/ Verify \/ Restore \/ AddData

Spec == Init /\ [][Next]_vars

-----------------------------------------------------------------------------
(* Properties.                                                             *)

(* The scenario's contract buffer and size are the scenario's own at every *)
(* point except the window between the swap before process_contract and   *)
(* the restore after it (measure_variable_shim, lines 273-287): an error   *)
(* on any path of a remote-layered dispatch never leaves the received      *)
(* contract in g_scen (a crash ends the process, and g_scen with it).     *)
ScenarioRestored ==
    pc \notin {"verify", "restore", "crashed"} => scen = ScenOrig

(* Blob evidence on a node was extracted from a contract that verified and *)
(* that was signed by the attester the variable's request address names,   *)
(* for the resource it names: the remote-layered path never records        *)
(* unverified evidence, nor evidence fetched from the other place.         *)
EvidenceFromAddressedAttester ==
    \A v \in Vars :
        blob[v] # NoBlob =>
            /\ VarAddr[v] \in DynReqAddrs
            /\ blob[v] = [att |-> VarAddr[v].attester,
                          res |-> VarAddr[v].resource]

(* A worker (the kernel ASP or the send_execute_tcp request) is launched   *)
(* only for a (variable, type) whose node holds no data of that type yet:  *)
(* re-dispatching an already measured pair never re-measures it.           *)
NoRemeasure ==
    [][(pc \in {"run_kernel", "invoke"} /\ pc' # pc)
         => cur[2] \notin data[cur[1]]]_vars

(* Spec section 4.4/8: process_contract verifies the contract that the     *)
(* send_execute_tcp ASP returned, never a NULL contract.                   *)
VerifierGetsChannelContract ==
    pc = "verify" => scen.contract # NoContract

(* Spec section 4.3: a serialization failure of the extracted blob is a   *)
(* per-variable measurement error, non-fatal to the run: the dispatch     *)
(* returns it to the evaluation engine rather than ending the process.    *)
SerializationFailureNonFatal ==
    [][pc = "add_data" => pc' # "crashed"]_vars

(* Spec section 8: a remote-layered dispatch that fails with               *)
(* AddressKindMismatch leaves the graph as it was.                         *)
MismatchLeavesGraphUnchanged ==
    (pc = "idle" /\ err = "AddressKindMismatch") => nodes = nodesAtCall

=============================================================================
