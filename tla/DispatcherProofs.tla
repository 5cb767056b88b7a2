-------------------------- MODULE DispatcherProofs --------------------------
(***************************************************************************)
(* Proofs about the measurement dispatcher, for every value of the         *)
(* constants that satisfies DispatcherAssumption.                          *)
(***************************************************************************)
EXTENDS Dispatcher, TLAPS

USE DispatcherAssumption

\* The initial state of the dispatcher is well typed.
LEMMA TypeInit == Init => TypeOK
<1> SUFFICES ASSUME Init PROVE TypeOK
  OBVIOUS
<1>1. (CHOOSE r \in Requests : TRUE) \in Vars \X Types
  OBVIOUS
<1>2. [attester |-> DomZero, resource |-> CHOOSE r \in Resources : TRUE]
        \in DynReqAddrs
  BY DEF DynReqAddrs
<1>3. (CHOOSE a \in DynReqAddrs : TRUE) \in DynReqAddrs
  BY <1>2
<1>. QED
  BY <1>1, <1>3 DEF Init, TypeOK, ScenOrig, PCs, AspNames, ErrNames

\* Every step of measure_variable_shim keeps the variables in their types.
LEMMA TypeStep == TypeOK /\ [Next]_vars => TypeOK'
<1> SUFFICES ASSUME TypeOK, [Next]_vars PROVE TypeOK'
  OBVIOUS
<1>1. CASE Select
  BY <1>1 DEF Select, select_asp_shim, Return, TypeOK, PCs, AspNames,
              ErrNames, ENOENT
<1>2. CASE AddNode
  BY <1>2 DEF AddNode, Return, TypeOK, PCs, ErrNames
<1>3. CASE RunKernel
  BY <1>3 DEF RunKernel, Return, TypeOK, PCs, ErrNames
<1>4. CASE Userspace
  BY <1>4 DEF Userspace, Return, TypeOK, PCs, ErrNames
<1>5. CASE Resolve
  BY <1>5 DEF Resolve, Return, TypeOK, PCs, ErrNames, DynReqAddrs
<1>6. CASE Invoke
  <2>1. OwnerOf(target) \in Attesters
    BY DEF OwnerOf, TypeOK
  <2>. QED
    BY <1>6, <2>1 DEF Invoke, Return, TypeOK, PCs, ErrNames, Contracts,
                      DynReqAddrs
<1>7. CASE Swap
  BY <1>7 DEF Swap, TypeOK, PCs, ConLen
<1>8. CASE Verify
  BY <1>8 DEF Verify, TypeOK, PCs, Contracts, Payloads
<1>9. CASE Restore
  BY <1>9 DEF Restore, Return, TypeOK, PCs, ErrNames
<1>10. CASE AddData
  BY <1>10 DEF AddData, Return, TypeOK, PCs, ErrNames
<1>11. CASE UNCHANGED vars
  BY <1>11 DEF vars, TypeOK
<1>. QED
  BY <1>1, <1>2, <1>3, <1>4, <1>5, <1>6, <1>7, <1>8, <1>9, <1>10, <1>11
     DEF Next

\* The dispatcher's variables always have the types TypeOK gives them.
THEOREM TypeCorrect == Spec => []TypeOK
BY TypeInit, TypeStep, PTL DEF Spec

-----------------------------------------------------------------------------
(* The inductive strengthening of ScenarioRestored: outside the window the *)
(* scenario holds its own contract, and inside it the saved copy in        *)
(* tmp_contract / tmp_con_len does, so the restore puts back the original. *)
ScenInv ==
    /\ TypeOK
    /\ pc \notin {"verify", "restore", "crashed"} => scen = ScenOrig
    /\ pc \in {"verify", "restore"} => tmp = ScenOrig

(* ScenInv holds in every reachable state: the contract measure_variable_ *)
(* shim saves in tmp_contract before lending g_scen to process_contract is *)
(* the scenario's own, for any number of dispatches.                       *)
LEMMA ScenInvariant == Spec => []ScenInv
<1>1. Init => ScenInv
  BY TypeInit DEF Init, ScenInv
<1>2. ScenInv /\ [Next]_vars => ScenInv'
  <2> SUFFICES ASSUME ScenInv, [Next]_vars PROVE ScenInv'
    OBVIOUS
  <2>1. TypeOK'
    BY TypeStep DEF ScenInv
  <2>2. CASE Select
    BY <2>1, <2>2 DEF Select, Return, ScenInv
  <2>3. CASE AddNode
    BY <2>1, <2>3 DEF AddNode, Return, ScenInv
  <2>4. CASE RunKernel
    BY <2>1, <2>4 DEF RunKernel, Return, ScenInv
  <2>5. CASE Userspace
    BY <2>1, <2>5 DEF Userspace, Return, ScenInv
  <2>6. CASE Resolve
    BY <2>1, <2>6 DEF Resolve, Return, ScenInv
  <2>7. CASE Invoke
    BY <2>1, <2>7 DEF Invoke, Return, ScenInv
  <2>8. CASE Swap
    BY <2>1, <2>8 DEF Swap, ScenInv
  <2>9. CASE Verify
    BY <2>1, <2>9 DEF Verify, ScenInv
  <2>10. CASE Restore
    BY <2>1, <2>10 DEF Restore, Return, ScenInv
  <2>11. CASE AddData
    BY <2>1, <2>11 DEF AddData, Return, ScenInv
  <2>12. CASE UNCHANGED vars
    BY <2>1, <2>12 DEF vars, ScenInv
  <2>. QED
    BY <2>2, <2>3, <2>4, <2>5, <2>6, <2>7, <2>8, <2>9, <2>10, <2>11, <2>12
       DEF Next
<1>. QED
  BY <1>1, <1>2, PTL DEF Spec

\* measure_variable_shim always hands the scenario back with its own contract
\* buffer and size, on the success path and on every error path alike.
THEOREM ScenarioAlwaysRestored == Spec => []ScenarioRestored
<1>1. ScenInv => ScenarioRestored
  BY DEF ScenInv, ScenarioRestored
<1>. QED
  BY <1>1, ScenInvariant, PTL

-----------------------------------------------------------------------------
RemotePCs == {"invoke", "swap", "verify", "restore", "add_data"}

(* The inductive strengthening of EvidenceFromAddressedAttester: along the *)
(* remote-layered path the request address, the place, the received       *)
(* contract, the contract the scenario lends process_contract and the      *)
(* payload it extracts all stay tied to the variable being dispatched.     *)
EvInv ==
    /\ TypeOK
    /\ EvidenceFromAddressedAttester
    /\ pc \in RemotePCs =>
         /\ VarAddr[cur[1]] = va
         /\ va.attester \in {DomZero, DomTarget}
         /\ target = PlaceInfo[va.attester]
    /\ pc \in RemotePCs \ {"invoke"} /\ received # NoContract =>
         received.att = va.attester /\ received.res = va.resource
    /\ pc = "verify" => scen.contract = received
    /\ pc \in {"restore", "add_data"} /\ extracted # NoBlob =>
         extracted = [att |-> va.attester, res |-> va.resource]

\* get_target_channel_info picks the place of the attester it is asked about,
\* and that place's contracts are signed by that attester.
LEMMA OwnerOfPlace ==
    \A a \in {DomZero, DomTarget} : OwnerOf(PlaceInfo[a]) = a
BY DEF OwnerOf

(* EvInv holds in every reachable state: along the remote-layered path of *)
(* measure_variable_shim the place asked, the contract it returns and the *)
(* payload process_contract extracts stay those of the variable's request *)
(* address.                                                                *)
LEMMA EvInvariant == Spec => []EvInv
<1>1. Init => EvInv
  BY TypeInit DEF Init, EvInv, EvidenceFromAddressedAttester, RemotePCs
<1>2. EvInv /\ [Next]_vars => EvInv'
  <2> SUFFICES ASSUME EvInv, [Next]_vars PROVE EvInv'
    OBVIOUS
  <2> USE DEF EvInv, RemotePCs
  <2>1. TypeOK'
    BY TypeStep
  <2>2. CASE Select
    BY <2>1, <2>2 DEF Select, Return, EvidenceFromAddressedAttester
  <2>3. CASE AddNode
    BY <2>1, <2>3 DEF AddNode, Return, EvidenceFromAddressedAttester
  <2>4. CASE RunKernel
    BY <2>1, <2>4 DEF RunKernel, Return, EvidenceFromAddressedAttester
  <2>5. CASE Userspace
    BY <2>1, <2>5 DEF Userspace, Return, EvidenceFromAddressedAttester
  <2>6. CASE Resolve
    BY <2>1, <2>6 DEF Resolve, Return, EvidenceFromAddressedAttester
  <2>7. CASE Invoke
    <3>1. OwnerOf(target) = va.attester
      BY <2>7, OwnerOfPlace DEF Invoke
    <3>. QED
      BY <2>1, <2>7, <3>1 DEF Invoke, Return, EvidenceFromAddressedAttester
  <2>8. CASE Swap
    BY <2>1, <2>8 DEF Swap, EvidenceFromAddressedAttester
  <2>9. CASE Verify
    BY <2>1, <2>9 DEF Verify, EvidenceFromAddressedAttester, TypeOK, Contracts
  <2>10. CASE Restore
    BY <2>1, <2>10 DEF Restore, Return, EvidenceFromAddressedAttester
  <2>11. CASE AddData
    <3>1. CASE blob' = blob
      BY <2>1, <2>11, <3>1 DEF AddData, Return, EvidenceFromAddressedAttester
    <3>2. CASE blob' = [blob EXCEPT ![cur[1]] = extracted]
      BY <2>11, <3>2, <2>1 DEF AddData, Return, EvidenceFromAddressedAttester,
                              TypeOK, DynReqAddrs
    <3>. QED
      BY <2>11, <3>1, <3>2 DEF AddData
  <2>12. CASE UNCHANGED vars
    BY <2>1, <2>12 DEF vars, EvidenceFromAddressedAttester
  <2>. QED
    BY <2>1, <2>2, <2>3, <2>4, <2>5, <2>6, <2>7, <2>8, <2>9, <2>10, <2>11,
       <2>12 DEF Next
<1>. QED
  BY <1>1, <1>2, PTL DEF Spec

\* Blob evidence recorded by the remote-layered path always comes from the
\* attester, and is for the resource, that the variable's request names.
THEOREM EvidenceAddressed == Spec => []EvidenceFromAddressedAttester
<1>1. EvInv => EvidenceFromAddressedAttester
  BY DEF EvInv
<1>. QED
  BY <1>1, EvInvariant, PTL

-----------------------------------------------------------------------------
(* The invariant behind NoRemeasure: from the has_data test in AddNode     *)
(* until the kernel ASP or the send_execute_tcp request is launched, the   *)
(* node holds no data of the requested type.  Only RunKernel, Userspace   *)
(* and AddData write data, and none of them runs inside that stretch.      *)
UnmeasuredInv ==
    pc \in {"run_kernel", "resolve", "invoke"} => cur[2] \notin data[cur[1]]

\* The initial state satisfies it.
LEMMA UnmeasuredInit == Init => UnmeasuredInv
BY DEF Init, UnmeasuredInv

\* Every step of measure_variable_shim keeps it.
LEMMA UnmeasuredStep == UnmeasuredInv /\ [Next]_vars => UnmeasuredInv'
<1> SUFFICES ASSUME UnmeasuredInv, [Next]_vars PROVE UnmeasuredInv'
  OBVIOUS
<1> USE DEF UnmeasuredInv, Return
<1>1. CASE Select
  BY <1>1 DEF Select
<1>2. CASE AddNode
  BY <1>2 DEF AddNode
<1>3. CASE RunKernel
  BY <1>3 DEF RunKernel
<1>4. CASE Userspace
  BY <1>4 DEF Userspace
<1>5. CASE Resolve
  BY <1>5 DEF Resolve
<1>6. CASE Invoke
  BY <1>6 DEF Invoke
<1>7. CASE Swap
  BY <1>7 DEF Swap
<1>8. CASE Verify
  BY <1>8 DEF Verify
<1>9. CASE Restore
  BY <1>9 DEF Restore
<1>10. CASE AddData
  BY <1>10 DEF AddData
<1>11. CASE UNCHANGED vars
  BY <1>11 DEF vars
<1>. QED
  BY <1>1, <1>2, <1>3, <1>4, <1>5, <1>6, <1>7, <1>8, <1>9, <1>10, <1>11
     DEF Next

(* UnmeasuredInv holds in every reachable state, for any number of        *)
(* dispatches of any requests.                                             *)
LEMMA UnmeasuredInvariant == Spec => []UnmeasuredInv
BY UnmeasuredInit, UnmeasuredStep, PTL DEF Spec

(* No step of the dispatcher launches the kernel ASP or the remote request *)
(* for a (variable, type) whose node already holds data of that type: the  *)
(* has_data early return of measure_variable_shim is never bypassed.       *)
THEOREM NeverRemeasures == Spec => NoRemeasure
<1>1. UnmeasuredInv =>
        [(pc \in {"run_kernel", "invoke"} /\ pc' # pc) => cur[2] \notin data[cur[1]]]_vars
  BY DEF UnmeasuredInv
<1>. QED
  BY <1>1, UnmeasuredInvariant, PTL DEF NoRemeasure

=============================================================================
