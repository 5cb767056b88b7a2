------------------------------ MODULE Pipeline ------------------------------
(***************************************************************************)
(* The sign-send pipeline of the layered attestation APB                   *)
(* (execute_sign_send_pipeline, src/src/apbs/layered_att_apb.c).          *)
(*                                                                         *)
(* The orchestrator process P0 and the processes it forks, one level per   *)
(* stage: P0 runs serialize_graph_asp and forks P1; P1 runs compress_asp   *)
(* and forks P2; P2 runs encrypt_asp when a partner certificate could be   *)
(* copied, then the next level runs create_measurement_contract_asp; the   *)
(* last process (the leaf) runs send_asp on the peer channel.              *)
(*                                                                         *)
(* fork_and_buffer_async_asp is not under src/ and is modelled from the    *)
(* spec (section 4.5, 6): it returns -2 when the spawn fails; otherwise    *)
(* it returns 0 in the forked child, which continues the chain reading     *)
(* the new pipe, while in the caller the stage's worker writes into that   *)
(* pipe; the caller then waits for the worker and the child and gets -1    *)
(* if either failed, a positive value if both succeeded.  Workers of       *)
(* successive stages run concurrently, connected by pipes.                 *)
(***************************************************************************)
EXTENDS Integers

CONSTANTS
    PipelineAsps    \* the pipeline ASPs find_asp finds in apb_asps

Procs == 0..4

StageAsps == {"serialize_graph_asp", "compress_asp", "encrypt_asp",
              "create_measurement_contract_asp", "send_asp"}

ASSUME PipelineAssumption == PipelineAsps \subseteq StageAsps

VARIABLES
    ppc,        \* ppc[k]: control point of process k
    pstage,     \* pstage[k]: the ASP process k runs ("none" before it forks)
    worker,     \* worker[k]: state of the worker process k launched
    complete,   \* complete[k]: worker k's output is the whole stream
    status,     \* status[k]: exit status of process k (k > 0)
    result,     \* return value of execute_sign_send_pipeline in P0
    encFlag,    \* create_con_args[9]: "1" when encryption was applied
    sent,       \* what send_asp transmitted on the peer channel
    partnerCert,\* scen->partner_cert is set
    workdir,    \* scen->workdir is set
    spawnFailed \* some fork_and_buffer_async_asp returned -2 (ghost)

vars == <<ppc, pstage, worker, complete, status, result, encFlag, sent,
          partnerCert, workdir, spawnFailed>>

PPCs == {"absent", "setup", "start", "wait", "send", "exited", "returned"}
WorkerStates == {"none", "running", "ok", "failed"}
NoResult == 1000   \* result before P0 returns (no return code equals it)

\* Mutant of ExitStatus: the status read back as the signed value passed to
\* exit().
ExitStatusSigned(x) == x

\* The status a parent reads for exit(x): its low 8 bits.
ExitStatus(x) == x % 256

TypeOK ==
    /\ ppc \in [Procs -> PPCs]
    /\ pstage \in [Procs -> StageAsps \cup {"none"}]
    /\ worker \in [Procs -> WorkerStates]
    /\ complete \in [Procs -> BOOLEAN]
    /\ status \in [Procs -> 0..255]
    /\ result \in {-2, -1, 1, NoResult}
    /\ encFlag \in {"none", "0", "1"}
    /\ sent \in {"none", "complete", "partial"}
    /\ partnerCert \in BOOLEAN
    /\ workdir \in BOOLEAN
    /\ spawnFailed \in BOOLEAN

Init ==
    /\ ppc = [k \in Procs |-> IF k = 0 THEN "setup" ELSE "absent"]
    /\ pstage = [k \in Procs |-> "none"]
    /\ worker = [k \in Procs |-> "none"]
    /\ complete = [k \in Procs |-> FALSE]
    /\ status = [k \in Procs |-> 0]
    /\ result = NoResult
    /\ encFlag = "none"
    /\ sent = "none"
    /\ partnerCert \in BOOLEAN
    /\ workdir \in BOOLEAN
    /\ spawnFailed = FALSE

-----------------------------------------------------------------------------
(* Copy the working directory, find the five ASPs and get the graph path;  *)
(* any failure returns -1 before a process is forked.  The copies can fail *)
(* on allocation whatever the inputs, so the failure has no other guard.   *)
Setup ==
    /\ ppc[0] = "setup"
    /\ \/ /\ result' = -1
          /\ ppc' = [ppc EXCEPT ![0] = "returned"]
       \/ /\ workdir
          /\ PipelineAsps = StageAsps
          /\ ppc' = [ppc EXCEPT ![0] = "start"]
          /\ UNCHANGED result
    /\ UNCHANGED <<pstage, worker, complete, status, encFlag, sent,
                   partnerCert, workdir, spawnFailed>>

\* Mutant of ForkStage: the contract stage's child continues as one more
\* forking level instead of running send_asp.
ForkStageNoLeaf(k, s) ==
    /\ ppc[k] = "start"
    /\ pstage' = [pstage EXCEPT ![k] = s]
    /\ \/ /\ k = 0
          /\ result' = -2
          /\ ppc' = [ppc EXCEPT ![0] = "returned"]
          /\ spawnFailed' = TRUE
          /\ UNCHANGED <<worker, status>>
       \/ /\ k # 0
          /\ ppc' = [ppc EXCEPT ![k] = "exited"]
          /\ status' = [status EXCEPT ![k] = ExitStatus(-1)]
          /\ spawnFailed' = TRUE
          /\ UNCHANGED <<worker, result>>
       \/ /\ ppc' = [ppc EXCEPT ![k] = "wait", ![k + 1] = "start"]
          /\ worker' = [worker EXCEPT ![k] = "running"]
          /\ UNCHANGED <<status, result, spawnFailed>>
    /\ UNCHANGED <<complete, sent, partnerCert, workdir>>

(* Process k calls fork_and_buffer_async_asp for stage s.  When the spawn  *)
(* fails, P0 returns -2 and a forked process exits with exit(-1).  When it *)
(* succeeds, the worker of s runs, the child k+1 continues the chain (as   *)
(* the leaf that runs send_asp when s is the contract stage) and k waits.  *)
ForkStage(k, s) ==
    /\ ppc[k] = "start"
    /\ pstage' = [pstage EXCEPT ![k] = s]
    /\ \/ /\ k = 0
          /\ result' = -2
          /\ ppc' = [ppc EXCEPT ![0] = "returned"]
          /\ spawnFailed' = TRUE
          /\ UNCHANGED <<worker, status>>
       \/ /\ k # 0
          /\ ppc' = [ppc EXCEPT ![k] = "exited"]
          /\ status' = [status EXCEPT ![k] = ExitStatus(-1)]
          /\ spawnFailed' = TRUE
          /\ UNCHANGED <<worker, result>>
       \/ /\ ppc' = [ppc EXCEPT
                       ![k] = "wait",
                       ![k + 1] = IF s = "create_measurement_contract_asp"
                                  THEN "send" ELSE "start"]
          /\ worker' = [worker EXCEPT ![k] = "running"]
          /\ UNCHANGED <<status, result, spawnFailed>>
    /\ UNCHANGED <<complete, sent, partnerCert, workdir>>

(* The stage each level forks: serialize, compress, then, in the compress  *)
(* child, encrypt if scen->partner_cert is set and strdup copies it        *)
(* (create_con_args[9] = "1"), else straight to the contract stage with    *)
(* create_con_args[9] = "0"; after encrypt comes the contract stage.       *)
Fork(k) ==
    \/ k = 0 /\ ForkStage(0, "serialize_graph_asp") /\ UNCHANGED encFlag
    \/ k = 1 /\ ForkStage(1, "compress_asp") /\ UNCHANGED encFlag
    \/ /\ k = 2
       /\ \E copied \in BOOLEAN :
            IF partnerCert /\ copied
            THEN encFlag' = "1" /\ ForkStage(2, "encrypt_asp")
            ELSE /\ encFlag' = "0"
                 /\ ForkStage(2, "create_measurement_contract_asp")
    \/ /\ k = 3
       /\ ForkStage(3, "create_measurement_contract_asp")
       /\ UNCHANGED encFlag

\* The pipe worker k reads has reached end of file (stage 0 reads the graph).
InputEnded(k) == IF k = 0 THEN TRUE ELSE worker[k - 1] \in {"ok", "failed"}

(* The worker of stage k ends.  It can fail at any time; it succeeds only  *)
(* after reading its input to end of file, and its output is the whole     *)
(* stream only if its input was.                                           *)
WorkerEnd(k) ==
    /\ worker[k] = "running"
    /\ \/ worker' = [worker EXCEPT ![k] = "failed"] /\ UNCHANGED complete
       \/ /\ InputEnded(k)
          /\ worker' = [worker EXCEPT ![k] = "ok"]
          /\ complete' = [complete EXCEPT
                            ![k] = IF k = 0 THEN TRUE ELSE complete[k - 1]]
    /\ UNCHANGED <<ppc, pstage, status, result, encFlag, sent, partnerCert,
                   workdir, spawnFailed>>

(* The leaf runs send_asp from the last pipe to the peer channel, closes   *)
(* the pipe and exits with -1 on a negative status, else with the status.  *)
Send(k) ==
    /\ ppc[k] = "send"
    /\ pstage' = [pstage EXCEPT ![k] = "send_asp"]
    /\ ppc' = [ppc EXCEPT ![k] = "exited"]
    /\ \/ /\ worker[k - 1] \in {"ok", "failed"}
          /\ sent' = IF complete[k - 1] THEN "complete" ELSE "partial"
          /\ status' = [status EXCEPT ![k] = ExitStatus(0)]
       \/ /\ \E rc \in {-1, 1} : status' = [status EXCEPT ![k] = ExitStatus(rc)]
          /\ UNCHANGED sent
    /\ UNCHANGED <<worker, complete, result, encFlag, partnerCert, workdir,
                   spawnFailed>>

\* Mutant of Wait: the caller does not wait for its child to exit.
WaitNoChild(k) ==
    /\ ppc[k] = "wait"
    /\ worker[k] \in {"ok", "failed"}
    /\ LET r == IF worker[k] = "ok" /\ status[k + 1] = 0 THEN 1 ELSE -1 IN
         \/ /\ k = 0
            /\ result' = r
            /\ ppc' = [ppc EXCEPT ![0] = "returned"]
            /\ UNCHANGED status
         \/ /\ k # 0
            /\ ppc' = [ppc EXCEPT ![k] = "exited"]
            /\ status' = [status EXCEPT
                            ![k] = IF r = -1 THEN ExitStatus(-1) ELSE 0]
            /\ UNCHANGED result
    /\ UNCHANGED <<pstage, worker, complete, encFlag, sent, partnerCert,
                   workdir, spawnFailed>>

\* Mutant of Wait: a forked level exits 0 whatever fork_and_buffer_async_asp
\* returned.
WaitExitZero(k) ==
    /\ ppc[k] = "wait"
    /\ worker[k] \in {"ok", "failed"}
    /\ ppc[k + 1] = "exited"
    /\ LET r == IF worker[k] = "ok" /\ status[k + 1] = 0 THEN 1 ELSE -1 IN
         \/ /\ k = 0
            /\ result' = r
            /\ ppc' = [ppc EXCEPT ![0] = "returned"]
            /\ UNCHANGED status
         \/ /\ k # 0
            /\ ppc' = [ppc EXCEPT ![k] = "exited"]
            /\ status' = [status EXCEPT ![k] = 0]
            /\ UNCHANGED result
    /\ UNCHANGED <<pstage, worker, complete, encFlag, sent, partnerCert,
                   workdir, spawnFailed>>

(* fork_and_buffer_async_asp in the caller: once the worker has ended and  *)
(* the child has exited, -1 if either failed, else a positive value.  P0   *)
(* returns it; a forked process exits with -1 or with 0.                   *)
Wait(k) ==
    /\ ppc[k] = "wait"
    /\ worker[k] \in {"ok", "failed"}
    /\ ppc[k + 1] = "exited"
    /\ LET r == IF worker[k] = "ok" /\ status[k + 1] = 0 THEN 1 ELSE -1 IN
         \/ /\ k = 0
            /\ result' = r
            /\ ppc' = [ppc EXCEPT ![0] = "returned"]
            /\ UNCHANGED status
         \/ /\ k # 0
            /\ ppc' = [ppc EXCEPT ![k] = "exited"]
            /\ status' = [status EXCEPT
                            ![k] = IF r = -1 THEN ExitStatus(-1) ELSE 0]
            /\ UNCHANGED result
    /\ UNCHANGED <<pstage, worker, complete, encFlag, sent, partnerCert,
                   workdir, spawnFailed>>

Next ==
    \/ Setup
    \/ \E k \in 0..3 : Fork(k) \/ WorkerEnd(k) \/ Wait(k)
    \/ \E k \in 3..4 : Send(k)

Spec == Init /\ [][Next]_vars

\* Every process step is taken when it can be (the processes are scheduled
\* by the kernel), and every worker ends (spec section 5: a stage that
\* never ends blocks the orchestrator, a limitation this assumes away).
Fairness ==
    /\ WF_vars(Setup)
    /\ \A k \in 0..3 : WF_vars(Fork(k)) /\ WF_vars(WorkerEnd(k))
                          /\ WF_vars(Wait(k))
    /\ \A k \in 3..4 : WF_vars(Send(k))

FairSpec == Spec /\ Fairness

-----------------------------------------------------------------------------
(* Properties.                                                             *)

Returned == ppc[0] = "returned"

(* When execute_sign_send_pipeline returns in the orchestrator, every      *)
(* process of the fork chain has exited and every worker has ended: the    *)
(* waits at each level leave no unreaped child behind.                     *)
ChildrenReaped ==
    Returned =>
        \A k \in Procs :
            /\ k # 0 => ppc[k] \in {"absent", "exited"}
            /\ worker[k] # "running"

(* The pipeline reports success only when the whole contract reached the   *)
(* peer: a failure at any stage, in any process of the chain, propagates   *)
(* through the exit statuses to the orchestrator.                          *)
SuccessMeansSent ==
    (Returned /\ result > 0) => sent = "complete"

(* Spec section 4.5: the pipeline eventually returns to the orchestrator.  *)
Terminates == <>Returned

(* Spec section 4.5, step 6: a spawn failure at any level reaches the      *)
(* caller as a code distinct from a worker failure (-2).                   *)
SpawnFailureDistinct ==
    (Returned /\ spawnFailed) => result = -2

(* What the peer received and what the caller was told are final: the     *)
(* contract goes out on the peer channel at most once, and once            *)
(* execute_sign_send_pipeline has returned in P0 no process of the chain   *)
(* still sends or changes the result (each level waits for its child       *)
(* before it returns or exits).                                            *)
OutcomeFinal ==
    [][/\ sent # "none" => sent' = sent
       /\ ppc[0] = "returned" => UNCHANGED <<result, sent>>]_vars

(* Spec section 4.5: with a partner certificate configured, the contract   *)
(* is encrypted; only an allocation failure while copying the certificate  *)
(* path may stop that, and it is fatal to the pipeline.                    *)
EncryptedWhenPartnerCert ==
    (sent # "none" /\ partnerCert) => encFlag = "1"

=============================================================================
