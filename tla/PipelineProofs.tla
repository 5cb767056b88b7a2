--------------------------- MODULE PipelineProofs ---------------------------
(***************************************************************************)
(* The sign-send pipeline implements its abstract specification, and the   *)
(* invariants of the fork chain hold for every value of the constants.    *)
(***************************************************************************)
EXTENDS Pipeline, TLAPS

\* The refinement mapping: the caller sees P0's control point, the result
\* and what reached the peer.
phaseBar ==
    CASE ppc[0] = "setup"    -> "setup"
      [] ppc[0] = "returned" -> "returned"
      [] OTHER               -> "running"

Abs == INSTANCE PipelineAbstract WITH phase <- phaseBar

\* The pipeline implements PipelineAbstract: one transmission at most,
\* one return, success only after a whole contract was sent.
AbsSpec == Abs!Spec

\* With fair scheduling of the processes, the abstract call returns.
AbsFairSpec == Abs!FairSpec

-----------------------------------------------------------------------------
(* The inductive invariant of the fork chain.                              *)

\* Process k is running code (not yet exited or returned).
Alive(k) == ppc[k] \in {"start", "send", "wait"}

\* Process k has finished.
Done(k) == ppc[k] \in {"exited", "returned"}

\* A process that exits with status 0 has seen its input stream end; the
\* contract went out, and whole if that input was whole.
ExitOk(j) ==
    ppc[j] = "exited" /\ status[j] = 0 =>
        /\ worker[j - 1] \in {"ok", "failed"}
        /\ sent # "none"
        /\ complete[j - 1] => sent = "complete"

\* P0 never sends or exits; a forked process never sets up or returns.
PcShape ==
    /\ ppc[0] \in {"setup", "start", "wait", "returned"}
    /\ \A k \in 1..4 : ppc[k] \in {"absent", "start", "wait", "send", "exited"}

\* Nothing exists below a process that has not forked yet.
NoChildYet ==
    \A k, j \in Procs :
        k < j /\ ppc[k] \in {"setup", "start", "send"} => ppc[j] = "absent"

\* Below a finished process everything has exited.
ReapedBelow ==
    \A k, j \in Procs : k < j /\ Done(k) => ppc[j] \in {"absent", "exited"}

\* Above a live process every process is waiting for its child.
WaitingAbove ==
    \A i, k \in Procs : i < k /\ Alive(k) => ppc[i] = "wait"

\* A worker runs only while the process that launched it waits, and none
\* has been launched by a process that has not forked.
WorkerShape ==
    /\ \A k \in Procs : worker[k] = "running" => ppc[k] = "wait"
    /\ \A k \in Procs :
          ppc[k] \in {"setup", "start", "absent", "send"} => worker[k] = "none"

\* A worker that succeeded read its whole input.
OkWorkerWhole ==
    \A k \in Procs :
        worker[k] = "ok" =>
            IF k = 0 THEN complete[0]
            ELSE worker[k - 1] \in {"ok", "failed"} /\ complete[k] = complete[k - 1]

\* Once the contract went out no process sets up, forks or sends again.
SentOnce ==
    sent # "none" => \A k \in Procs : ppc[k] \notin {"setup", "start", "send"}

\* P0 has a return value exactly when it has returned.
ResultSet == ppc[0] = "returned" <=> result # NoResult

PInv ==
    /\ TypeOK
    /\ ResultSet
    /\ PcShape
    /\ NoChildYet
    /\ ReapedBelow
    /\ WaitingAbove
    /\ WorkerShape
    /\ OkWorkerWhole
    /\ SentOnce
    /\ \A j \in 1..4 : ExitOk(j)
    /\ result = 1 => sent = "complete"

-----------------------------------------------------------------------------
USE PipelineAssumption

\* The initial state is well typed.
LEMMA TypeInit == Init => TypeOK
<1> SUFFICES ASSUME Init PROVE TypeOK
  OBVIOUS
<1>1. ppc \in [Procs -> PPCs]
  BY DEF Init, Procs, PPCs
<1>2. pstage \in [Procs -> StageAsps \cup {"none"}] /\ worker \in [Procs -> WorkerStates]
  BY DEF Init, WorkerStates
<1>3. complete \in [Procs -> BOOLEAN] /\ status \in [Procs -> 0..255]
  BY DEF Init
<1>4. result \in {-2, -1, 1, NoResult} /\ encFlag \in {"none", "0", "1"}
      /\ sent \in {"none", "complete", "partial"}
  BY DEF Init
<1>5. partnerCert \in BOOLEAN /\ workdir \in BOOLEAN /\ spawnFailed \in BOOLEAN
  BY Zenon DEF Init
<1>. QED
  BY <1>1, <1>2, <1>3, <1>4, <1>5, Zenon DEF TypeOK

\* Adding the modulus does not change the remainder.
LEMMA ModPeriod == \A x \in Int : x % 256 = (x + 256) % 256
BY SMT

\* The statuses a parent reads for exit(-1), exit(0) and exit(1).
LEMMA ExitStatusRange ==
    /\ ExitStatus(-1) = 255 /\ ExitStatus(0) = 0 /\ ExitStatus(1) = 1
<1>1. (-1) % 256 = ((-1) + 256) % 256
  <2>1. -1 \in Int
    OBVIOUS
  <2>. QED
    BY <2>1, ModPeriod, Zenon
<1>2. (-1) + 256 = 255 /\ 255 % 256 = 255
  OBVIOUS
<1>3. 0 % 256 = 0 /\ 1 % 256 = 1
  OBVIOUS
<1>. QED
  BY <1>1, <1>2, <1>3 DEF ExitStatus

\* Every step keeps the variables in their types.
LEMMA TypeStep == TypeOK /\ [Next]_vars => TypeOK'
<1> SUFFICES ASSUME TypeOK, [Next]_vars PROVE TypeOK'
  OBVIOUS
<1>1. CASE Setup
  BY <1>1 DEF Setup, TypeOK, Procs, PPCs
<1>2. ASSUME NEW k \in 0..3, NEW s \in StageAsps, ForkStage(k, s),
             encFlag' \in {"none", "0", "1"}
      PROVE TypeOK'
  <2>1. pstage' \in [Procs -> StageAsps \cup {"none"}]
    BY <1>2 DEF ForkStage, TypeOK, Procs
  <2>2. CASE k = 0 /\ result' = -2 /\ ppc' = [ppc EXCEPT ![0] = "returned"]
               /\ spawnFailed' = TRUE /\ UNCHANGED <<worker, status>>
    BY <1>2, <2>1, <2>2 DEF ForkStage, TypeOK, Procs, PPCs
  <2>3. CASE k # 0 /\ ppc' = [ppc EXCEPT ![k] = "exited"]
               /\ status' = [status EXCEPT ![k] = ExitStatus(-1)]
               /\ spawnFailed' = TRUE /\ UNCHANGED <<worker, result>>
    BY <1>2, <2>1, <2>3, ExitStatusRange DEF ForkStage, TypeOK, Procs, PPCs
  <2>4. CASE /\ ppc' = [ppc EXCEPT
                          ![k] = "wait",
                          ![k + 1] = IF s = "create_measurement_contract_asp"
                                     THEN "send" ELSE "start"]
             /\ worker' = [worker EXCEPT ![k] = "running"]
             /\ UNCHANGED <<status, result, spawnFailed>>
    BY <1>2, <2>1, <2>4 DEF ForkStage, TypeOK, Procs, PPCs, WorkerStates
  <2>. QED
    BY <1>2, <2>2, <2>3, <2>4 DEF ForkStage
<1>3. ASSUME NEW k \in 0..3, Fork(k) PROVE TypeOK'
  <2>1. CASE k = 0 \/ k = 1 \/ k = 3
    BY <1>3, <1>2, <2>1 DEF Fork, StageAsps, TypeOK
  <2>2. CASE k = 2
    <3>1. PICK copied \in BOOLEAN :
             IF partnerCert /\ copied
             THEN encFlag' = "1" /\ ForkStage(2, "encrypt_asp")
             ELSE /\ encFlag' = "0"
                  /\ ForkStage(2, "create_measurement_contract_asp")
      BY <1>3, <2>2 DEF Fork
    <3>. QED
      BY <3>1, <1>2 DEF StageAsps, TypeOK
  <2>. QED
    BY <2>1, <2>2
<1>4. ASSUME NEW k \in 0..3, WorkerEnd(k) PROVE TypeOK'
  <2>1. CASE worker' = [worker EXCEPT ![k] = "failed"] /\ UNCHANGED complete
    BY <1>4, <2>1 DEF WorkerEnd, TypeOK, Procs, WorkerStates
  <2>2. CASE /\ worker' = [worker EXCEPT ![k] = "ok"]
             /\ complete' = [complete EXCEPT
                               ![k] = IF k = 0 THEN TRUE ELSE complete[k - 1]]
    <3>1. complete' \in [Procs -> BOOLEAN]
      <4>1. (IF k = 0 THEN TRUE ELSE complete[k - 1]) \in BOOLEAN
        <5>1. CASE k = 0
          BY <5>1
        <5>2. CASE k # 0
          <6>1. k - 1 \in Procs
            BY <5>2 DEF Procs
          <6>. QED
            BY <5>2, <6>1, Zenon DEF TypeOK
        <5>. QED
          BY <5>1, <5>2
      <4>. QED
        BY <2>2, <4>1 DEF TypeOK, Procs
    <3>. QED
      BY <1>4, <2>2, <3>1 DEF WorkerEnd, TypeOK, Procs, WorkerStates
  <2>. QED
    BY <1>4, <2>1, <2>2 DEF WorkerEnd
<1>5. ASSUME NEW k \in 0..3, Wait(k) PROVE TypeOK'
  BY <1>5, ExitStatusRange DEF Wait, TypeOK, Procs, PPCs
<1>6. ASSUME NEW k \in 3..4, Send(k) PROVE TypeOK'
  BY <1>6, ExitStatusRange DEF Send, TypeOK, Procs, PPCs, StageAsps
<1>7. CASE UNCHANGED vars
  BY <1>7 DEF vars, TypeOK
<1>. QED
  BY <1>1, <1>3, <1>4, <1>5, <1>6, <1>7 DEF Next

\* The pipeline's variables always have the types TypeOK gives them.
THEOREM PipelineTypeCorrect == Spec => []TypeOK
BY TypeInit, TypeStep, PTL DEF Spec

-----------------------------------------------------------------------------
(* The invariant of the fork chain is inductive.                           *)

\* The initial state satisfies the fork-chain invariant.
LEMMA PInvInit == Init => PInv
<1> SUFFICES ASSUME Init PROVE PInv
  OBVIOUS
<1>1. TypeOK
  BY TypeInit
<1>2. PcShape /\ NoChildYet /\ ReapedBelow /\ WaitingAbove
  BY DEF Init, PcShape, NoChildYet, ReapedBelow, WaitingAbove, Alive, Done, Procs
<1>3. WorkerShape /\ OkWorkerWhole /\ SentOnce
  BY DEF Init, WorkerShape, OkWorkerWhole, SentOnce, Procs
<1>4. \A j \in 1..4 : ExitOk(j)
  BY DEF Init, ExitOk, Procs
<1>5. (result = 1 => sent = "complete") /\ ResultSet
  BY DEF Init, NoResult, ResultSet, Procs
<1>. QED
  BY <1>1, <1>2, <1>3, <1>4, <1>5 DEF PInv

\* A fork step of process k keeps the invariant, whatever stage it forks.
LEMMA ForkStageInv ==
    ASSUME PInv, NEW k \in 0..3, NEW s \in StageAsps, ForkStage(k, s), TypeOK'
    PROVE  PInv'
<1> USE DEF Procs
<1>1. ppc[k] = "start" /\ worker[k] = "none"
  BY DEF ForkStage, PInv, WorkerShape
<1>2. \A j \in Procs : j > k => ppc[j] = "absent"
  BY <1>1 DEF PInv, NoChildYet
<1>3. \A i \in Procs : i < k => ppc[i] = "wait"
  BY <1>1 DEF PInv, WaitingAbove, Alive
<1>4. sent = "none"
  BY <1>1 DEF PInv, SentOnce
<1>5. UNCHANGED <<complete, sent>>
  BY DEF ForkStage
<1>6. CASE /\ k = 0 /\ result' = -2 /\ ppc' = [ppc EXCEPT ![0] = "returned"]
           /\ spawnFailed' = TRUE /\ UNCHANGED <<worker, status>>
  <2>1. ResultSet'
    BY <1>1, <1>2, <1>3, <1>4, <1>5, <1>6 DEF PInv, TypeOK, ResultSet, NoResult
  <2>2. PcShape'
    BY <1>1, <1>2, <1>3, <1>4, <1>5, <1>6 DEF PInv, TypeOK, PcShape
  <2>3. NoChildYet'
    BY <1>1, <1>2, <1>3, <1>4, <1>5, <1>6 DEF PInv, TypeOK, NoChildYet
  <2>4. ReapedBelow'
    BY <1>1, <1>2, <1>3, <1>4, <1>5, <1>6 DEF PInv, TypeOK, ReapedBelow, Done
  <2>5. WaitingAbove'
    BY <1>1, <1>2, <1>3, <1>4, <1>5, <1>6 DEF PInv, TypeOK, WaitingAbove, Alive
  <2>6. WorkerShape'
    BY <1>1, <1>2, <1>3, <1>4, <1>5, <1>6 DEF PInv, TypeOK, WorkerShape
  <2>7. OkWorkerWhole'
    BY <1>1, <1>2, <1>3, <1>4, <1>5, <1>6 DEF PInv, TypeOK, OkWorkerWhole
  <2>8. SentOnce'
    BY <1>1, <1>2, <1>3, <1>4, <1>5, <1>6 DEF PInv, TypeOK, SentOnce
  <2>9. \A j \in 1..4 : ExitOk(j)'
    BY <1>1, <1>2, <1>3, <1>4, <1>5, <1>6 DEF PInv, TypeOK, ExitOk
  <2>10. (result = 1 => sent = "complete")'
    BY <1>1, <1>2, <1>3, <1>4, <1>5, <1>6 DEF PInv, TypeOK
  <2>. QED
    BY TypeOK', <2>1, <2>2, <2>3, <2>4, <2>5, <2>6, <2>7, <2>8, <2>9, <2>10 DEF PInv
<1>7. CASE /\ k # 0 /\ ppc' = [ppc EXCEPT ![k] = "exited"]
           /\ status' = [status EXCEPT ![k] = ExitStatus(-1)]
           /\ spawnFailed' = TRUE /\ UNCHANGED <<worker, result>>
  <2>1. ResultSet'
    BY <1>1, <1>2, <1>3, <1>4, <1>5, <1>7, ExitStatusRange DEF PInv, TypeOK, ResultSet, NoResult
  <2>2. PcShape'
    BY <1>1, <1>2, <1>3, <1>4, <1>5, <1>7, ExitStatusRange DEF PInv, TypeOK, PcShape
  <2>3. NoChildYet'
    BY <1>1, <1>2, <1>3, <1>4, <1>5, <1>7, ExitStatusRange DEF PInv, TypeOK, NoChildYet
  <2>4. ReapedBelow'
    BY <1>1, <1>2, <1>3, <1>4, <1>5, <1>7, ExitStatusRange DEF PInv, TypeOK, ReapedBelow, Done
  <2>5. WaitingAbove'
    BY <1>1, <1>2, <1>3, <1>4, <1>5, <1>7, ExitStatusRange DEF PInv, TypeOK, WaitingAbove, Alive
  <2>6. WorkerShape'
    BY <1>1, <1>2, <1>3, <1>4, <1>5, <1>7, ExitStatusRange DEF PInv, TypeOK, WorkerShape
  <2>7. OkWorkerWhole'
    BY <1>1, <1>2, <1>3, <1>4, <1>5, <1>7, ExitStatusRange DEF PInv, TypeOK, OkWorkerWhole
  <2>8. SentOnce'
    BY <1>1, <1>2, <1>3, <1>4, <1>5, <1>7, ExitStatusRange DEF PInv, TypeOK, SentOnce
  <2>9. \A j \in 1..4 : ExitOk(j)'
    BY <1>1, <1>2, <1>3, <1>4, <1>5, <1>7, ExitStatusRange DEF PInv, TypeOK, ExitOk
  <2>10. (result = 1 => sent = "complete")'
    BY <1>1, <1>2, <1>3, <1>4, <1>5, <1>7, ExitStatusRange DEF PInv, TypeOK
  <2>. QED
    BY TypeOK', <2>1, <2>2, <2>3, <2>4, <2>5, <2>6, <2>7, <2>8, <2>9, <2>10 DEF PInv
<1>8. CASE /\ ppc' = [ppc EXCEPT
                        ![k] = "wait",
                        ![k + 1] = IF s = "create_measurement_contract_asp"
                                   THEN "send" ELSE "start"]
           /\ worker' = [worker EXCEPT ![k] = "running"]
           /\ UNCHANGED <<status, result, spawnFailed>>
  <2>1. ResultSet'
    BY <1>1, <1>2, <1>3, <1>4, <1>5, <1>8 DEF PInv, TypeOK, ResultSet, NoResult
  <2>2. PcShape'
    BY <1>1, <1>2, <1>3, <1>4, <1>5, <1>8 DEF PInv, TypeOK, PcShape
  <2>3. NoChildYet'
    BY <1>1, <1>2, <1>3, <1>4, <1>5, <1>8 DEF PInv, TypeOK, NoChildYet
  <2>4. ReapedBelow'
    BY <1>1, <1>2, <1>3, <1>4, <1>5, <1>8 DEF PInv, TypeOK, ReapedBelow, Done
  <2>5. WaitingAbove'
    BY <1>1, <1>2, <1>3, <1>4, <1>5, <1>8 DEF PInv, TypeOK, WaitingAbove, Alive
  <2>6. WorkerShape'
    BY <1>1, <1>2, <1>3, <1>4, <1>5, <1>8 DEF PInv, TypeOK, WorkerShape
  <2>7. OkWorkerWhole'
    BY <1>1, <1>2, <1>3, <1>4, <1>5, <1>8 DEF PInv, TypeOK, OkWorkerWhole
  <2>8. SentOnce'
    BY <1>1, <1>2, <1>3, <1>4, <1>5, <1>8 DEF PInv, TypeOK, SentOnce
  <2>9. \A j \in 1..4 : ExitOk(j)'
    BY <1>1, <1>2, <1>3, <1>4, <1>5, <1>8 DEF PInv, TypeOK, ExitOk
  <2>10. (result = 1 => sent = "complete")'
    BY <1>1, <1>2, <1>3, <1>4, <1>5, <1>8 DEF PInv, TypeOK
  <2>. QED
    BY TypeOK', <2>1, <2>2, <2>3, <2>4, <2>5, <2>6, <2>7, <2>8, <2>9, <2>10 DEF PInv
<1>. QED
  BY <1>6, <1>7, <1>8 DEF ForkStage

\* A worker ending keeps the invariant: a worker succeeds only after its
\* input ended, so the completeness it records is final.
LEMMA WorkerEndInv ==
    ASSUME PInv, NEW k \in 0..3, WorkerEnd(k), TypeOK'
    PROVE  PInv'
<1> USE DEF Procs
<1>1. ppc[k] = "wait" /\ worker[k] = "running"
  BY DEF WorkerEnd, PInv, WorkerShape
<1>2. UNCHANGED <<ppc, status, result, sent>>
  BY DEF WorkerEnd
<1>3. PcShape' /\ NoChildYet' /\ ReapedBelow' /\ WaitingAbove' /\ SentOnce'
  BY <1>2 DEF PInv, PcShape, NoChildYet, ReapedBelow, WaitingAbove, Alive, Done,
              SentOnce
<1>4. WorkerShape'
  BY <1>1, <1>2 DEF WorkerEnd, PInv, TypeOK, WorkerShape
<1>5. worker[k + 1] # "ok"
  BY <1>1 DEF PInv, OkWorkerWhole
<1>6. OkWorkerWhole'
  <2>1. CASE worker' = [worker EXCEPT ![k] = "failed"] /\ UNCHANGED complete
    BY <1>1, <2>1 DEF PInv, TypeOK, OkWorkerWhole
  <2>2. CASE /\ InputEnded(k)
             /\ worker' = [worker EXCEPT ![k] = "ok"]
             /\ complete' = [complete EXCEPT
                               ![k] = IF k = 0 THEN TRUE ELSE complete[k - 1]]
    <3> SUFFICES ASSUME NEW j \in Procs, worker'[j] = "ok"
                 PROVE  IF j = 0 THEN complete'[0]
                        ELSE /\ worker'[j - 1] \in {"ok", "failed"}
                             /\ complete'[j] = complete'[j - 1]
      BY DEF OkWorkerWhole
    <3>1. CASE j = k
      BY <1>1, <2>2, <3>1 DEF InputEnded, PInv, TypeOK
    <3>2. CASE j = k + 1
      BY <1>5, <2>2, <3>2 DEF PInv, TypeOK
    <3>3. CASE j # k /\ j # k + 1
      BY <2>2, <3>3 DEF PInv, TypeOK, OkWorkerWhole
    <3>. QED
      BY <3>1, <3>2, <3>3
  <2>. QED
    BY <2>1, <2>2 DEF WorkerEnd
<1>7. \A j \in 1..4 : ExitOk(j)'
  <2> SUFFICES ASSUME NEW j \in 1..4 PROVE ExitOk(j)'
    OBVIOUS
  <2>1. CASE j - 1 = k
    <3>1. ~(ppc[j] = "exited" /\ status[j] = 0)
      BY <1>1, <2>1 DEF PInv, ExitOk
    <3>. QED
      BY <1>2, <3>1 DEF ExitOk
  <2>2. CASE j - 1 # k
    <3>0. j - 1 \in Procs /\ j - 1 # k
      BY <2>2
    <3>1. worker'[j - 1] = worker[j - 1] /\ complete'[j - 1] = complete[j - 1]
      <4>1. CASE worker' = [worker EXCEPT ![k] = "failed"] /\ UNCHANGED complete
        BY <3>0, <4>1 DEF PInv, TypeOK
      <4>2. CASE /\ worker' = [worker EXCEPT ![k] = "ok"]
                 /\ complete' = [complete EXCEPT
                                   ![k] = IF k = 0 THEN TRUE ELSE complete[k - 1]]
        BY <3>0, <4>2 DEF PInv, TypeOK
      <4>. QED
        BY <4>1, <4>2 DEF WorkerEnd
    <3>. QED
      BY <1>2, <2>2, <3>1 DEF PInv, ExitOk
  <2>. QED
    BY <2>1, <2>2
<1>. QED
  BY <1>2, <1>3, <1>4, <1>6, <1>7 DEF PInv, ResultSet

\* The leaf sending keeps the invariant: it exits 0 only after reading
\* the contract stream to its end and transmitting it.
LEMMA SendInv ==
    ASSUME PInv, NEW k \in 3..4, Send(k), TypeOK'
    PROVE  PInv'
<1> USE DEF Procs
<1>1. ppc[k] = "send" /\ worker[k] = "none"
  BY DEF Send, PInv, WorkerShape
<1>2. \A j \in Procs : j > k => ppc[j] = "absent"
  BY <1>1 DEF PInv, NoChildYet
<1>3. \A i \in Procs : i < k => ppc[i] = "wait"
  BY <1>1 DEF PInv, WaitingAbove, Alive
<1>4. sent = "none" /\ result # 1
  BY <1>1 DEF PInv, SentOnce
<1>5. UNCHANGED <<worker, complete, result>>
  BY DEF Send
<1>6. ppc' = [ppc EXCEPT ![k] = "exited"]
  BY DEF Send
<1>7. PcShape' /\ NoChildYet' /\ ReapedBelow' /\ WaitingAbove'
  BY <1>1, <1>2, <1>3, <1>6
     DEF PInv, TypeOK, PcShape, NoChildYet, ReapedBelow, WaitingAbove, Alive, Done
<1>8. WorkerShape' /\ OkWorkerWhole' /\ SentOnce'
  BY <1>1, <1>2, <1>3, <1>5, <1>6
     DEF PInv, TypeOK, WorkerShape, OkWorkerWhole, SentOnce
<1>9. \A j \in 1..4 : ExitOk(j)'
  <2>1. CASE /\ worker[k - 1] \in {"ok", "failed"}
             /\ sent' = IF complete[k - 1] THEN "complete" ELSE "partial"
             /\ status' = [status EXCEPT ![k] = ExitStatus(0)]
    BY <1>2, <1>3, <1>5, <1>6, <2>1 DEF PInv, TypeOK, ExitOk
  <2>2. CASE /\ \E rc \in {-1, 1} : status' = [status EXCEPT ![k] = ExitStatus(rc)]
             /\ UNCHANGED sent
    BY <1>2, <1>3, <1>5, <1>6, <2>2, ExitStatusRange DEF PInv, TypeOK, ExitOk
  <2>. QED
    BY <2>1, <2>2 DEF Send
<1>10. (result = 1 => sent = "complete")' /\ ResultSet'
  BY <1>4, <1>5, <1>6 DEF PInv, ResultSet, TypeOK
<1>. QED
  BY <1>7, <1>8, <1>9, <1>10 DEF PInv

\* A level returning keeps the invariant: it reports success only when its
\* worker succeeded and its child exited 0, and the child's exit carries
\* the fact that the whole contract went out.
LEMMA WaitInv ==
    ASSUME PInv, NEW k \in 0..3, Wait(k), TypeOK'
    PROVE  PInv'
<1> USE DEF Procs
<1>1. ppc[k] = "wait" /\ worker[k] \in {"ok", "failed"} /\ ppc[k + 1] = "exited"
  BY DEF Wait
<1>2. \A j \in Procs : j > k + 1 => ppc[j] \in {"absent", "exited"}
  BY <1>1 DEF PInv, ReapedBelow, Done
<1>3. UNCHANGED <<worker, complete, sent>>
  BY DEF Wait
<1>4. ExitOk(k + 1)
  BY DEF PInv
<1>5. CASE /\ k = 0
           /\ result' = IF worker[k] = "ok" /\ status[k + 1] = 0 THEN 1 ELSE -1
           /\ ppc' = [ppc EXCEPT ![0] = "returned"]
           /\ UNCHANGED status
  <2>1. PcShape' /\ NoChildYet' /\ ReapedBelow' /\ WaitingAbove'
    BY <1>1, <1>2, <1>5
       DEF PInv, TypeOK, PcShape, NoChildYet, ReapedBelow, WaitingAbove, Alive, Done
  <2>2. WorkerShape' /\ OkWorkerWhole' /\ SentOnce' /\ \A j \in 1..4 : ExitOk(j)'
    BY <1>1, <1>3, <1>5 DEF PInv, TypeOK, WorkerShape, OkWorkerWhole, SentOnce, ExitOk
  <2>3. (result = 1 => sent = "complete")'
    BY <1>1, <1>3, <1>4, <1>5 DEF PInv, OkWorkerWhole, ExitOk
  <2>4. ResultSet'
    BY <1>5 DEF PInv, TypeOK, ResultSet, NoResult
  <2>. QED
    BY <2>1, <2>2, <2>3, <2>4 DEF PInv
<1>6. CASE /\ k # 0
           /\ ppc' = [ppc EXCEPT ![k] = "exited"]
           /\ status' = [status EXCEPT
                           ![k] = IF (IF worker[k] = "ok" /\ status[k + 1] = 0
                                      THEN 1 ELSE -1) = -1
                                  THEN ExitStatus(-1) ELSE 0]
           /\ UNCHANGED result
  <2>1. PcShape' /\ NoChildYet' /\ ReapedBelow' /\ WaitingAbove'
    BY <1>1, <1>2, <1>6
       DEF PInv, TypeOK, PcShape, NoChildYet, ReapedBelow, WaitingAbove, Alive, Done
  <2>2. WorkerShape' /\ OkWorkerWhole' /\ SentOnce'
    BY <1>1, <1>3, <1>6 DEF PInv, TypeOK, WorkerShape, OkWorkerWhole, SentOnce
  <2>3. ExitOk(k)'
    BY <1>1, <1>3, <1>4, <1>6, ExitStatusRange DEF PInv, TypeOK, OkWorkerWhole, ExitOk
  <2>4. \A j \in 1..4 : j # k => ExitOk(j)'
    BY <1>3, <1>6 DEF PInv, TypeOK, ExitOk
  <2>5. (result = 1 => sent = "complete")' /\ ResultSet'
    BY <1>3, <1>6 DEF PInv, TypeOK, ResultSet
  <2>. QED
    BY <2>1, <2>2, <2>3, <2>4, <2>5 DEF PInv
<1>. QED
  BY <1>5, <1>6 DEF Wait

\* Every step keeps the fork-chain invariant.
LEMMA PInvStep == PInv /\ [Next]_vars => PInv'
<1> SUFFICES ASSUME PInv, [Next]_vars PROVE PInv'
  OBVIOUS
<1>0. TypeOK'
  BY TypeStep DEF PInv
<1>1. CASE Setup
  <2> USE DEF Procs
  <2>0. ppc[0] = "setup" /\ worker[0] = "none" /\ sent = "none"
    BY <1>1 DEF Setup, PInv, WorkerShape, SentOnce
  <2>1. \A j \in 1..4 : ppc[j] = "absent"
    BY <1>1 DEF Setup, PInv, NoChildYet
  <2>2. UNCHANGED <<worker, complete, status, sent>>
    BY <1>1 DEF Setup
  <2>3. CASE result' = -1 /\ ppc' = [ppc EXCEPT ![0] = "returned"]
    <3>1. ResultSet'
      BY <2>0, <2>1, <2>2, <2>3 DEF PInv, TypeOK, ResultSet, NoResult
    <3>2. PcShape'
      BY <2>0, <2>1, <2>2, <2>3 DEF PInv, TypeOK, PcShape
    <3>3. NoChildYet'
      BY <2>0, <2>1, <2>2, <2>3 DEF PInv, TypeOK, NoChildYet
    <3>4. ReapedBelow'
      BY <2>0, <2>1, <2>2, <2>3 DEF PInv, TypeOK, ReapedBelow, Done
    <3>5. WaitingAbove'
      BY <2>0, <2>1, <2>2, <2>3 DEF PInv, TypeOK, WaitingAbove, Alive
    <3>6. WorkerShape'
      BY <2>0, <2>1, <2>2, <2>3 DEF PInv, TypeOK, WorkerShape
    <3>7. OkWorkerWhole'
      BY <2>0, <2>1, <2>2, <2>3 DEF PInv, TypeOK, OkWorkerWhole
    <3>8. SentOnce'
      BY <2>0, <2>1, <2>2, <2>3 DEF PInv, TypeOK, SentOnce
    <3>9. \A j \in 1..4 : ExitOk(j)'
      BY <2>0, <2>1, <2>2, <2>3 DEF PInv, TypeOK, ExitOk
    <3>10. (result = 1 => sent = "complete")'
      BY <2>0, <2>1, <2>2, <2>3 DEF PInv, TypeOK
    <3>. QED
      BY <1>0, <3>1, <3>2, <3>3, <3>4, <3>5, <3>6, <3>7, <3>8, <3>9, <3>10 DEF PInv
  <2>4. CASE ppc' = [ppc EXCEPT ![0] = "start"] /\ UNCHANGED result
    <3>1. ResultSet'
      BY <2>0, <2>1, <2>2, <2>4 DEF PInv, TypeOK, ResultSet, NoResult
    <3>2. PcShape'
      BY <2>0, <2>1, <2>2, <2>4 DEF PInv, TypeOK, PcShape
    <3>3. NoChildYet'
      BY <2>0, <2>1, <2>2, <2>4 DEF PInv, TypeOK, NoChildYet
    <3>4. ReapedBelow'
      BY <2>0, <2>1, <2>2, <2>4 DEF PInv, TypeOK, ReapedBelow, Done
    <3>5. WaitingAbove'
      BY <2>0, <2>1, <2>2, <2>4 DEF PInv, TypeOK, WaitingAbove, Alive
    <3>6. WorkerShape'
      BY <2>0, <2>1, <2>2, <2>4 DEF PInv, TypeOK, WorkerShape
    <3>7. OkWorkerWhole'
      BY <2>0, <2>1, <2>2, <2>4 DEF PInv, TypeOK, OkWorkerWhole
    <3>8. SentOnce'
      BY <2>0, <2>1, <2>2, <2>4 DEF PInv, TypeOK, SentOnce
    <3>9. \A j \in 1..4 : ExitOk(j)'
      BY <2>0, <2>1, <2>2, <2>4 DEF PInv, TypeOK, ExitOk
    <3>10. (result = 1 => sent = "complete")'
      BY <2>0, <2>1, <2>2, <2>4 DEF PInv, TypeOK
    <3>. QED
      BY <1>0, <3>1, <3>2, <3>3, <3>4, <3>5, <3>6, <3>7, <3>8, <3>9, <3>10 DEF PInv
  <2>. QED
    BY <1>1, <2>3, <2>4 DEF Setup
<1>2. ASSUME NEW k \in 0..3, Fork(k) PROVE PInv'
  <2>1. CASE k = 0 \/ k = 1 \/ k = 3
    BY <1>0, <1>2, <2>1, ForkStageInv DEF Fork, StageAsps
  <2>2. CASE k = 2
    <3>1. PICK copied \in BOOLEAN :
             IF partnerCert /\ copied
             THEN encFlag' = "1" /\ ForkStage(2, "encrypt_asp")
             ELSE /\ encFlag' = "0"
                  /\ ForkStage(2, "create_measurement_contract_asp")
      BY <1>2, <2>2 DEF Fork
    <3>. QED
      BY <1>0, <3>1, ForkStageInv DEF StageAsps
  <2>. QED
    BY <2>1, <2>2
<1>3. ASSUME NEW k \in 0..3, WorkerEnd(k) PROVE PInv'
  BY <1>0, <1>3, WorkerEndInv
<1>4. ASSUME NEW k \in 0..3, Wait(k) PROVE PInv'
  BY <1>0, <1>4, WaitInv
<1>5. ASSUME NEW k \in 3..4, Send(k) PROVE PInv'
  BY <1>0, <1>5, SendInv
<1>6. CASE UNCHANGED vars
  <2>1. ResultSet'
    BY <1>6 DEF PInv, TypeOK, ResultSet, NoResult, vars
  <2>2. PcShape'
    BY <1>6 DEF PInv, TypeOK, PcShape, vars
  <2>3. NoChildYet'
    BY <1>6 DEF PInv, TypeOK, NoChildYet, vars
  <2>4. ReapedBelow'
    BY <1>6 DEF PInv, TypeOK, ReapedBelow, Done, vars
  <2>5. WaitingAbove'
    BY <1>6 DEF PInv, TypeOK, WaitingAbove, Alive, vars
  <2>6. WorkerShape'
    BY <1>6 DEF PInv, TypeOK, WorkerShape, vars
  <2>7. OkWorkerWhole'
    BY <1>6 DEF PInv, TypeOK, OkWorkerWhole, vars
  <2>8. SentOnce'
    BY <1>6 DEF PInv, TypeOK, SentOnce, vars
  <2>9. \A j \in 1..4 : ExitOk(j)'
    BY <1>6 DEF PInv, TypeOK, ExitOk, vars
  <2>10. (result = 1 => sent = "complete")'
    BY <1>6 DEF PInv, TypeOK, vars
  <2>. QED
    BY <1>0, <2>1, <2>2, <2>3, <2>4, <2>5, <2>6, <2>7, <2>8, <2>9, <2>10 DEF PInv
<1>. QED
  BY <1>1, <1>2, <1>3, <1>4, <1>5, <1>6 DEF Next

\* The fork-chain invariant holds in every reachable state.
THEOREM PInvariant == Spec => []PInv
BY PInvInit, PInvStep, PTL DEF Spec

(* When the pipeline returns in the orchestrator every forked process has *)
(* exited and no worker runs: the waits of execute_sign_send_pipeline and *)
(* fork_and_buffer_async_asp reap the whole chain.                         *)
THEOREM ChildrenAlwaysReaped == Spec => []ChildrenReaped
<1>1. PInv => ChildrenReaped
  BY DEF PInv, ChildrenReaped, Returned, ReapedBelow, Done, WorkerShape, TypeOK,
         Procs, PcShape
<1>. QED
  BY <1>1, PInvariant, PTL

(* The pipeline reports success to apb_execute only when send_asp sent    *)
(* the whole contract: the exit statuses of the chain carry every failure *)
(* up to P0.                                                               *)
THEOREM SuccessAlwaysMeansSent == Spec => []SuccessMeansSent
<1>1. PInv => SuccessMeansSent
  BY DEF PInv, SuccessMeansSent, Returned, ResultSet, TypeOK, NoResult
<1>. QED
  BY <1>1, PInvariant, PTL

-----------------------------------------------------------------------------
(* Refinement: execute_sign_send_pipeline, seen from its caller, is the    *)
(* abstract call of PipelineAbstract.                                      *)

\* Under the mapping each step of the chain is an abstract step or a stutter.
LEMMA RefineStep ==
    PInv /\ [Next]_vars => [Abs!Next]_<<phaseBar, result, sent>>
<1> SUFFICES ASSUME PInv, [Next]_vars
             PROVE  [Abs!Next]_<<phaseBar, result, sent>>
  OBVIOUS
<1> USE DEF Procs
<1>1. CASE Setup
  BY <1>1, ExitStatusRange
     DEF Setup, phaseBar, Abs!Next, Abs!Begin, Abs!Return, Abs!Results, PInv, TypeOK
<1>2. ASSUME NEW k \in 0..3, NEW s \in StageAsps, ForkStage(k, s)
      PROVE  [Abs!Next]_<<phaseBar, result, sent>>
  <2>1. ppc[k] = "start" /\ sent = "none"
    BY <1>2 DEF ForkStage, PInv, SentOnce
  <2>2. ppc[0] \in {"start", "wait"}
    BY <2>1 DEF PInv, WaitingAbove, Alive
  <2>. QED
    BY <1>2, <2>1, <2>2
       DEF ForkStage, phaseBar, Abs!Next, Abs!Return, Abs!Results, PInv, TypeOK
<1>3. ASSUME NEW k \in 0..3, Fork(k) PROVE [Abs!Next]_<<phaseBar, result, sent>>
  <2>1. CASE k = 0 \/ k = 1 \/ k = 3
    BY <1>3, <2>1, <1>2 DEF Fork, StageAsps
  <2>2. CASE k = 2
    <3>1. PICK copied \in BOOLEAN :
             IF partnerCert /\ copied
             THEN encFlag' = "1" /\ ForkStage(2, "encrypt_asp")
             ELSE /\ encFlag' = "0"
                  /\ ForkStage(2, "create_measurement_contract_asp")
      BY <1>3, <2>2 DEF Fork
    <3>. QED
      BY <3>1, <1>2 DEF StageAsps
  <2>. QED
    BY <2>1, <2>2
<1>4. ASSUME NEW k \in 0..3, WorkerEnd(k) PROVE [Abs!Next]_<<phaseBar, result, sent>>
  BY <1>4 DEF WorkerEnd, phaseBar
<1>5. ASSUME NEW k \in 0..3, Wait(k) PROVE [Abs!Next]_<<phaseBar, result, sent>>
  <2>1. CASE k = 0
    <3>1. ppc[1] = "exited" /\ (status[1] = 0 => sent # "none")
          /\ (worker[0] = "ok" /\ status[1] = 0 => sent = "complete")
      BY <1>5, <2>1 DEF Wait, PInv, ExitOk, OkWorkerWhole
    <3>. QED
      BY <1>5, <2>1, <3>1
         DEF Wait, phaseBar, Abs!Next, Abs!Return, Abs!Results, PInv, TypeOK
  <2>3. CASE k # 0
    <3>1. ppc[0] = "wait"
      BY <1>5, <2>3 DEF Wait, PInv, WaitingAbove, Alive
    <3>. QED
      BY <1>5, <2>3, <3>1 DEF Wait, phaseBar, PInv, TypeOK
  <2>. QED
    BY <2>1, <2>3
<1>6. ASSUME NEW k \in 3..4, Send(k) PROVE [Abs!Next]_<<phaseBar, result, sent>>
  <2>1. ppc[0] = "wait" /\ sent = "none"
    BY <1>6 DEF Send, PInv, WaitingAbove, Alive, SentOnce
  <2>. QED
    BY <1>6, <2>1 DEF Send, phaseBar, Abs!Next, Abs!Transmit
<1>7. CASE UNCHANGED vars
  BY <1>7 DEF vars, phaseBar
<1>. QED
  BY <1>1, <1>3, <1>4, <1>5, <1>6, <1>7 DEF Next

(* execute_sign_send_pipeline implements PipelineAbstract under phaseBar:  *)
(* the contract is transmitted at most once, the call returns once, and a *)
(* success is returned only after the whole contract was sent.            *)
THEOREM PipelineRefinement == Spec => AbsSpec
<1>1. Init => Abs!Init
  BY DEF Init, Abs!Init, Abs!NoResult, NoResult, phaseBar, Procs
<1>. QED
  BY <1>1, RefineStep, PInvariant, PTL DEF Spec, AbsSpec, Abs!Spec, Abs!avars

\* Every step of the abstract call, or stutter, leaves what was sent alone once
\* something was sent, and leaves the result and what was sent alone once
\* the call has returned.
LEMMA AbsStepFinal ==
    [Abs!Next]_<<phaseBar, result, sent>> =>
        [/\ sent # "none" => sent' = sent
         /\ ppc[0] = "returned" => UNCHANGED <<result, sent>>]_vars
<1> SUFFICES ASSUME [Abs!Next]_<<phaseBar, result, sent>>
             PROVE  [/\ sent # "none" => sent' = sent
                     /\ ppc[0] = "returned" => UNCHANGED <<result, sent>>]_vars
  OBVIOUS
<1>1. ppc[0] = "returned" <=> phaseBar = "returned"
  BY DEF phaseBar
<1>2. CASE Abs!Begin
  BY <1>1, <1>2 DEF Abs!Begin
<1>3. CASE Abs!Transmit
  BY <1>1, <1>3 DEF Abs!Transmit
<1>4. CASE Abs!Return
  BY <1>1, <1>4 DEF Abs!Return
<1>5. CASE UNCHANGED <<phaseBar, result, sent>>
  BY <1>5
<1>. QED
  BY <1>2, <1>3, <1>4, <1>5 DEF Abs!Next

(* The outcome of execute_sign_send_pipeline is final: the contract is     *)
(* sent at most once, and once P0 has returned no process of the chain     *)
(* sends or changes the result, for every interleaving of the processes.   *)
(* It follows from the refinement: PipelineAbstract allows no such step.   *)
THEOREM OutcomeAlwaysFinal == Spec => OutcomeFinal
BY AbsStepFinal, PipelineRefinement, PTL DEF AbsSpec, Abs!Spec, Abs!avars, OutcomeFinal

=============================================================================
