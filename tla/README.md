# Verification of the layered attestation APB and the netstatraw6 ASP

This directory holds TLA+ models of the two programs under `src/`:

- `src/src/apbs/layered_att_apb.c` is the layered attestation APB.
- `src/src/asps/netstatraw6asp.c` is the `/proc/net/raw6` collector.

It also holds the TLC configurations that model-check those models and TLAPS proofs about the dispatcher, the pipeline, the entry point and the netstat collector. `PROJECT.json` lists every component, run, mutant, finding, hazard and theorem. Its `map` names the source lines each definition translates.

## 1. Inventory of the system

| Part (spec name) | Code | Module | Status |
|---|---|---|---|
| Entry point | `apb_execute` (476-627) | `Orchestrator` | modelled |
| Measurement dispatcher | `measure_variable_shim` (170-318) | `Dispatcher` | modelled |
| ASP selector | `select_asp_shim` (157-168) | `Dispatcher` | modelled |
| Address resolver | `get_measurement_request_addr_from_node` (73-101), `get_target_channel_info` (103-124) | `Dispatcher` | modelled |
| Remote measurement client | `invoke_send_execute_tcp` (126-155) | `Dispatcher` | modelled |
| Sign-send pipeline | `execute_sign_send_pipeline` (327-474) | `Pipeline` | modelled |
| netstatraw6 collector | `asp_measure` (121-204), `chunk_line_data` (62-119) | `NetstatAsp` | modelled (parsed values abstracted) |
| Pipeline contract (spec §4.5, §7) | `execute_sign_send_pipeline` as its caller sees it | `PipelineAbstract` | abstract specification |
| Graph library, ASP runtime, spec engine, `process_contract`, `fork_and_buffer_async_asp` | not under `src/` | — | outcomes only |

### How the parts interact

The attestation manager calls `apb_execute` with two place arguments, `@_0` and `@_t`. `apb_execute` does the following in order:

1. It resolves the two places into globals.
2. It loads the measurement specification and creates a graph.
3. It copies the credential strings into globals.
4. It hands the graph to the spec engine. The engine calls `measure_variable_shim` once per (variable, type) pair.
5. It runs the sign-send pipeline.
6. It frees everything through a chain of cleanup labels.

The dispatcher sends each measurement request one of three ways:

- **Kernel:** kernel measurements go to `kernel_msmt_asp`.
- **Remote:** requests that select the `send_execute_tcp_asp` ASP go to another attester. The dispatcher resolves the request address to `@_0` or `@_t` and opens a channel to that place. It borrows `g_scen` to verify the returned contract, then stores the extracted evidence as a blob on the node.
- **Userspace:** everything else goes to the generic userspace path.

The pipeline is a fork chain. The sequence runs as follows:

- P0 runs `serialize_graph_asp` as a worker and forks P1.
- P1 runs `compress_asp` and forks P2.
- P2 runs `encrypt_asp`, but only if a partner certificate could be copied.
- Then comes `create_measurement_contract_asp`. Its child runs `send_asp` on the peer channel.

The workers run concurrently and are connected by pipes. Each level waits for its worker and its child, and exit statuses carry failures back to P0.

The netstat collector is a separate worker process. The spec treats it as opaque. Its model follows its allocation and error paths.

## 2. Modules and how they correspond to the code

- **`Dispatcher`** models the dispatcher.
  - `pc` is the position in `measure_variable_shim`. The code is cut at its calls, so the window in which `g_scen` holds a borrowed contract (lines 273-287) is a state of its own.
  - Actions: `Select`, `AddNode`, `RunKernel`, `Userspace`, `Resolve`, `Invoke`, `Swap`, `Verify`, `Restore` and `AddData`. Each one is one block of the handler, including its error returns.
  - The graph is kept per variable as three pieces of state: `nodes`, `data[v]` (the types with data) and `blob[v]` (the stored payload).
  - The remote attester and `process_contract` are nondeterministic. The attester at a place answers with a contract naming itself and the requested resource, and the signature may or may not verify.
  - `err` and `nodesAtCall` are ghost variables, used only by properties.
- **`Pipeline`** models the fork chain. There are processes 0..4: `ppc[k]` is each process's control point, `worker[k]` the state of the worker it launched, and `status[k]` its exit status, taken modulo 256 as `wait` reports it.
  - `fork_and_buffer_async_asp` is outside `src/` and is modelled from spec section 4.5 (`InputEnded`, `WorkerEnd`). It returns -2 on a spawn failure. Otherwise it returns 0 in the child and, in the caller, -1 or a positive value after waiting for the worker and the child.
  - `Setup` covers the work before the first fork: the workdir copy, the five `find_asp` calls and the graph path.
- **`PipelineAbstract`** is what the pipeline promises its caller, with processes, pipes and workers hidden. Its state is the phase (`setup`, `running`, `returned`), the result and what reached the peer (`none`, `partial`, `complete`). It has three actions:
  - `Begin`: the setup succeeded.
  - `Transmit`: the contract is sent once, whole or truncated.
  - `Return`: the call returns -2 or -1, or 1 only if the whole contract was sent.
- **`Orchestrator`** models `apb_execute`. `held` is the set of resources allocated (the places, mspec, graph and credentials), and `Freed(l)` is what the code below label `l` frees. Measurement and the pipeline are single steps here. The pipeline returns one of the results `Pipeline` can produce.
- **`NetstatAsp`** models `asp_measure`. It has one action per allocation or check and a read loop over a file of `fileLines` lines. `held` records what is open.
  - An unchecked `alloc_data` that returns NULL leads to a `crashed` state.
  - `getline` allocates its buffer even when it fails. That is why `"line"` is still held after the last read.
  - `ChunkLineData(bothZero)` is the set of outcomes of `chunk_line_data` on one line:
    - a record;
    - a NULL record when the record's `malloc` fails;
    - a crash when the unchecked 16-byte `ip` buffer is NULL and `sscanf` writes a non-zero address through it.
  - `nullEntry` records that a NULL record was prepended to `data->lines`. `rawAdded` records whether `measurement_node_add_rawdata`, whose result is ignored, succeeded.
- **`Dispatcher` crash outcomes:** the unchecked blob allocation (line 280) and the `md->meas_data` dereference after `md == NULL` (line 298) lead to a `crashed` state.

Each module is instantiated for TLC by an `MC*.tla` module. The proof modules are `DispatcherProofs`, `PipelineProofs`, `OrchestratorProofs` and `NetstatProofs`. `MCDispatcherInv` and `MCPipelineRefines` extend the first two. The pipeline run therefore checks the inductive invariant `PInv` and the refinement. The dispatcher's inductive invariants (`ScenInv`, `EvInv`, `UnmeasuredInv`) each restate the property they support plus single assignments. They are not checked as properties of their own; TLAPS proves them as lemmas.

## 3. Runs

| Run | Checks | Result |
|---|---|---|
| `dispatcher` | `TypeOK`, `ScenarioRestored`, `EvidenceFromAddressedAttester`, `NoRemeasure` | pass, 13,448 states |
| `dispatcher_null_contract` | `VerifierGetsChannelContract` | violation (code bug, line 263) |
| `dispatcher_mismatch_adds_node` | `MismatchLeavesGraphUnchanged` | violation (differs from spec §8) |
| `dispatcher_serialization_crash` | `SerializationFailureNonFatal` | violation (code bug, line 298) |
| `pipeline` | `TypeOK`, `ChildrenReaped`, `SuccessMeansSent`, `PInv`, `OutcomeFinal`, `Terminates` and `AbsFairSpec` (under `FairSpec`) | pass, 993 states |
| `pipeline_spawn_failure_code` | `SpawnFailureDistinct` | violation (differs from spec §4.5) |
| `pipeline_unencrypted_fallback` | `EncryptedWhenPartnerCert` | violation (line 412) |
| `orchestrator` | `TypeOK`, `AllReleased`, `FirstPlaceWins` | pass, 2,119 states |
| `orchestrator_failure_returns_zero` | `FailedRunNotSuccess` | violation (code bug, 532-534 and 592-596) |
| `netstat` | `TypeOK`, `ClosedOnReturn` | pass, 296 states |
| `netstat_leaks` | `ReleasedOnReturn` | violation (leak, 137-147) |
| `netstat_unrecorded_success` | `SuccessRecordsEveryLine` | violation (differs from spec §1, line 198) |

The two newest violations are these:

- **`dispatcher_serialization_crash`:** when `serialize_measurement_contract` fails to produce the blob, the code dereferences a NULL `md` at line 298. Spec §4.3 makes that failure a per-variable error.
- **`netstat_unrecorded_success`:** `asp_measure` returns 0 when `measurement_node_add_rawdata` fails (line 198), and after a record allocation fails inside `chunk_line_data`. Spec §1 describes a collector that records what it parses.

### What the passing properties say

- **`ScenarioRestored`:** outside the verify/restore window, `g_scen` holds its own contract. Every path out of the remote branch restores it.
- **`EvidenceFromAddressedAttester`:** a blob on a node is the payload for that node's requested resource, from the attester its address names. It catches a request sent to the wrong place global.
- **`NoRemeasure`:** the kernel ASP and the remote client are never run for a pair whose data is already in the graph.
- **`ChildrenReaped`:** when the pipeline returns in P0, every forked process has exited and no worker is running.
- **`SuccessMeansSent`:** a positive result means the whole contract reached the peer. A failure anywhere, in any process, therefore propagates up to P0.
- **`Terminates`:** the pipeline returns.
- **`AllReleased`:** every path of `apb_execute` frees everything it acquired.
- **`FirstPlaceWins`:** a repeated `@_0` or `@_t` argument is ignored.
- **`ClosedOnReturn`:** every return of `asp_measure` has unmapped the graph, closed the file and freed the variable and data.
- **`OutcomeFinal`:** the contract goes out at most once. Once P0 has returned, no process sends or changes the result. It catches a level that returns before its child has exited.
- **`PInv`:** the inductive invariant of the pipeline proofs (section 5). It holds of every interleaving.
- **`AbsFairSpec`:** the pipeline implements `PipelineAbstract` under the mapping below, fairness included. The call returns once, transmits at most once, and reports success only for a whole contract.

#### The refinement mapping

The abstract `result` and `sent` are the concrete variables of the same names. The abstract phase `phaseBar` is:

- `returned` once P0 has returned;
- `setup` while P0 is still in `setup`;
- `running` otherwise.

Under that mapping the concrete steps correspond to abstract ones as follows:

- `Setup` is `Begin` when it succeeds and `Return` when it fails.
- A spawn failure of the first fork is `Return` with -2.
- The first `Send` of the contract is `Transmit`.
- P0's final `Wait` is `Return`.
- Every other step (forks below P0, worker steps, waits below P0, exits) is a stutter.

The abstract specification allows a truncated contract to be sent. A worker upstream of `send_asp` can fail after part of the contract has already been written to the peer (line 456). Spec §7 says no partial contract is sent. The code cannot promise that, so the contract states only what it guarantees: success means the whole contract was sent.

Each property of each passing run has a mutant in `PROJECT.json`. A mutant is a plausible bug in the mapped definition, such as swapping the two place globals, saving `tmp_contract` after it is overwritten, dropping the `has_data` check, or exiting 0 regardless of the result. TLC finds the property violated under the run's own configuration.

### Bounds

**Dispatcher:**
- Four variables, one for each kind of request address:
  - `@_t`,
  - `@_0`,
  - an unknown attester,
  - an address of another kind.
- Three types, one selecting each of the three paths.
- Up to three dispatches (`MaxCalls`). Three are enough to repeat a pair after another pair has written to the graph.

**Pipeline:** the whole chain of five levels, with and without a partner certificate and workdir.

**Orchestrator:** every argument list of up to three arguments over three keys and three ids, one of which fails to resolve. This covers duplicate, missing, unknown and failing arguments in every order.

**Netstat:** files of 0 to 8 lines. The paths do not depend on the count beyond 0 and 1.

## 4. Fairness

Only `Terminates` is a liveness property. `FairSpec` assumes weak fairness of every process step, since the kernel schedules the forked processes. It also assumes that every worker eventually ends, which spec section 5 names as a limitation of the design. The other runs check only safety and use `Spec`.

Deadlock checking is off: each model describes a call that returns, so the final states are meant to be final.

## 5. What is proved (TLAPS)

Every theorem holds for every value of the constants that satisfies the module's named assumption (`DispatcherAssumption`, `PipelineAssumption`, `OrchestratorAssumption`, `NetstatAssumption`). TLC checks each of these assumptions on every run.

**`DispatcherProofs`:**

- **`TypeCorrect`:** `Spec => []TypeOK`. It rests on `TypeInit` and `TypeStep`, with one step per action.
- **`ScenarioAlwaysRestored`:** `Spec => []ScenarioRestored`, through the lemma `ScenInvariant` (`Spec => []ScenInv`). `ScenarioRestored` alone is not inductive: in `restore` the scenario holds the received contract. The strengthening `ScenInv` adds that inside the window `tmp` holds the original.
- **`EvidenceAddressed`:** `Spec => []EvidenceFromAddressedAttester`, through the lemma `EvInvariant` (`Spec => []EvInv`). The inductive invariant `EvInv` carries the remote branch's reasoning from step to step:
  - from `invoke` on, `va` is the current variable's address and `target` is the place of `va.attester`;
  - the received contract names `va.attester` and `va.resource`;
  - in `verify`, `scen.contract` is the received contract;
  - the extracted payload matches `va`.

  The lemma `OwnerOfPlace` (the attester at `PlaceInfo[a]` is `a`) uses the injectivity of `PlaceInfo`.
- **`NeverRemeasures`:** `Spec => NoRemeasure`, through the lemma `UnmeasuredInvariant` (`Spec => []UnmeasuredInv`). `NoRemeasure` is an action property, so it cannot be proved by induction on its own. `UnmeasuredInv` is the state fact behind it: in `run_kernel`, `resolve` and `invoke`, the node holds no data of the requested type.
  - It holds because `AddNode`'s `has_data` early return is the only way into that stretch.
  - It is preserved because `data` is written only by `RunKernel`, `Userspace` and `AddData`, and each of these leaves the stretch or runs outside it.
  - Since `UnmeasuredInv` constrains the state before every step, `[]UnmeasuredInv` implies `NoRemeasure` by temporal reasoning alone.

**`PipelineProofs`:**

- **`PipelineTypeCorrect`:** `Spec => []TypeOK`.
- **`PInvariant`:** `Spec => []PInv`. `PInv` is needed because `ChildrenReaped` and `SuccessMeansSent` only speak about the state after P0 returns, while the reason they hold lies in every level below. `PInv` states:
  - the shape of each process's control point;
  - that no process below a level exists before that level forks (`NoChildYet`);
  - that a waiting level's children have exited (`ReapedBelow`, `WaitingAbove`);
  - that a worker that ended well read its whole input (`WorkerShape`, `OkWorkerWhole`);
  - that the contract is sent at most once (`SentOnce`);
  - that a 0 exit status means the whole chain below succeeded (`ExitOk`).

  The lemma `ModPeriod` relates `status % 256` to the exit codes.
- **`ChildrenAlwaysReaped`** and **`SuccessAlwaysMeansSent`** follow from `PInv`.
- **`PipelineRefinement`:** `Spec => AbsSpec`. The initial states map to `Abs!Init`. The lemma `RefineStep` shows that every step from a `PInv` state maps to a `Begin`, `Transmit` or `Return` step of `PipelineAbstract`, or to a stutter, following the mapping of section 3.
- **`OutcomeAlwaysFinal`:** `Spec => OutcomeFinal`. This action property is proved through the refinement rather than by a new invariant:
  - The lemma `AbsStepFinal` shows that no step of `PipelineAbstract`, and no stutter, changes `sent` once it is set, or changes anything after `Return`.
  - `PipelineRefinement` then carries this to every step of the fork chain.

**`OrchestratorProofs`:**

- **`OrchestratorTypeCorrect`:** `Spec => []TypeOK`. `TypeOK` is inductive as it stands. It rests on the lemma `ArgListLen`: an argument list of the model is a sequence of at most `MaxArgs` arguments. Because of that lemma, the loop guard `i <= Len(args)` keeps `i` within `1..MaxArgs + 1`.

- **`AlwaysAllReleased`:** `Spec => []AllReleased`. Its invariant `RInv` bounds `held` by what the code acquired before each control point (`Acquired`). The lemma `LabelsFreeAcquired` shows that each cleanup label frees at least that much.
- **`FirstPlaceAlwaysWins`:** `Spec => []FirstPlaceWins`, for argument lists of any length. `FirstPlaceWins` alone is not inductive, because it says nothing while the loop runs. The loop invariant `FInv` says two things:
  - a filled place global holds the place of the first argument with its key among the `i - 1` arguments already visited;
  - while the loop runs, an unfilled global has seen no argument with its key.

  `FirstIsUnique` and `FInvFirstPlace` connect this to the `CHOOSE` in `FirstValue`.

**`NetstatProofs`:**

- **`NetstatTypeCorrect`:** `Spec => []TypeOK`. It follows from `NInv`, which contains `TypeOK`.
- **`ClosedOnEveryReturn`:** `Spec => []ClosedOnReturn`, for files of any length. Its invariant `NInv` bounds `held` by what was acquired before each control point. On return only the leaked address, path and getline buffer can remain.

These are left to TLC:

- Liveness (`Terminates`, and the fairness part of `AbsFairSpec`): the provers do not handle `ENABLED` and fairness.
- The properties that TLC finds violated. They are not true of the code.

## 6. Not modelled, and why

- **Outside `src/`:** the graph library, the ASP runtime, the spec-evaluation engine and `process_contract` appear only through the outcomes the code can observe.
- **`chunk_line_data` values:** the parsed fields (`strtok`, `sscanf`, `inet_ntop`) are abstracted. Only the outcomes a caller sees are kept: a record, a NULL record or a crash. A malformed line that makes `strtok` return NULL is not in `/proc/net/raw6`'s format and is listed as a hazard with a note.
- **Undefined behaviour without a property:** these are listed as hazards with notes:
  - the out-of-bounds writes to `create_con_args` (lines 415, 429 and 444). They corrupt memory rather than change a control decision the model follows;
  - the unchecked blob allocation (line 280). It is modelled as a crash outcome, and no property beyond `ScenarioRestored` (which allows the crash inside the window) is about it.

## 7. Plan for further work

1. Compose `Orchestrator` with `Dispatcher` and `Pipeline`, so that measurement and the pipeline are the real sub-models and not single steps. `PipelineAbstract` is the natural interface for the pipeline.
2. Model the argument vector of `create_measurement_contract_asp` (lines 415-444) if a property about its out-of-bounds writes becomes worth stating.
