# A TLA+ model of Model Council Lab

Model Council Lab runs a *condition*: one to three stages (solver, verifier,
reviser), each a call of a language model through an adapter, each leaving
artifacts, invocation evidence and a seal in a *run directory* that a verifier
judges later without trusting the run. What is hard about it is not the work but
the evidence: a deadline, an interrupt, an I/O error, a crash or a power loss may
fall between any two steps, and what is left on disk must still say what happened
and never more.

This directory models that: which steps there are, in which order they reach the
disk, where they can be cut, and what the verifiers make of the result. All paths
below are relative to `src/src/model_council/` of the repository.

## 1. Inventory

### Parts and how they interact

```
 experiment driver
   | execute()
   v
 ExperimentRunner (runner.py) ---- ArtifactStore (artifacts.py) -> run directory
   | per stage: retry loop                                             ^
   |   (runner.py, retry_policy.py)                                    | verify_*
   | prepare / permit / close                                          |
   +---- AttemptJournal (attempt_lifecycle.py) -> journal.jsonl, closed.json
   | invoke                                        ^
   v                                               | append, fsync
 executor.py: launch wrapper, collector            |
   | pipes: stdin, protocol, stdout, stderr        |
   v                                               |
 worker process (worker.py) -> openai_adapter.py --+-> OpenAI SDK (external)
```

The runner, the executor and the store share one thread of the parent process.
The worker is a process of its own; it shares with the parent the pipes and the
open descriptor of the journal, and it can outlive its parent. Nothing else is
concurrent. Interrupts (`KeyboardInterrupt`, `SystemExit`) arrive in either
process.

| part | code | state | operations | what is hard | what makes it correct |
|---|---|---|---|---|---|
| attempt evidence | `attempt_lifecycle.py`, its callers in `runner.py`, `executor.py`, `worker.py` | per stage an append-only journal with a hash chain, and `closed.json`; flags `permission_granted`, `persistence_failed`; `_WorkerReaping` | create, permit, hand over, append, close, inspect | two processes append to one file; torn writes, failed fsyncs, crashes, power loss; a worker whose parent is gone | an attempt called safe to retry was never dispatched; a call leaves a durable trace; a closure binds the journal beside it and nothing follows it; an accepted outcome is the journal's |
| provider worker and SDK call | `worker.py`, `openai_adapter.py` | HTTP and SDK client and who owns them, the result in waiting, the exception in flight, the journal's tail | build the client, call, observe, extract or normalize, close, translate, publish | ownership changes five times and every step may fail or be interrupted; classification of what the SDK says | each owned client closed once; the first exception stands; no outcome after a failed close; only transient failures called so; only a complete answer a success |
| worker collection | `executor.py` `_collect_openai_worker`, `_run_openai_worker` | three pipes, byte counters, deadline and cleanup allowance, abort reason, the latched reply | poll, read, reap, abort, latch, close, return | a worker that hangs or leaves a descendant with its pipes; reply and deadline at the same moment; a fault while cleaning up | attests quiescence only when it is true; accepts only whole replies; returns always; reads are bounded |
| stage retry loop, retry policy | `runner.py` `_execute_stage_body`, `retry_policy.py` | remaining time, attempt, cumulative input, invocation records | start, authorize, call, classify, record, retry | one deadline and one ceiling for all attempts; five places where the deadline is tested | the ceiling holds for all calls together; every attempt has one true record; only transient failures are retried |
| publication of a run directory | `artifacts.py` `ArtifactStore.__init__` | a private staging directory, the canonical one, the identity of the staging directory | check, build, publish, discard, roll back | several processes with one `run_id`; an interrupt between the rename and the next opcode; inode numbers that are used again | a published directory is whole and stays; a failure undoes exactly its own publication |
| stage loop, run record | `runner.py` `execute`, `_run_stages`, `_RunState`; `artifacts.py` store and verifiers | run directory (bindings, manifest, staging, artifacts, evidence, seals, evaluation, terminal record), run state in memory | setup, preflight, invoke, record, stage, promote, bind, seal, confirm, roll back, evaluate, reconcile, finalize, verify | disk and memory are updated by different steps with faults between them; a rollback or recovery cut short itself | the record says what the directory shows; a success is proven; a failed stage leaves nothing; the verifier accepts what an undisturbed run leaves |
| provider identity policy | `live_contract.py` `evaluate_provider_identity_policy`, its enforcement in `runner.py`, its recomputation in `artifacts.py` | the record of an attempt, its journal, its seal, the terminal record | evaluate, record, stop or promote, seal, verify | four places tell one verdict; an answer on the deadline; an interrupt between a verdict and the status that follows from it | a stage is sealed only on an answer of the configured model, in time and durable; a stopped attempt is the end of its run; the verifier recomputes the runner's verdict |
| response guard | `openai_response_guard.py` | bytes admitted of one body | wrap a stream, reject over the limit | limit crossed inside a chunk, encoded bodies | not modelled; its rejection is an exception class of `OpenAIFailure` |
| simulated adapters, legacy worker path | `adapters.py`, `executor.py` subprocess capture | none between calls | answer from a fixture | - | not modelled |
| invocation authority | `invocation.py`, `live_contract.py`, `types.py`, `roles.py` | frozen records | build, compare, bound raw evidence | truncation at a byte limit inside a character, markers longer than the limit | what the writer cuts the verifier accepts, and only with the metadata the writer gives |
| evaluation | `evaluator.py`, `protocol.py` | none | score an artifact | - | its verdict is an input of `RunRecord` |
| text hygiene | `sanitize.py`, `security.py` | none | filter text, resolve paths | - | not modelled |
| experiments | `experiments/development/` | none | configure one run | - | not modelled |

`PROJECT.json` lists the hazards one by one, each at its line with the properties
that would catch it.

### Modules

| module | models | state | lines |
|---|---|---|---|
| `AttemptLifecycle` | attempt evidence: parent, worker, journal and storage | section 2.1 | composed of both sides |
| `AttemptLifecycleProofs` | theorems about it | | |
| `Collection` | abstract specification of a collection | one verdict, quiescence | |
| `WorkerCollector` | the collector, the pipes and the worker's processes | section 2.2 | implements `Collection` |
| `WorkerCollectorProofs` | theorems about it | | |
| `StageAttempts` (extends `RetryPolicy`) | the retry loop | section 2.3 | |
| `StageAttemptsProofs` | theorems about it | | |
| `OpenAIClient` (extends `OpenAIFailure`, which extends `RetryPolicy`) | one dispatch inside the worker | section 2.4 | |
| `OpenAIClientProofs` | theorems about it | | |
| `RunRecord` | run directory, stage transaction, recovery, verifiers | section 2.5 | |
| `RunRecordProofs` | theorems about it | | |
| `RunStore` (extends `RawEvidence`) | the birth of a run directory and the raw output a store keeps | section 2.6 | |
| `RunStoreProofs` | theorems about it | | |
| `LiveRun` | a provider run: journals, records, seals and terminal record together | section 2.7 | abstracts 2.1, 2.4 and 2.5 |
| `LiveRunProofs` | theorems about it | | |
| `MC...` | the instances TLC checks | | |

Definitions introduced by a comment "Mutant:" are not part of the model. Each is
a wrong version of the definition beside it, kept to show that the property it is
paired with in `PROJECT.json` notices.

## 2. The models

Conventions. A step of the model is one operation of the code that can fail or
touch shared state, with everything the handler does up to the next one. A digest
is what it covers, a hash chain is the sequence it authenticates. Names in the
modules are the code's where TLA+ permits.

### 2.1 AttemptLifecycle

One attempt per stage of the `openai_responses` adapter (its journal allows no
more: a role's namespace is created once). `frames`, `torn`, `synced` and
`closure` are the disk: what a reader sees, whether the last line is incomplete,
how much an fsync that returned has made durable, and `closed.json`. `pc` is the
parent, `wpc` the worker.

| actions | code |
|---|---|
| `CreateWrite`, `CreateSync`, `CreateFails` | `AttemptJournal.create` |
| `StopBeforeLaunch` | the early exits of `_execute_stage` before permission |
| `PermitWrite`, `PermitSync`, `PermitFails` | `AttemptJournal.permit` |
| `HandoffFails`, `SpawnRefused`, `Launch`, `LaunchFails` | `SubprocessAdapter._spawn_worker` and `_run_openai_worker` up to the child |
| `Collect`, `Abort`, `Drain`, `GiveUp` | the wrapper around `_collect_openai_worker`; the collector itself is 2.2 |
| `CloseSync`, `CloseRefused`, `CloseInterrupted`, `PublishWrite`, `PublishSync`, `OpenClosureFails`, `CloseFails` | `AttemptJournal.close` |
| `Accept`, `Promote`, `StopAfterClose` | `_assert_lifecycle_outcome` and the stage's transaction |
| `WorkerWrite`, `WorkerSync`, `SdkCall`, `WorkerReply`, `WorkerExit`, `WorkerFails`, `WorkerDies` | `JournalWriter.append` and its callers in the adapter and the worker |
| `ParentCrash`, `PowerLoss` | the environment |

The parent's death leaves the worker running; a power loss ends both and keeps of
every unsynchronised suffix whatever it likes, a torn line included. `RetrySafety`
is what `AttemptJournal.inspect` returns to a later reader.

### 2.2 WorkerCollector and Collection

`WorkerCollector` is the single-threaded loop of `_collect_openai_worker`. Of the
pipes it keeps who holds the write end, how many bytes were written, read and
counted; of time, two countdowns. `ObserveExit`, `ObserveFails`, `Abort`,
`CloseStdin`, `Idle`, `Proceed` are one turn of the loop up to the transfers;
`Read`, `ReadExcess`, `ReadEnd` a ready pipe; `Latch`, `CloseAll`, `AwaitExit`,
`StopWaiting`, `Escape`, `Return` the end. The worker may write, fork a
descendant that keeps any of its pipes, close pipes early, exit or be killed, in
any order. `SIGKILL` is a request: the worker may die later or on its own.

`Collection` says what the rest of the system relies on: one verdict, and every
verdict but the two *uncertain* ones only when nothing of the worker is left. The
second of these is an interrupt noted while the cleanup stayed uncertain: the
wrapper raises the interrupt first, and nothing is attested of the worker.
`ImplementsCollection` is the refinement, with `quiet` mapped to "the worker is
gone and no process holds a pipe", and `verdict` to what the wrapper concludes
from the returned `_WorkerCollection`. `AttemptLifecycle` relies on the same
promise in `Collect`, `Drain` and `GiveUp`.

### 2.3 StageAttempts

`_execute_stage_body`: `Start`, `Authorize`, `Launch` are the three tests before a
call, `Fail` an exception of the adapter by its class, `Respond` a response by the
first check it fails, `Succeed` the last deadline test. `Spend` is the retry
decision, `Stop` the end with a record. `calls` is a history variable: the calls
that reached the adapter and how each ended, which the code does not keep but the
records claim to. A response's content is abstracted to the first of the checks it
fails. An exception of a class the loop does not handle escapes with no record.

### 2.4 OpenAIClient and OpenAIFailure

`OpenAIClient` is one dispatch of `openai_responses_skeleton` with
`_perform_openai_responses_transport` and the client factory: `Prepare`,
`Inject` or `BuildHttp`, `BuildSdk`, `Carry`, `FactoryFails`, then `Take`,
`Boundary`, `Return`/`Raise`/`InterruptCall`, `Observe`, `Extract`/`Normalize`,
`Cleanup` (the `finally`), `Translate` or `Refuse` (a response rejected as malformed
or contrary to the contract; any other exception of the translation escapes with no
outcome), `Publish`. Every operation may end well,
with an error, or with a control exception; a frame may be on disk although its
append failed. `closes` and `trail` are history variables: close attempts, and
the operations that ended badly in order.

`OpenAIFailure` holds the classifications: an SDK exception by class, status,
code and type (`Normalized`), a response by status, error, details and the kinds
of its parts (`Translated`), the pairs the conversion accepts (`FailurePairs`), and
the contract every outcome passes where it is built, where the parent reads it and
where a journal is inspected (`ContractAccepts`). Request construction and the size
budgets of the extraction are not modelled; their failure is.

### 2.5 RunRecord

The directory and the runner's memory side by side, for adapters other than
`openai_responses` (which adds the journals of 2.1). Operations that write several
files appear twice, once whole and once cut after `k` of their writes (`...Cut`),
by an exception or by an interrupt; control then goes where the enclosing handlers
of `execute` send it (`FallBack`, `ReconcileCut`, `FinalizeCut`). An interrupt may
also follow the last write, before the caller notes that the operation is over. A
rollback cut while it unlinks the artifacts leaves any of them (`Gone`). Once a stage
has failed, or the evaluation is committed, the run is over but for the way to the
`finally` clause (`Leave`), and an interrupt may fall on it (`LeaveCut`): between the
result of a failure and the status it leads to, or after `evaluation_committed` is
set, which the recovery lets stand.

| actions | code |
|---|---|
| `SetupWrite`, `Preflight` | setup of `execute`; `_run_stages` before each stage |
| `Invoke`, `RecordAttempt`, `RecordLate` | an attempt's outcome and `record_invocation` |
| `StageArtifact`, `Promote`, `Bind`, `SealStage`, `Confirm` | the stage transaction |
| `Expire`, `RollBack` | the deadline after the transaction began; `abort_uncommitted_stage` |
| `StartEvaluation`, `Judge`, `RecordEvaluation` | the evaluation |
| `Leave`, `LeaveCut` | the returns of `_run_stages` and `_finalize_evaluation` |
| `Reconcile`, `Finalize`, `WriteTerminal` | `_reconcile_persisted_stage_seals`, `_finalize_interrupted_run`, `_write_terminal_record` |

`Verifies` is `verify_terminal_run` and `RunIntegrity` is `verify_run_integrity`,
as far as they concern which files, lines, attempts, seals and statuses go
together.

### 2.6 RunStore and RawEvidence

`RunStore` is `ArtifactStore.__init__` of several processes that construct a store
for one `run_id`. A directory is named by the constructor that made it; `place`
says whether it is nowhere, a staging directory or the canonical one, `whole`
whether it has its entries, `inode` its number, which is free again when the
directory is gone.

| actions | code |
|---|---|
| `CheckAbsent` | the first existence check, outside the `try` |
| `MakeStaging`, `FillStaging`, `RecheckAbsent` | the staging directory, its entries, the second check |
| `CaptureIdentity`, `CannotIdentify` | `_directory_identity`, which swallows an `OSError` of its own |
| `Publish`, `Return` | the rename and the end |
| `Fail` | an interrupt or an error anywhere in the `try` block |
| `DiscardStaging` | `_discard_constructor_staging` |
| `CompareIdentity`, `EmptyCanonical`, `RemoveCanonical` | `_rollback_just_published_canonical`: compare, `rmtree`, its last `rmdir` |
| `CleanupFails` | a second fault, inside the cleanup |
| `KeepRawOutput` | the raw output of `record_invocation` |

`seen` (the canonical directories that existed beside the constructor's own),
`victim` (what it rolled back) and `spoiled` are history variables.

`RawEvidence` are the operators `bound_raw_evidence` and
`verify_raw_evidence_truncation`. A text is how its bytes begin, the byte offsets at
which its characters end, and the number a marker at its beginning would claim.

### 2.7 LiveRun

A run of the `openai_responses` adapter from the reservation of an attempt to the
terminal record, with the verdict of the identity policy. Each of its parts is
detailed elsewhere: what a call leaves in its journal in `AttemptLifecycle`, what it
answers in `OpenAIClient`, the single writes of the run directory in `RunRecord`.
Here a call leaves *any* journal those allow, durable outcome or none, closed or
open, and the question is whether the journal, the record, the seal and the terminal
record agree afterwards. Such a run makes one attempt per stage (`runner.py:299`).

| actions | code |
|---|---|
| `Preflight`, `StartStage`, `RefuseAttempt`, `GrantTime` | `_run_stages`, `_execute_stage` up to the permission |
| `CallEscapes`, `CallFails`, `CallReturns`, `CallBlamed` | permission, `invoke_live`, `_assert_lifecycle_outcome`: an exception no record is made of, a recorded one, an outcome, a provider failure without an outcome |
| `StopAttempt`, `FailStage`, `Accept` | the checks of `_execute_stage_body` in their order, the record of a stopped attempt, the status that follows |
| `Promote`, `Bind`, `Seal`, `Confirm`, `Expire` | the stage transaction and the deadline in it |
| `Evaluate`, `Interrupt`, `Reconcile`, `WriteTerminal` | evaluation, interruption, the end |

`Eligible` and `IdentityVerdict` are the policy. `Verifies` is the part of the
verifier that recomputes the verdicts (`RecordJustified`), holds them against the
whole directory (`IdentityTopology`) and compares the journals with records, seals
and the inventory of the terminal record (`LifecycleAgrees`).

## 3. Runs

| run | question | states | result |
|---|---|---|---|
| `attempt_safety` | Do journals and closures ever lie about whether a provider was called, and does the parent come to rest whatever the worker does? | 6 589 | holds |
| `collector_safety` | Is what the collector accepts whole, does it implement `Collection`, and does it always return? | 788 688 | holds |
| `stage_attempts` | Are calls, records and retries what the policy allows, and does the loop end? | 5 354 | holds |
| `client_safety` | Are clients closed once, does the first exception stand, does the journal tell how the call went, is the outcome what the answer and the contract allow? | 220 164 | holds |
| `record_safety` | Is what a run leaves what the verifiers accept, and never more than happened? | 19 622 | holds |
| `run_store` | Is a published run directory whole, does it stay, does a failure undo exactly its own, does bounded raw evidence verify? | 1 338 221 | holds |
| `live_run` | Do journal, record, seal and terminal record of a provider run tell one verdict, the one the verifier recomputes? | 197 341 | holds |
| `record_deadline`, `record_setup`, `record_torn`, `record_late`, `record_budget` | see section 5 | | refuted |

Bounds, and why they are enough.

- `AttemptLifecycle`: `NStages = 2`. Stages interact only through "every earlier
  stage was accepted" and "every earlier journal is closed", which one predecessor
  shows; the proofs cover every number. A journal has at most five frames by its
  grammar, not by a bound.
- `WorkerCollector`: `Deadline = 1`, `Allowance = 1` put the deadline before,
  between and after all other events, because a tick may fall anywhere;
  `MaxBytes = 2` over three pipes with all limits at 1 lets each ceiling be met
  exactly and exceeded by one, the joint one by two streams that are each within
  theirs; `Quantum = 2` lets one read cross a limit; `MaxFaults = 1` is one
  exception or interrupt at any operation, in the run that also checks liveness.
- `StageAttempts`: `MaxAttempts = 3` so that there is a first, a middle and a last
  attempt; `Timeout = 2` so that the deadline may expire at any test;
  `MaxInput = 6` with estimates 0, 2, 3 and 7: never reached, reached exactly by
  the third or second call, and refused at the first.
- `OpenAIClient`: nothing is bounded. Sources and the answers are all there are at
  this abstraction; of the exceptions the instance drops those that differ only in
  fields the classification does not read for their class.
- `RunRecord`: `NStages = 2`, the first with one artifact and the second with two
  (as the verifier stage), `MaxAttempts = 2`, two interrupts and one exception in
  one run: enough for a fault and a second fault inside its recovery. The
  violation runs need at most one of them.
- `RunStore`: three constructors, so that a directory can be published between the
  rollback of a second and the end of a first; three inode numbers, so that one is
  used again while all three are at work; `MaxFaults = 2`, one failure and one in
  its cleanup, or two constructors that fail. Limits from 1 to 6 around markers of
  2 and 4 bytes put the limit below, at, between and above the markers' sizes, and
  texts of up to 6 bytes with characters of 1 to 3 bytes put every cut inside a
  character.
- `LiveRun`: `NStages = 3`, as many as a condition has; `Timeout = 3`, so that an
  answer can come early, late and on the deadline; the configured model, another
  one, and none. The proofs cover every number of stages, every timeout and every
  set of models.

Deadlock is checked everywhere; the end of a run is the explicit stutter
`Terminated`.

Fairness. `WF_vars(Parent)` in `AttemptLifecycle`: the parent is sequential code
and its only unbounded wait has a deadline; nothing is assumed of the worker, of
crashes or of the storage. `WF_vars(Collector)` and `WF_vars(Tick)` in
`WorkerCollector`: system calls return and the clock advances; nothing is assumed
of the worker or its descendants. `WF_vars(Runner)` in `StageAttempts`: adapter
calls return because the executor enforces the time it is given, which is what
`CollectorReturns` says of the provider adapter.

## 4. Proofs

| theorem | property | in |
|---|---|---|
| `TypeCorrect`, `SafeIsSafe`, `DispatchTraced`, `ClosureBinds`, `AcceptedEvidenced`, `InOrder`, `Frozen`, `OpenForReason` | `TypeOK`, `SafeNeverDispatched`, `DispatchLeavesTrace`, `ClosureBindsJournal`, `AcceptedIsEvidenced`, `EvidenceInOrder`, `ClosedJournalFrozen`, `OpenOnlyWhenUnprovable` | `AttemptLifecycleProofs` |
| `Types`, `Accepted`, `Latches`, `Patient`, `FirstAborts`, `Implements` | `TypeOK`, `AcceptedIsWhole`, `LatchStands`, `UncertainIsPatient`, `FirstAbortStands`, `ImplementsCollection` | `WorkerCollectorProofs` |
| `TypeCorrect`, `CeilingHolds`, `LedgerTrue`, `OneRecord`, `TransientOnly`, `Exhausted` | `TypeOK`, `CallsFitCeiling`, `LedgerIsTrue`, `OneRecordPerAttempt`, `OnlyTransientRetried`, `ExhaustedIsSpent` | `StageAttemptsProofs` |
| `TypeCorrect`, `ClosedOnce`, `JournalTells`, `FirstStands`, `TransientRetryable`, `CompleteSuccess`, `OutcomesAccepted` | `TypeOK`, `ClosedExactlyOnce`, `JournalTellsTheCall`, `FirstEscapeStands`, `OnlyTransientIsRetryable`, `SuccessIsComplete`, `OutcomeIsAccepted` | `OpenAIClientProofs` |
| `Types`, `FailureLeavesNothing`, `SealsHold`, `PartialVerifies`, `SuccessProven`, `CleanVerifies` | `TypeOK`, `FailedStageLeavesNothing`, `SealedStagesFrozen`, `PartialEvidenceVerifies`, `SuccessIsProven`, `CleanRunVerifies` | `RunRecordProofs` |
| `TypeCorrect`, `Stands`, `Survives`, `LeavesNothing`, `KeptIsVerified` | `TypeOK`, `PublishedStands`, `PreExistingSurvives`, `FailureLeavesNothing`, `KeptEvidenceVerifies` | `RunStoreProofs` |
| `TypeCorrect`, `IdentifiedSeals`, `StopsAreFinal`, `EvidenceVerifies` | `TypeOK`, `SealedIsIdentified`, `StopIsFinal`, `LiveEvidenceVerifies` | `LiveRunProofs` |

Each module proves one inductive invariant `IInv` (theorem `Invariance`, one lemma
per action or group of actions) and reads the properties off it. Every type
invariant is proved for every instance; where a run does not list it, that is why.
Before it was proved, each invariant was checked by TLC on the instance of its run.
The assumptions are `NStagesAssumption` (at least one stage), `AttemptsAssumption` (a
positive timeout and number of attempts, natural ceilings and estimates),
`CollectorAssumption` (a positive deadline, cleanup allowance and clock quantum,
natural pipe limits and bounds),
`RunAssumption` (at least one stage and one attempt, natural bounds, and for every
stage a set of outputs that is not empty), `ClientAssumption` (sources, exceptions and responses of the declared kinds),
`StoreAssumption` and `MarkerAssumption` (natural numbers of constructors, inode
numbers and faults, positive limits, a minimal marker shorter than the full one),
`TextAssumption` (a text has finitely many characters) and `LiveAssumption` (at
least one stage, a positive timeout, the configured model is one of the models and
an answer without a model names none).

- *AttemptLifecycle.* No property is inductive by itself. That a safe attempt was
  never dispatched needs that a live worker holds exactly the one open journal of
  the current stage (`WorkerHolds`), which needs to know where the parent can be
  while a worker lives; that a call leaves its trace needs how long the journal is
  at each place of the worker and that the boundary frame was synchronised before
  the call (`WorkerAt`); both survive a power loss because the loss keeps the
  synchronised prefix.
  Why a stopped parent left its attempt open is a second invariant on top of that
  one (`Stops`): what the parent knows of its worker at each place, and that a
  journal it is about to close is legal unless torn, because both writers append
  only what may follow (`LegalAppend`).
- *WorkerCollector.* What makes an accepted reply whole is spread over the loop: a
  pipe at its end has no writer and nothing left to read (`EndsAreFinal`), a pipe
  not yet aborted holds everything that was read of it (`HeldIsRead`), so what is
  latched before the deadline is all there will ever be (`LatchedIsWhole`); a reply
  that was not latched has a reason (`UnlatchedHasReason`), a loop that was left
  without the worker reaped has spent its allowance or met a fault
  (`LeftForReason`), and the result says what the state said (`ResultStands`). The
  same invariant carries the refinement: the abstract verdict changes only in
  `Return`, and everything else is a stutter or the worker's quiescence.
- *RunRecord.* The properties speak of a finished record; what makes them hold is
  the shape of the directory at every moment. `Tidy` is about the directory alone:
  stages before the present one are sealed (`Settled`), those after it untouched
  (`Ahead`), and the present one is anything between empty and sealed, with a seal
  only over all it vouches for (`Current`); every operation, whole or cut after any
  of its writes, keeps it (`RecordTidy`, `AbortTidy`, `HereTidy`, `SealTidy`).
  `Memory` says what the program counter adds to that while no fault has struck
  (`Progress`), that the results are true of the stages they are about
  (`Remembered`), that one committed before an interrupt is decided (`Decided`),
  what may be said of the evaluation when (`Judged`), and that an
  end reached with at most one interrupt is coherent (`CleanEnd`). The recovery is
  then one fact: the valid seals are exactly a prefix, up to the present stage or
  the one before (`PrefixFacts`), so what it takes over is true (`TakenFacts`). A
  late second fault breaks only `CleanEnd`, which is why `SuccessIsProven` and
  `PartialEvidenceVerifies` hold for any number of faults and `CleanRunVerifies`
  does not.
- *StageAttempts.* That the ceiling holds needs that `cumulative_input` is exactly
  the ended calls times the estimate (`CumulativeIsCalls`), that a record's total
  is true needs that the last record carries it on (`LedgerCarries`), and that
  only a transient failure is followed by a call needs that an expired deadline
  stays expired (`LaunchesAfterTransient`).
- *OpenAIClient.* `IInv` says at each place who owns which client (`Owners`), and
  which result or exception must be waiting there (`Results`). On top of it,
  `Story` says what is told of the call: what is waiting and what is reported come
  of how the call ended (`Verdicts`), the exception in flight is the first that
  nothing contained (`Escapes`), and the journal has got as far as the place, or
  ends where an append failed (`Told`). What the classifications make of an
  exception or a response are lemmas of their own (`KnownFailures`,
  `TransientFailures`, `ResponseVerdicts`).
- *RunStore.* The rollback knows its own publication by an inode number, and a
  number is used again, so the properties rest on what a number can still tell
  (`Inodes`): it names one directory while that is there, and two directories that
  were there together have different ones. With it a canonical directory is the
  only one, and whole until somebody rolls it back (`Publication`); and how much a
  failed constructor has undone is fixed by where its cleanup is (`Cleanup`), a
  victim being never a directory still under construction. `KeptIsVerified` rests
  on the longest prefix of whole characters being one of the prefixes that fit
  (`PrefixFits`), which needs that a finite set of numbers has a largest one.
- *LiveRun.* The stages before the present one are sealed on an accepted answer
  (`Past`), those after it are untouched (`Future`), and each place of the present
  one fixes what its journal, record and seal hold (`Present`, `Placed`). What the
  status must say of a stopped attempt (`Standing`), and that the terminal record
  is the last word on both (`Ending`), make the verifier's conjuncts follow one by
  one; a record is shown true to its journal when it is written (`Record`) and is
  never touched again, except by the deadline.

Only model-checked: what is out of the prover's reach, which is liveness under
fairness (`ParentSettles`, `CollectorReturns`, `LoopEnds`), `ENABLED`, and induction
over data. Every safety invariant and action property of a passing run, and the one
refinement, is a theorem. No module uses `RECURSIVE`.

## 5. Where the code disagrees with what it says

Each is a run in which TLC refutes what a comment, a docstring or a test says.

- `record_deadline`, `ExpiredNeverSucceeds`. A stage's deadline expires after its
  seal was written and an interrupt cuts `abort_uncommitted_stage` short before
  the seal is unlinked. The recovery finds a valid seal and records the expired
  stage as succeeded.
- `record_setup`, `SetupFailureVerifies`. An I/O error during setup leaves a
  terminal record and no `manifest.jsonl`, which `verify_terminal_run` requires
  although it means to admit such a run. Only the interrupt path creates one.
- `record_torn`, `OrdinaryRecoveryVerifies`. An interrupt between an evidence file
  and its manifest line leaves a file the manifest does not list. The recovery does
  not repair it and the recovered run does not verify.
- `record_late`, `FailureNeverComplete`. An exception after the last seal, for
  example while the evaluation event is written, is recorded as
  `infrastructure_failure` over a complete sealed topology, which the verifier
  calls incoherent.
- `record_budget`, `BudgetStatusMeansBudget`. The terminal status is chosen by the
  words "budget exceeded" in the error text, and a contract error quotes names the
  model chose.

The passing properties of `RunRecord` are stated so that these cases are excepted
by name: `CleanRunVerifies` and `PartialEvidenceVerifies` require a manifest that
was begun and evidence that matches it (`record_setup`, `record_torn`), and
`CleanRunVerifies` a run without exceptions (`record_late`). `LiveEvidenceVerifies`
excepts two more: a journal that could not be closed because the worker was not
proven gone, which the verifier refuses on purpose, and an interrupt between the
record of a rejected or late answer and the status that follows from it
(`disowned`), after which the run ends as `infrastructure_failure` and the verifier,
which asks for the rejection's own status, refuses it.

## 6. Modelling assumptions

- A single file write (temporary file and rename, or one appended line) is one
  step in `RunRecord`; torn and lost writes are modelled in `AttemptLifecycle`,
  where the code synchronises explicitly.
- Interrupts and errors land in operations of the store, the adapter, the
  evaluator or the SDK, or just after their last effect; in plain code only where
  the outcome differs, on the way from a stage's failure or the committed evaluation
  to the end (`LeaveCut`). In `RunRecord` an exception is of the kind the handlers of
  `execute` treat as infrastructure (`OSError` and its like).
- An fsync that returned without error has made its file durable; one that failed
  has promised nothing.
- A clock sample and the decision it feeds are one step.
- A descendant that keeps the worker's journal descriptor does not append to it;
  what it may do with the pipes is modelled in full.
- Nothing but the runner, its worker and the environment's crashes changes the run
  directory, so digests are abstracted to what they cover.
- In `RunStore` the entries of a directory are removed in one step, and `rename`
  replaces an empty directory and refuses one with entries, as on POSIX systems.
  Two ends are excepted in the properties: a constructor that could not take the
  identity of its directory has nothing to recognise it by and leaves it published
  (`spoiled`), and a constructor whose inode number has been given to a later
  directory may roll that one back (`rolledBack` in `PublishedStands`); the number
  can be free again only once its own directory is gone.
- A complete raw output that itself begins like a truncation marker is stored as it
  is, and its verification, which goes by the beginning of the stored bytes, refuses
  it (`artifacts.py:2471`); `KeptEvidenceVerifies` excepts it.
- `_check_identity` first compares `invocation_returned_identity` with the frozen
  model. The adapter sets it to the configured identity wherever it sets it
  (`openai_adapter.py:895`), so that comparison always holds and only the policy's
  verdict on the model the provider resolved is modelled.
- `CallBlamed` of `LiveRun` has the parent accept a provider failure that names no
  outcome, as `executor.py:864-871` and `runner.py:1135-1138` do. The worker of this
  adapter reports such a failure as a protocol error (`worker.py:202-210`), so the
  model allows more than the two sides together produce.
- The SDK performs at most one provider call per `responses.create` (the client is
  built with no retries).

Not modelled: the contents of prompts, artifacts and reports, and path and symlink
checks (data no property tells apart); the binding and digest comparisons of the
verifiers and the contents of provenance and treatment (nothing in the model can
change a file, so they would hold by construction); request construction and the
extraction's size budgets (only that they fail matters); the construction and
validation of the identity policy (a frozen record nothing varies). Of the parts in
section 1, the response guard, the simulated adapters, the evaluation and the text
hygiene keep no state another part shares, and the experiments only configure one
run. The legacy capture path of `executor.py` is planned.

## 7. Plan

Order, by how much depends on the part. Done: attempt evidence, run record,
collection, retry loop, one dispatch, publication of the run directory, raw
evidence, the composition of journals, records and seals in a provider run with the
identity policy.

1. `OpenAIClient` as an implementation of the worker's part of `AttemptLifecycle`:
   its journal is a prefix of what `WorkerWrite` allows and the call falls between
   boundary and observation. Today `JournalTellsTheCall` states the second half.
2. The legacy capture path of `executor.py`, as a second implementation of
   `Collection`.
3. `LiveRun` as what `RunRecord` with `AttemptLifecycle` implements.

Theorems worth proving next: that `OpenAIClient` implements the worker's part of
`AttemptLifecycle` (item 1), step by step, on the invariant `Told` of
`OpenAIClientProofs`.
