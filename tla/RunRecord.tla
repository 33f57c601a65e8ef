----------------------------- MODULE RunRecord -----------------------------
(***************************************************************************)
(* The evidence of one run: the run directory ArtifactStore (artifacts.py) *)
(* keeps, ExperimentRunner.execute (runner.py) that fills it, and          *)
(* verify_terminal_run that later judges it.  Adapters other than          *)
(* openai_responses; the attempt journals of that one are AttemptLifecycle.*)
(*                                                                         *)
(* An exception or an interrupt may cut an operation short: it performs a  *)
(* prefix of its writes (k of them) and control goes where the enclosing   *)
(* handlers send it.  An interrupt may also follow the last write, before  *)
(* the caller notes that the operation is over.  A single file write is    *)
(* one step.  Digests are abstracted to the sets they cover: nothing       *)
(* outside the runner changes the directory.                               *)
(***************************************************************************)
EXTENDS Integers, Sequences, FiniteSets

CONSTANTS
  NStages,        \* stages of the condition, executed in order
  MaxAttempts,    \* max_stage_retries + 1
  Name,           \* artifact names
  Outputs,        \* EXPECTED_ARTIFACTS: the names each stage must produce
  MaxInterrupts,  \* bound: interrupts delivered in one run
  MaxExceptions   \* bound: exceptions out of operations in one run

Stage == 1..NStages

ASSUME RunAssumption ==
  /\ NStages \in Nat \ {0} /\ MaxAttempts \in Nat \ {0}
  /\ MaxInterrupts \in Nat /\ MaxExceptions \in Nat
  /\ Outputs \in [Stage -> (SUBSET Name) \ {{}}]

VARIABLES
  \* the run directory
  frozen,      \* run-defining files written, in order; the last is run_authority.json
  manifest,    \* manifest.jsonl exists
  staged,      \* per stage: names under .uncommitted
  files,       \* per stage: names in the committed role directory
  listed,      \* per stage: names with a model_artifact line in the manifest
  evidence,    \* per stage: what each attempt's directory holds
  seal,        \* per stage: expected_attempts of the seal, 0 without one
  evaluation,  \* evaluation.json
  record,      \* run_result.json
  \* the runner's memory
  pc, st, attempt, verdict,
  status,      \* _RunState.status
  results,     \* _RunState.stage_results, the i-th about stage i; executed_roles
               \* are the succeeded ones, final_candidate_ref is set with the last
  outcome,     \* _RunState.evaluation_outcome
  evalError,   \* _RunState.evaluation_error is set
  evalStarted, evalCommitted,
  \* history
  interrupts, exceptions,
  expired      \* stages whose deadline expired inside their transaction

dir    == <<frozen, manifest, staged, files, listed, evidence, seal>>
place  == <<st, attempt, verdict>>
state  == <<status, results>>
evals  == <<evaluation, outcome, evalError, evalStarted, evalCommitted>>
faults == <<interrupts, exceptions>>
vars   == <<frozen, manifest, staged, files, listed, evidence, seal,
            evaluation, record, pc, st, attempt, verdict, status, results,
            outcome, evalError, evalStarted, evalCommitted, interrupts,
            exceptions, expired>>

Frozen == 6   \* provenance, task, two bindings, treatment, authority
Writes == 5   \* of record_invocation: mkdir, raw file and line, meta file and line
Undoes == 4   \* of abort_uncommitted_stage: staging, seal, artifacts, manifest

FailedStatuses == {"failed_budget", "failed_contract", "failed_governance",
                   "failed_evaluation", "retry_exhausted",
                   "infrastructure_failure"}

-----------------------------------------------------------------------------
(* What the store's operations do to the directory.                        *)

\* The attempt's directory after k writes of record_invocation; a raw output
\* is stored only when a response was received.
AfterWrites(k, raw) ==
  [raw  |-> IF ~raw \/ k < 2 THEN "absent"
            ELSE IF k = 2 THEN "unlisted" ELSE "listed",
   meta |-> IF k < 4 THEN "absent" ELSE IF k = 4 THEN "unlisted" ELSE "listed"]

RecordInvocation(s, raw, k) ==
  /\ evidence' = IF k = 0 THEN evidence
                 ELSE [evidence EXCEPT ![s] = Append(@, AfterWrites(k, raw))]
  /\ manifest' = (manifest \/ (raw /\ k > 2) \/ k = Writes)

\* invocation_attempt_exists
Recorded(s, a) ==
  a \in DOMAIN evidence[s] /\ evidence[s][a].meta # "absent"

\* Mutant: the manifest keeps the lines of the removed artifacts.
AbortKeepsLines(s, k) ==
  /\ staged'    = IF k < 1 THEN staged ELSE [staged EXCEPT ![s] = {}]
  /\ seal'      = IF k < 2 THEN seal   ELSE [seal EXCEPT ![s] = 0]
  /\ files'     = IF k < 3 THEN files  ELSE [files EXCEPT ![s] = @ \ Outputs[s]]
  /\ UNCHANGED <<listed, manifest>>

\* Mutant: the artifacts go before the seal that vouches for them.
AbortArtifactsFirst(s, k) ==
  /\ staged'    = IF k < 1 THEN staged ELSE [staged EXCEPT ![s] = {}]
  /\ files'     = IF k < 2 THEN files  ELSE [files EXCEPT ![s] = @ \ Outputs[s]]
  /\ seal'      = IF k < 3 THEN seal   ELSE [seal EXCEPT ![s] = 0]
  /\ listed'    = IF k < 4 THEN listed ELSE [listed EXCEPT ![s] = {}]
  /\ manifest'  = (manifest \/ k = Undoes)

\* The artifacts gone after k steps of the rollback: they are unlinked one by
\* one, in the arbitrary order of a set.
Gone(s, k) == IF k < 2 THEN {{}} ELSE IF k = 2 THEN SUBSET Outputs[s]
              ELSE {Outputs[s]}

\* abort_uncommitted_stage up to its k-th step: the seal goes before the
\* artifacts it vouches for, and the rewritten manifest comes last.
AbortUncommitted(s, k) ==
  /\ staged'    = IF k < 1 THEN staged ELSE [staged EXCEPT ![s] = {}]
  /\ seal'      = IF k < 2 THEN seal   ELSE [seal EXCEPT ![s] = 0]
  /\ \E gone \in Gone(s, k) : files' = [files EXCEPT ![s] = @ \ gone]
  /\ listed'    = IF k < 4 THEN listed ELSE [listed EXCEPT ![s] = {}]
  /\ manifest'  = (manifest \/ k = Undoes)

\* A seal the validators accept: verify_sealed_stage and _verify_persisted_seal.
SealHolds(s) ==
  /\ seal[s] > 0
  /\ listed[s] = Outputs[s] /\ Outputs[s] \subseteq files[s]
  /\ {a \in DOMAIN evidence[s] : evidence[s][a].meta = "listed"} = 1..seal[s]

-----------------------------------------------------------------------------
(* Where a fault takes control.                                            *)

Transaction == {"staging", "promoting", "binding", "sealing", "confirming"}

\* except BaseException: _finalize_interrupted_run.
Interrupt ==
  /\ interrupts < MaxInterrupts
  /\ interrupts' = interrupts + 1
  /\ pc' = "reconciling"
  /\ UNCHANGED <<exceptions, status>>

\* except Exception: inside the stage transaction roll back first, elsewhere
\* the run is over.  The exception is an OSError or the like; integrity errors
\* need a directory that something else changed.
Exception ==
  /\ exceptions < MaxExceptions
  /\ exceptions' = exceptions + 1
  /\ IF pc \in Transaction
     THEN pc' = "rolling_back" /\ UNCHANGED status
     ELSE pc' = "terminal" /\ status' = "infrastructure_failure"
  /\ UNCHANGED interrupts

\* An operation of n writes cut after k of them.
Cut(k, n) == (k < n /\ Exception) \/ (k <= n /\ Interrupt)

-----------------------------------------------------------------------------
(* Setup.                                                                  *)

SetupWrite ==
  /\ pc = "setup"
  /\ frozen' = frozen + 1
  /\ pc' = IF frozen' = Frozen THEN "preflight" ELSE "setup"
  /\ UNCHANGED <<manifest, staged, files, listed, evidence, seal, record,
                 place, state, evals, faults, expired>>

SetupCut ==
  /\ pc = "setup"
  /\ \E k \in 0..1 : Cut(k, 1) /\ frozen' = frozen + k
  /\ UNCHANGED <<manifest, staged, files, listed, evidence, seal, record,
                 place, results, evals, expired>>

\* The configured identity is the declared one, or GovernanceViolation.
Preflight ==
  /\ pc = "preflight"
  /\ \/ pc' = "invoking" /\ UNCHANGED status
     \/ pc' = "terminal" /\ status' = "failed_governance"
  /\ UNCHANGED <<dir, record, place, results, evals,
                 faults, expired>>

-----------------------------------------------------------------------------
(* Attempts of a stage.                                                    *)

\* How an attempt ends, as _execute_stage_body distinguishes it.
Verdicts == {"retryable", "input_budget", "output_budget", "contract",
             "provider", "infrastructure", "identity", "success"}

\* Whether a raw output is stored: by the verdict, or by the response's shape.
Raws == IF verdict \in {"output_budget", "contract", "identity"} THEN {TRUE}
        ELSE IF verdict = "input_budget" THEN {FALSE} ELSE BOOLEAN

Invoke(v) ==
  /\ pc = "invoking"
  /\ verdict' = v
  /\ pc' = IF v = "success" THEN "staging" ELSE "recording"
  /\ UNCHANGED <<dir, record, st, attempt, state, evals, faults,
                 expired>>

\* verify_sealed_stage, the deadline or the adapter is interrupted.
InvokeCut ==
  /\ pc = "invoking"
  /\ Interrupt \/ Exception
  /\ UNCHANGED <<dir, record, place, results, evals,
                 expired>>

\* The stage ends the run: its failure result and the terminal status.  The
\* way out to the finally clause is a step of its own (Leave, LeaveCut).
FailStage(how, terminal) ==
  /\ results' = Append(results, [status |-> how, attempt |-> attempt])
  /\ status' = terminal
  /\ pc' = "leaving"

\* _terminal_for_failure reads the cause out of the error text, and a contract
\* error quotes names the model chose.
TerminalFor(v) ==
  CASE v \in {"input_budget", "output_budget"} -> {"failed_budget"}
    [] v = "contract" -> {"failed_contract", "failed_budget"}
    [] OTHER          -> {"infrastructure_failure"}

\* Mutant: one retry too many.
AfterRecordingOneMore ==
  /\ verdict = "retryable" /\ attempt <= MaxAttempts
  /\ pc' = "invoking" /\ attempt' = attempt + 1
  /\ UNCHANGED <<status, results>>

AfterRecording ==
  \/ /\ verdict = "retryable" /\ attempt < MaxAttempts
     /\ pc' = "invoking" /\ attempt' = attempt + 1
     /\ UNCHANGED <<status, results>>
  \/ /\ verdict = "retryable" /\ attempt = MaxAttempts
     /\ FailStage("retry_exhausted", "retry_exhausted")
     /\ UNCHANGED attempt
  \/ /\ verdict \in {"input_budget", "output_budget", "contract", "provider"}
     /\ \E terminal \in TerminalFor(verdict) : FailStage("failed", terminal)
     /\ UNCHANGED attempt
  \/ /\ verdict \in {"infrastructure", "identity"}   \* raised, no result
     /\ pc' = "terminal"
     /\ status' = IF verdict = "identity" THEN "failed_governance"
                  ELSE "infrastructure_failure"
     /\ UNCHANGED <<results, attempt>>

RecordAttempt ==
  /\ pc = "recording"
  /\ \E raw \in Raws : RecordInvocation(st, raw, Writes)
  /\ AfterRecording
  /\ UNCHANGED <<frozen, staged, files, listed, seal, record, st, verdict, evals, faults, expired>>

RecordCut ==
  /\ pc = "recording"
  /\ \E k \in 0..Writes, raw \in Raws :
       Cut(k, Writes) /\ RecordInvocation(st, raw, k)
  /\ UNCHANGED <<frozen, staged, files, listed, seal, record, place, results, evals, expired>>

-----------------------------------------------------------------------------
(* The stage transaction: _commit_stage_transaction.                       *)

\* write_staged of one artifact; the last one opens the commit.
StageArtifact(n) ==
  /\ pc = "staging" /\ n \in Outputs[st] \ staged[st]
  /\ staged' = [staged EXCEPT ![st] = @ \cup {n}]
  /\ pc' = IF staged'[st] = Outputs[st] THEN "promoting" ELSE "staging"
  /\ UNCHANGED <<frozen, manifest, files, listed, evidence, seal, record, place,
                 state, evals, faults, expired>>

StageCut ==
  /\ pc = "staging"
  /\ \E n \in Outputs[st] \ staged[st], k \in 0..1 :
       Cut(k, 1) /\ staged' = IF k = 0 THEN staged
                              ELSE [staged EXCEPT ![st] = @ \cup {n}]
  /\ UNCHANGED <<frozen, manifest, files, listed, evidence, seal, record, place,
                 results, evals, expired>>

\* commit_staged_artifacts: file by file, each followed by its manifest line.
Promote ==
  /\ pc = "promoting"
  /\ files' = [files EXCEPT ![st] = @ \cup staged[st]]
  /\ listed' = [listed EXCEPT ![st] = @ \cup staged[st]]
  /\ staged' = [staged EXCEPT ![st] = {}]
  /\ manifest' = TRUE
  /\ pc' = "binding"
  /\ UNCHANGED <<frozen, evidence, seal, record, place, state, evals,
                 faults, expired>>

\* Some names are promoted, the next one perhaps written but not yet listed.
PromoteCut ==
  /\ pc = "promoting"
  /\ Interrupt \/ Exception
  /\ \E done \in SUBSET staged[st], next \in SUBSET staged[st] :
       /\ Cardinality(next) <= 1
       /\ files' = [files EXCEPT ![st] = @ \cup done \cup next]
       /\ listed' = [listed EXCEPT ![st] = @ \cup done]
       /\ manifest' = (manifest \/ done # {})
  /\ UNCHANGED <<frozen, staged, evidence, seal, record, place, results, evals, expired>>

\* The attempt is recorded as promoted.
Bind ==
  /\ pc = "binding"
  /\ RecordInvocation(st, TRUE, Writes)
  /\ pc' = "sealing"
  /\ UNCHANGED <<frozen, staged, files, listed, seal, record, place, state, evals, faults, expired>>

BindCut ==
  /\ pc = "binding"
  /\ \E k \in 0..Writes : Cut(k, Writes) /\ RecordInvocation(st, TRUE, k)
  /\ UNCHANGED <<frozen, staged, files, listed, seal, record, place, results, evals, expired>>

\* seal_stage: exactly the expected artifacts and attempts, then one atomic
\* replace.
SealStage ==
  /\ pc = "sealing"
  /\ listed[st] = Outputs[st]
  /\ \A a \in 1..attempt : Recorded(st, a)
  /\ seal' = [seal EXCEPT ![st] = attempt]
  /\ pc' = "confirming"
  /\ UNCHANGED <<frozen, manifest, staged, files, listed, evidence, record,
                 place, state, evals, faults, expired>>

SealCut ==
  /\ pc = "sealing"
  /\ \E k \in 0..1 : Cut(k, 1) /\ seal' = IF k = 0 THEN seal
                                          ELSE [seal EXCEPT ![st] = attempt]
  /\ UNCHANGED <<frozen, manifest, staged, files, listed, evidence, record,
                 place, results, evals, expired>>

\* verify_sealed_stage, the last deadline check, and only then the success.
Confirm ==
  /\ pc = "confirming" /\ SealHolds(st)
  /\ results' = Append(results, [status |-> "succeeded", attempt |-> attempt])
  /\ attempt' = 1
  /\ IF st < NStages THEN st' = st + 1 /\ pc' = "invoking"
                     ELSE st' = st /\ pc' = "evaluating"
  /\ UNCHANGED <<dir, record, verdict, status, evals, faults,
                 expired>>

ConfirmCut ==
  /\ pc = "confirming"
  /\ Interrupt \/ Exception
  /\ UNCHANGED <<dir, record, place, results, evals,
                 expired>>

\* deadline.require fails before, between or after the transaction's steps.
Expire ==
  /\ pc \in Transaction
  /\ expired' = expired \cup {st}
  /\ pc' = "rolling_back"
  /\ UNCHANGED <<dir, record, place, state, evals, faults>>

\* Everything the stage committed is undone; a deadline then fails the stage,
\* an exception is raised again.
RollBack ==
  /\ pc = "rolling_back"
  /\ AbortUncommitted(st, Undoes)
  /\ IF st \in expired
     THEN IF Recorded(st, attempt)
          THEN FailStage("retry_exhausted", "retry_exhausted")
          ELSE pc' = "recording_late" /\ UNCHANGED <<results, status>>
     ELSE /\ pc' = "terminal" /\ status' = "infrastructure_failure"
          /\ UNCHANGED results
  /\ UNCHANGED <<frozen, evidence, record, place, evals, faults,
                 expired>>

RollBackCut ==
  /\ pc = "rolling_back"
  /\ \E k \in 0..Undoes :
       /\ Cut(k, Undoes) /\ AbortUncommitted(st, k)
  /\ UNCHANGED <<frozen, evidence, record, place, results, evals,
                 expired>>

\* The attempt that ran out of time before it was bound is recorded as such.
RecordLate ==
  /\ pc = "recording_late"
  /\ RecordInvocation(st, TRUE, Writes)
  /\ FailStage("retry_exhausted", "retry_exhausted")
  /\ UNCHANGED <<frozen, staged, files, listed, seal, record, place, evals, faults, expired>>

RecordLateCut ==
  /\ pc = "recording_late"
  /\ \E k \in 0..Writes : Cut(k, Writes) /\ RecordInvocation(st, TRUE, k)
  /\ UNCHANGED <<frozen, staged, files, listed, seal, record, place, results, evals, expired>>

-----------------------------------------------------------------------------
(* Evaluation: _finalize_evaluation.                                       *)

StartEvaluation ==
  /\ pc = "evaluating"
  /\ \A s \in Stage : SealHolds(s)
  /\ evalStarted' = TRUE
  /\ pc' = "judging"
  /\ UNCHANGED <<dir, record, place, state, evaluation, outcome, evalError,
                 evalCommitted, faults, expired>>

\* The evaluator passes or rejects the candidate, or raises.
Judge ==
  /\ pc = "judging"
  /\ \/ outcome' = "passed" /\ UNCHANGED <<status, evalError>>
     \/ outcome' = "rejected" /\ status' = "failed_evaluation"
        /\ UNCHANGED evalError
     \/ evalError' = TRUE /\ status' = "failed_evaluation" /\ UNCHANGED outcome
  /\ pc' = "recording_evaluation"
  /\ UNCHANGED <<dir, record, place, results, evaluation, evalStarted,
                 evalCommitted, faults, expired>>

\* What evaluation.json says of the run's memory.
Verdict == IF evalError THEN "error" ELSE outcome

RecordEvaluation ==
  /\ pc = "recording_evaluation"
  /\ evaluation' = Verdict
  /\ evalCommitted' = TRUE
  /\ pc' = "leaving"
  /\ UNCHANGED <<dir, record, place, state, outcome, evalError, evalStarted,
                 faults, expired>>

EvaluationCut ==
  /\ \/ pc \in {"evaluating", "judging"} /\ (Interrupt \/ Exception)
        /\ evalStarted' = TRUE /\ UNCHANGED evaluation
     \/ pc = "recording_evaluation" /\ UNCHANGED evalStarted
        /\ \E k \in 0..1 : Cut(k, 1) /\ evaluation' = IF k = 0 THEN evaluation
                                                      ELSE Verdict
  /\ UNCHANGED <<dir, record, place, results, outcome, evalError,
                 evalCommitted, expired>>

-----------------------------------------------------------------------------
(* Between the last result, or the evaluation, and the finally clause.     *)

Leave ==
  /\ pc = "leaving"
  /\ pc' = "terminal"
  /\ UNCHANGED <<dir, record, place, state, evals, faults, expired>>

\* The interrupt may fall after a failure's result is appended and before the
\* status is assigned, which still says succeeded then; after an evaluation
\* both are settled.
LeaveCut ==
  /\ pc = "leaving"
  /\ interrupts < MaxInterrupts
  /\ interrupts' = interrupts + 1
  /\ pc' = "reconciling"
  /\ status' \in IF evalCommitted THEN {status} ELSE {status, "succeeded"}
  /\ UNCHANGED <<dir, record, place, results, evals, exceptions, expired>>

-----------------------------------------------------------------------------
(* Interruption: _finalize_interrupted_run.                                *)

\* The stages whose persisted seals the validator accepts, in order.
SealedPrefix == CHOOSE n \in 0..NStages :
  /\ \A s \in 1..n : SealHolds(s)
  /\ n = NStages \/ ~SealHolds(n + 1)

\* Results once the seals of the first j stages are taken over.
TakenOver(j) ==
  results \o [i \in 1..(j - Len(results)) |->
                [status |-> "succeeded", attempt |-> seal[Len(results) + i]]]

\* Mutant: only the memory of the run decides which stages succeeded.
ReconcileMemoryOnly ==
  /\ pc = "reconciling"
  /\ pc' = "finalizing"
  /\ UNCHANGED <<dir, record, place, state, evals, faults, expired>>

\* _reconcile_persisted_stage_seals: valid seals make succeeded stages, the
\* first stage without one is aborted.
Reconcile ==
  /\ pc = "reconciling"
  /\ results' = TakenOver(SealedPrefix)
  /\ IF SealedPrefix < NStages THEN AbortUncommitted(SealedPrefix + 1, Undoes)
     ELSE UNCHANGED <<staged, seal, files, listed, manifest>>
  /\ pc' = "finalizing"
  /\ UNCHANGED <<frozen, evidence, record, place, status, evals, faults,
                 expired>>

\* _completed_stage_topology.
Complete(rs) == Len(rs) = NStages /\ \A i \in Stage : rs[i].status = "succeeded"

\* An evaluation that was committed stands.  An interrupted run that could
\* have been evaluated failed its evaluation.
Finalize ==
  /\ pc = "finalizing"
  /\ pc' = "terminal"
  /\ IF evalCommitted THEN UNCHANGED <<status, manifest, evals>>
     ELSE IF evalStarted \/ Complete(results)
     THEN /\ status' = "failed_evaluation" /\ evalError' = TRUE
          /\ outcome' = "none" /\ evaluation' = "error" /\ evalCommitted' = TRUE
          /\ UNCHANGED <<manifest, evalStarted>>
     ELSE /\ status' = "infrastructure_failure" /\ manifest' = TRUE
          /\ UNCHANGED evals
  /\ UNCHANGED <<frozen, staged, files, listed, evidence, seal, record, place,
                 results, faults, expired>>

\* The recovery itself is cut short: only a status that still says succeeded
\* is corrected, from the results it left.
SecondFault ==
  /\ \/ interrupts < MaxInterrupts /\ interrupts' = interrupts + 1
        /\ UNCHANGED exceptions
     \/ exceptions < MaxExceptions /\ exceptions' = exceptions + 1
        /\ UNCHANGED interrupts
  /\ pc' = "terminal"

\* Mutant: a failed recovery leaves the status it found.
FallBackNothing == UNCHANGED <<status, evalError>>

FallBack ==
  IF evalCommitted \/ status # "succeeded" THEN UNCHANGED <<status, evalError>>
  ELSE IF evalStarted \/ Complete(results')
  THEN status' = "failed_evaluation" /\ evalError' = TRUE
  ELSE status' = "infrastructure_failure" /\ UNCHANGED evalError

ReconcileCut ==
  /\ pc = "reconciling" /\ SecondFault
  /\ \E j \in 0..SealedPrefix, k \in 0..Undoes :
       /\ results' = TakenOver(j)
       /\ IF j = SealedPrefix /\ j < NStages THEN AbortUncommitted(j + 1, k)
          ELSE UNCHANGED <<staged, seal, files, listed, manifest>>
  /\ FallBack
  /\ UNCHANGED <<frozen, evidence, record, place, evaluation, outcome,
                 evalStarted, evalCommitted, expired>>

\* The status is already replaced when the evaluation event is being written.
FinalizeCut ==
  /\ pc = "finalizing" /\ SecondFault /\ ~evalCommitted
  /\ IF evalStarted \/ Complete(results)
     THEN /\ status' = "failed_evaluation" /\ evalError' = TRUE
          /\ outcome' = "none" /\ evaluation' \in {evaluation, "error"}
     ELSE /\ status' = "infrastructure_failure"
          /\ UNCHANGED <<evalError, outcome, evaluation>>
  /\ UNCHANGED <<dir, record, place, results, evalStarted, evalCommitted,
                 expired>>

-----------------------------------------------------------------------------
(* The terminal record.                                                    *)

NoRecord == [authority |-> FALSE, status |-> "none", stages |-> <<>>,
             outcome |-> "none", error |-> FALSE]

TerminalRecord == [authority |-> frozen = Frozen, status |-> status,
                   stages |-> results, outcome |-> outcome, error |-> evalError]

WriteTerminal ==
  /\ pc = "terminal"
  /\ record' = TerminalRecord
  /\ pc' = "done"
  /\ UNCHANGED <<dir, place, state, evals, faults, expired>>

\* A fault of the finally clause leaves no record, or comes after it.
WriteTerminalCut ==
  /\ pc = "terminal"
  /\ \/ interrupts < MaxInterrupts /\ interrupts' = interrupts + 1
        /\ record' \in {NoRecord, TerminalRecord} /\ UNCHANGED exceptions
     \/ exceptions < MaxExceptions /\ exceptions' = exceptions + 1
        /\ record' = NoRecord /\ UNCHANGED interrupts
  /\ pc' = "done"
  /\ UNCHANGED <<dir, place, state, evals, expired>>

Terminated == pc = "done" /\ UNCHANGED vars

-----------------------------------------------------------------------------
Init ==
  /\ frozen = 0 /\ manifest = FALSE
  /\ staged = [s \in Stage |-> {}] /\ files = [s \in Stage |-> {}]
  /\ listed = [s \in Stage |-> {}] /\ evidence = [s \in Stage |-> <<>>]
  /\ seal = [s \in Stage |-> 0]
  /\ evaluation = "none" /\ record = NoRecord
  /\ pc = "setup" /\ st = 1 /\ attempt = 1 /\ verdict = "success"
  /\ status = "succeeded" /\ results = <<>>
  /\ outcome = "none" /\ evalError = FALSE
  /\ evalStarted = FALSE /\ evalCommitted = FALSE
  /\ interrupts = 0 /\ exceptions = 0 /\ expired = {}

Attempts == (\E v \in Verdicts : Invoke(v)) \/ RecordAttempt
Commit   == \/ \E n \in Name : StageArtifact(n)
            \/ Promote \/ Bind \/ SealStage \/ Confirm
Undo     == Expire \/ RollBack \/ RecordLate
Evaluate == StartEvaluation \/ Judge \/ RecordEvaluation
Conclude == Leave \/ Reconcile \/ Finalize \/ WriteTerminal
Faults   == \/ SetupCut \/ InvokeCut \/ RecordCut \/ StageCut \/ PromoteCut
            \/ BindCut \/ SealCut \/ ConfirmCut \/ RollBackCut \/ RecordLateCut
            \/ EvaluationCut \/ LeaveCut \/ ReconcileCut \/ FinalizeCut \/ WriteTerminalCut

Next == \/ SetupWrite \/ Preflight \/ Attempts \/ Commit \/ Undo \/ Evaluate
        \/ Conclude \/ Faults \/ Terminated

Spec == Init /\ [][Next]_vars

-----------------------------------------------------------------------------
(* The verifier: verify_terminal_run on what is left of the run.           *)

EvidenceMatches ==
  \A s \in Stage, a \in 1..MaxAttempts : a \in DOMAIN evidence[s] =>
     evidence[s][a].raw # "unlisted" /\ evidence[s][a].meta # "unlisted"

Metas(s) == {a \in DOMAIN evidence[s] : evidence[s][a].meta = "listed"}

\* _role_may_have_invocations
MayHaveInvocations(s) ==
  LET n == Len(record.stages)
  IN  s <= n \/ (s = n + 1 /\ (n = 0 \/ record.stages[n].status = "succeeded"))

\* _assert_invocation_attempt_topology
AttemptTopology ==
  \A s \in Stage :
     IF s <= Len(record.stages) THEN Metas(s) = 1..record.stages[s].attempt
     ELSE IF MayHaveInvocations(s) THEN Metas(s) = 1..Cardinality(Metas(s))
     ELSE Metas(s) = {}

SealedStages == {s \in Stage : seal[s] > 0}
SucceededIn(rs) == {i \in DOMAIN rs : rs[i].status = "succeeded"}

\* _assert_terminal_stage_status_coherence
StageCoherence ==
  /\ SealedStages = SucceededIn(record.stages)
  /\ \A s \in SealedStages : Outputs[s] \subseteq files[s]

\* _assert_evaluation_coherence
EvaluationCoherence ==
  CASE record.status = "succeeded" ->
         evaluation = "passed" /\ record.outcome = "passed"
    [] record.status = "failed_evaluation" ->
         \/ evaluation = "rejected" /\ record.outcome = "rejected" /\ ~record.error
         \/ evaluation = "error" /\ record.outcome = "none" /\ record.error
    [] OTHER -> record.outcome = "none" \/ record.outcome = evaluation

\* _assert_terminal_status_topology: a complete sealed topology goes with
\* exactly the statuses that imply it.
StatusTopology ==
  (\A s \in Stage : SealHolds(s)) <=>
     record.status \in {"succeeded", "failed_evaluation"}

\* _legitimate_pre_authority_setup_failure
SetupFailure ==
  /\ record.status = "infrastructure_failure" /\ record.outcome = "none"
  /\ ~record.error /\ SucceededIn(record.stages) = {} /\ frozen < Frozen
  /\ evaluation = "none" /\ SealedStages = {}
  /\ \A s \in Stage : evidence[s] = <<>> /\ files[s] = {} /\ listed[s] = {}

Verifies ==
  /\ manifest /\ record # NoRecord
  /\ IF ~record.authority THEN SetupFailure
     ELSE /\ frozen = Frozen /\ EvidenceMatches /\ AttemptTopology
          /\ StageCoherence /\ EvaluationCoherence /\ StatusTopology
          /\ \A s \in SealedStages : SealHolds(s)

\* verify_run_integrity: with or without a terminal record.
RunIntegrity ==
  /\ EvidenceMatches
  /\ record # NoRecord => AttemptTopology
  /\ SealedStages \cap (DOMAIN record.stages \ SucceededIn(record.stages)) = {}
  /\ \A s \in SealedStages : SealHolds(s)

-----------------------------------------------------------------------------
(* Properties.                                                             *)

Result == [status : {"succeeded", "failed", "retry_exhausted"},
           attempt : 1..MaxAttempts]

TypeOK ==
  /\ frozen \in 0..Frozen /\ manifest \in BOOLEAN
  /\ staged \in [Stage -> SUBSET Name] /\ files \in [Stage -> SUBSET Name]
  /\ listed \in [Stage -> SUBSET Name]
  /\ evidence \in [Stage -> Seq([raw : {"absent", "unlisted", "listed"},
                                 meta : {"absent", "unlisted", "listed"}])]
  /\ seal \in [Stage -> 0..MaxAttempts]
  /\ evaluation \in {"none", "passed", "rejected", "error"}
  /\ pc \in Transaction \cup
       {"setup", "preflight", "invoking", "recording", "rolling_back",
        "recording_late", "evaluating", "judging", "recording_evaluation",
        "leaving", "reconciling", "finalizing", "terminal", "done"}
  /\ st \in Stage /\ attempt \in 1..MaxAttempts /\ verdict \in Verdicts
  /\ status \in FailedStatuses \cup {"succeeded"}
  /\ results \in Seq(Result) /\ Len(results) <= NStages
  /\ outcome \in {"none", "passed", "rejected"}
  /\ evalError \in BOOLEAN /\ evalStarted \in BOOLEAN /\ evalCommitted \in BOOLEAN
  /\ interrupts \in 0..MaxInterrupts /\ exceptions \in 0..MaxExceptions
  /\ expired \subseteq Stage

\* A run that met no exception and at most one interrupt leaves a record the
\* verifier accepts, wherever the deadline and the interrupt fell, unless the
\* interrupt split an evidence file from its manifest line or no manifest was
\* ever begun.
CleanRunVerifies ==
  record # NoRecord /\ exceptions = 0 /\ interrupts <= 1
    /\ manifest /\ EvidenceMatches => Verifies

\* Whatever went wrong and however often, a record that says succeeded stands
\* on a complete, sealed, evaluated run (_finalize_interrupted_run and the
\* handlers of execute never let an early status through).
SuccessIsProven == record.status = "succeeded" => Verifies

\* A stage the record calls failed has nothing left that could be taken for an
\* output: its artifacts, manifest lines and seal are gone (abort_uncommitted_stage).
FailedStageLeavesNothing ==
  \A s \in DOMAIN record.stages : record.stages[s].status # "succeeded" =>
     /\ seal[s] = 0 /\ staged[s] = {}
     /\ files[s] \cap Outputs[s] = {} /\ listed[s] = {}

\* While a stage is sealed, its artifacts and their manifest lines do not
\* change: a rollback removes the seal before what it vouches for.
SealedUnchanged ==
  \A s \in Stage : seal[s] > 0 /\ seal'[s] > 0 =>
     /\ seal'[s] = seal[s] /\ listed'[s] = listed[s]
     /\ files'[s] = files[s] /\ evidence'[s] = evidence[s]
SealedStagesFrozen == [][SealedUnchanged]_vars

\* Whatever a fault leaves behind, verify_run_integrity accepts it, unless an
\* evidence file was cut off from its manifest line: a seal never outlives what
\* it vouches for, and no stage the record calls failed keeps one.
PartialEvidenceVerifies == manifest /\ EvidenceMatches => RunIntegrity

\* Refuted: a stage that ran out of time is never recorded as succeeded
\* (abort_uncommitted_stage: "so a deadline failure cannot leave a successful
\* topology").  An interrupt of the rollback leaves the seal, and the recovery
\* takes the seal over.
ExpiredNeverSucceeds ==
  \A s \in expired : s \in DOMAIN record.stages =>
     record.stages[s].status # "succeeded"

\* Refuted: a setup failure that was recorded is a finished run the verifier
\* accepts.  Only the recovery from an interrupt creates the manifest the
\* verifier insists on.
SetupFailureVerifies ==
  record # NoRecord /\ frozen < Frozen => Verifies

\* Refuted: an interrupted run whose recovery met no further fault verifies.
\* An interrupt may split an evidence file from its manifest line.
OrdinaryRecoveryVerifies ==
  record # NoRecord /\ exceptions = 0 /\ interrupts = 1 /\ manifest => Verifies

\* Refuted: a status other than succeeded and failed_evaluation is incoherent
\* with a complete sealed topology (_assert_terminal_status_topology), so the
\* runner never records one.  An exception after the last seal does.
FailureNeverComplete ==
  record # NoRecord /\ (\A s \in Stage : SealHolds(s)) =>
     record.status \in {"succeeded", "failed_evaluation"}

\* Refuted: failed_budget means that a ceiling was exceeded.  The text of a
\* contract error may contain the words the status is chosen by.
BudgetStatusMeansBudget ==
  record.status = "failed_budget" => verdict \in {"input_budget", "output_budget"}
=============================================================================
