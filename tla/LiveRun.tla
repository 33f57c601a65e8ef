------------------------------ MODULE LiveRun ------------------------------
(***************************************************************************)
(* A run against the provider (adapter openai_responses): how the journal  *)
(* of an attempt, its invocation record, the seal of its stage and the     *)
(* terminal record of the run come to agree (runner.py, artifacts.py), and *)
(* the part of the verifier that recomputes the identity verdicts and      *)
(* compares the four (artifacts.py, live_contract.py).                     *)
(*                                                                         *)
(* Composes at the level of one attempt what the other modules detail:     *)
(* what a call leaves in its journal is AttemptLifecycle, what it answers  *)
(* is OpenAIClient, the files and writes of the run directory are          *)
(* RunRecord.  Such a run makes one attempt per stage (runner.py:299).     *)
(***************************************************************************)
EXTENDS Integers

CONSTANTS
  NStages,        \* stages of the condition, executed in order
  Timeout,        \* stage_timeout_seconds, in ticks
  Models,         \* model identities a provider may report
  NoModel,        \* an answer without one
  WireModel       \* the configured model, wire_model of the frozen policy

Stage == 1..NStages

ASSUME LiveAssumption ==
  /\ NStages \in Nat \ {0} /\ Timeout \in Nat \ {0}
  /\ WireModel \in Models /\ NoModel \notin Models

VARIABLES
  \* the run directory
  journal,     \* per stage: what inspect reads of its journal
  record,      \* per stage: its invocation record
  files,       \* per stage: its artifacts are committed
  seal,        \* per stage: attempt_lifecycle of its seal
  evaluated,   \* evaluation.json exists
  terminal,    \* run_result.json
  \* the runner
  pc, st,
  left,        \* _StageDeadline.remaining()
  grant,       \* the attempt's timeout: what was left when it was granted
  ending,      \* how invoke_live ended
  answer,      \* provider_outcome
  latency,     \* response_latency_seconds
  status,      \* _RunState.status
  succeeded,   \* how many stages _RunState.executed_roles holds
  \* history
  disowned     \* an interrupt came between a rejection's record and its status

attempt  == <<left, grant, ending, answer, latency>>
evidence == <<journal, record, files, seal>>
verdict  == <<status, succeeded, evaluated>>
vars     == <<journal, record, files, seal, evaluated, terminal, pc, st, left,
              grant, ending, answer, latency, status, succeeded,
              disowned>>

-----------------------------------------------------------------------------
(* Outcomes and the identity policy.                                       *)

\* A call's outcome: a success names a model or none, an error may be retried
\* elsewhere (transient) or not.  The identities it was asked for are the
\* request's own.
NoOutcome == [kind |-> "none", model |-> NoModel]

Outcomes == [kind : {"success"}, model : Models \cup {NoModel}]
            \cup [kind : {"transient", "final"}, model : {NoModel}]

Durable == Outcomes \cup {NoOutcome}

\* provider_identity_evaluation_eligible
Eligible(o, timeout, elapsed) == o.kind = "success" /\ elapsed < timeout

\* Mutant: an answer that names no model is taken for the configured one.
IdentityVerdictLenient(o, timeout, elapsed) ==
  IF ~Eligible(o, timeout, elapsed) THEN "not_evaluated"
  ELSE IF o.model \in {WireModel, NoModel} THEN "passed" ELSE "failed"

\* evaluate_provider_identity_policy: exactly the wire model.
IdentityVerdict(o, timeout, elapsed) ==
  IF ~Eligible(o, timeout, elapsed) THEN "not_evaluated"
  ELSE IF o.model = WireModel THEN "passed" ELSE "failed"

NoJournal == [prepared |-> FALSE, granted |-> 0, outcome |-> NoOutcome,
              closed |-> FALSE]
Prepared  == [prepared |-> TRUE, granted |-> 0, outcome |-> NoOutcome,
              closed |-> FALSE]

NoRecord   == [decision |-> "none"]
NoTerminal == [status |-> "none"]

-----------------------------------------------------------------------------
(* The verifier: _verify_provider_identity_policy_evidence.                *)

Expected(r) == IF r.received = NoOutcome THEN "not_evaluated"
               ELSE IdentityVerdict(r.received, r.timeout, r.latency)

Late(r) == r.received.kind = "success" /\ Expected(r) = "not_evaluated"

\* One record: its verdict is the recomputed one, and a rejection or a late
\* answer was treated as one.
RecordJustified(r) ==
  /\ r.decision = "promote" => r.received # NoOutcome
  /\ r.identity = Expected(r)
  /\ Expected(r) = "failed" =>
       /\ r.decision = "stop" /\ r.rationale = "identity_policy_rejected"
       /\ r.failure = "governance" /\ ~r.promoted
  /\ Late(r) => /\ r.failure = "timeout" /\ r.contract = "not_evaluated"
                /\ r.decision = "stop" /\ r.rationale = "retry_budget_exhausted"

Rejected(r) == r.decision = "stop" \/ Expected(r) = "failed" \/ Late(r)

\* _assert_provider_identity_topology: the records against the whole directory.
IdentityTopology ==
  \A s \in Stage : LET r == record[s] IN
    /\ seal[s] # NoJournal =>
         /\ r # NoRecord
         /\ Expected(r) = "passed" /\ r.decision = "promote"
         /\ r.rationale = "stage_succeeded" /\ r.failure = "none"
         /\ r.contract = "passed" /\ r.promoted
    /\ r # NoRecord =>
         /\ \A t \in 1..s - 1 : seal[t] # NoJournal
         /\ r.decision = "promote" => Expected(r) = "passed"
    /\ r # NoRecord /\ Rejected(r) =>
         /\ ~r.promoted /\ seal[s] = NoJournal /\ ~files[s] /\ ~evaluated
         /\ \A t \in s + 1..NStages : record[t] = NoRecord /\ seal[t] = NoJournal
         /\ terminal # NoTerminal =>
              /\ terminal.status \notin {"succeeded", "failed_evaluation"}
              /\ terminal.succeeded < s
              /\ Expected(r) = "failed" => terminal.status = "failed_governance"
              /\ Late(r) => terminal.status = "retry_exhausted"

\* _verify_lifecycle_evidence: the journals against records, seals and the
\* terminal inventory.
LifecycleAgrees ==
  /\ \A s \in Stage : LET r == record[s] IN
       /\ r # NoRecord => journal[s].prepared
       /\ journal[s].prepared =>
            /\ journal[s].closed
            /\ r # NoRecord =>
                 /\ r.lifecycle = journal[s] /\ r.observed = journal[s].outcome
                 /\ r.received \in {NoOutcome, journal[s].outcome}
                 /\ journal[s].granted > 0 => r.timeout = journal[s].granted
                 /\ r.decision = "promote" => journal[s].outcome.kind = "success"
            /\ seal[s] # NoJournal =>
                 seal[s] = journal[s] /\ r # NoRecord /\ r.decision = "promote"
            /\ seal[s] = NoJournal => \A t \in s + 1..NStages : seal[t] = NoJournal
            /\ \A t \in 1..s - 1 : seal[t] # NoJournal
  /\ terminal # NoTerminal =>
       /\ terminal.inventory = journal
       /\ terminal.status = "succeeded" => \A s \in Stage : journal[s].prepared

Verifies ==
  /\ \A s \in Stage : record[s] # NoRecord => RecordJustified(record[s])
  /\ IdentityTopology /\ LifecycleAgrees

-----------------------------------------------------------------------------
(* Starting: the journal, then the deadline.                               *)

Goto(l) == pc' = l

Tick ==
  /\ pc \notin {"preflight", "starting", "evaluating", "terminal", "done"}
  /\ left > 0 /\ left' = left - 1
  /\ UNCHANGED <<evidence, verdict, disowned, terminal, pc, st, grant, ending,
                 answer, latency>>

\* Retries are configured, or the adapter is not the declared one:
\* GovernanceViolation before any attempt.
Preflight ==
  /\ pc = "preflight"
  /\ \/ Goto("starting") /\ UNCHANGED status
     \/ Goto("terminal") /\ status' = "failed_governance"
  /\ UNCHANGED <<evidence, succeeded, evaluated, disowned, terminal, st, attempt>>

\* _execute_stage: the earlier seals still hold, the attempt is reserved.
StartStage ==
  /\ pc = "starting"
  /\ \A t \in 1..succeeded : seal[t] = journal[t]
  /\ journal' = [journal EXCEPT ![st] = Prepared]
  /\ left' = Timeout /\ grant' = Timeout
  /\ ending' = "none" /\ answer' = NoOutcome /\ latency' = 0
  /\ Goto("admitting")
  /\ UNCHANGED <<record, files, seal, verdict, disowned, terminal, st>>

\* _record_stage_invocation of a stopped attempt: the journal, closed now if
\* nothing was permitted, goes into the record.
Record(r) ==
  LET j == IF journal[st].granted = 0 THEN [journal[st] EXCEPT !.closed = TRUE]
           ELSE journal[st]
  IN  /\ journal' = [journal EXCEPT ![st] = j]
      /\ record' = [record EXCEPT ![st] =
           [decision |-> "stop", rationale |-> r.rationale,
            contract |-> r.contract, identity |-> r.identity,
            failure |-> r.failure, received |-> r.received,
            timeout |-> grant, latency |-> latency,
            lifecycle |-> j, observed |-> j.outcome, promoted |-> FALSE]]

Unjudged(rationale, failure, received) ==
  [rationale |-> rationale, failure |-> failure, received |-> received,
   contract |-> "not_evaluated", identity |-> "not_evaluated"]

\* The stage ran out of time, or its inputs are over the ceiling, before the
\* attempt began.
RefuseAttempt ==
  /\ pc = "admitting"
  /\ \/ left = 0 /\ Record(Unjudged("retry_budget_exhausted", "timeout", NoOutcome))
     \/ Record(Unjudged("failed_budget", "budget", NoOutcome))
  /\ Goto("recorded")
  /\ UNCHANGED <<files, seal, verdict, disowned, terminal, st, attempt>>

GrantTime ==
  /\ pc = "admitting" /\ left > 0
  /\ grant' = left
  /\ Goto("calling")
  /\ UNCHANGED <<evidence, verdict, disowned, terminal, st, left, ending, answer,
                 latency>>

-----------------------------------------------------------------------------
(* The call: what AttemptLifecycle and the executor may leave of it.       *)

Journaled(durable, closed) ==
  journal' = [journal EXCEPT ![st] =
    [prepared |-> TRUE, granted |-> grant, outcome |-> durable, closed |-> closed]]

\* A call that is broken off, before its permission is durable or after.
BrokenOff ==
  \E closed \in BOOLEAN :
    \/ journal' = [journal EXCEPT ![st].closed = closed]
    \/ \E durable \in Durable : Journaled(durable, closed)

\* The permission, the launch or the closure fails with an exception that
\* _execute_stage_body has no clause for: nothing records the attempt.
CallEscapes ==
  /\ pc = "calling"
  /\ BrokenOff
  /\ status' \in {"failed_governance", "infrastructure_failure"}
  /\ Goto("terminal")
  /\ UNCHANGED <<record, files, seal, succeeded, evaluated, disowned, terminal, st,
                 attempt>>

\* The executor gives up on the worker: it timed out or failed, whatever the
\* worker had made durable by then; a worker not proven gone leaves it open.
CallFails ==
  /\ pc = "calling"
  /\ \E durable \in Durable :
       \/ ending' = "expired" /\ Journaled(durable, TRUE)
       \/ ending' = "failed" /\ \E closed \in BOOLEAN : Journaled(durable, closed)
  /\ Goto("returned")
  /\ UNCHANGED <<record, files, seal, verdict, disowned, terminal, st, left, grant,
                 answer, latency>>

\* Mutant: what came over the pipe is believed.
MatchesNothing(o, durable) == TRUE

\* _assert_lifecycle_outcome
Matches(o, durable) == o = durable

\* The worker answers.  Its answer must be the durable outcome, and the time it
\* took is sampled here, once.
CallReturns ==
  /\ pc = "calling"
  /\ \E o \in Outcomes, durable \in Durable :
       /\ Journaled(durable, TRUE)
       /\ IF Matches(o, durable)
          THEN ending' = "answered" /\ answer' = o /\ latency' = grant - left
          ELSE ending' = "failed" /\ UNCHANGED <<answer, latency>>
  /\ Goto("returned")
  /\ UNCHANGED <<record, files, seal, verdict, disowned, terminal, st, left, grant>>

\* The worker reports a provider's failure without an outcome, which is then
\* held against nothing.
CallBlamed ==
  /\ pc = "calling"
  /\ \E durable \in Durable : Journaled(durable, TRUE)
  /\ ending' \in {"transient", "final"}
  /\ Goto("returned")
  /\ UNCHANGED <<record, files, seal, verdict, disowned, terminal, st, left, grant,
                 answer, latency>>

-----------------------------------------------------------------------------
(* What is made of it: _execute_stage_body after the call.                 *)

CallFailed ==
  \/ ending = "expired" /\ Record(Unjudged("retry_budget_exhausted", "timeout", NoOutcome))
  \/ ending = "failed" /\ Record(Unjudged("infrastructure_failure", "infrastructure", NoOutcome))
  \/ ending = "transient" /\ Record(Unjudged("retry_budget_exhausted", "provider", NoOutcome))
  \/ ending = "final" /\ Record(Unjudged("provider_nonretryable", "provider", NoOutcome))

ProviderFailed ==
  \/ answer.kind = "transient"
       /\ Record(Unjudged("retry_budget_exhausted", "provider", answer))
  \/ answer.kind = "final"
       /\ Record(Unjudged("provider_nonretryable", "provider", answer))

\* map_live_outcome_to_stage_response refuses the structured part.
Unmapped ==
  answer.kind = "success"
    /\ Record(Unjudged("infrastructure_failure", "infrastructure", NoOutcome))

CameLate ==
  /\ answer.kind = "success" /\ ~Eligible(answer, grant, latency)
  /\ Record(Unjudged("retry_budget_exhausted", "timeout", answer))

WrongModel ==
  /\ IdentityVerdict(answer, grant, latency) = "failed"
  /\ Record([rationale |-> "identity_policy_rejected", failure |-> "governance",
             contract |-> "not_evaluated", identity |-> "failed",
             received |-> answer])

\* Budget, contract, and the deadline again.
Unfit ==
  /\ IdentityVerdict(answer, grant, latency) = "passed"
  /\ \E r \in {[rationale |-> "failed_budget", failure |-> "budget",
                contract |-> "not_evaluated"],
               [rationale |-> "failed_contract", failure |-> "contract",
                contract |-> "failed"],
               [rationale |-> "retry_budget_exhausted", failure |-> "timeout",
                contract |-> "passed"]} :
       /\ r.failure = "timeout" => left = 0
       /\ Record([rationale |-> r.rationale, failure |-> r.failure,
                  contract |-> r.contract, identity |-> "passed",
                  received |-> answer])

StopAttempt ==
  /\ pc = "returned"
  /\ \/ CallFailed
     \/ ending = "answered"
        /\ (ProviderFailed \/ Unmapped \/ CameLate \/ WrongModel \/ Unfit)
  /\ Goto("recorded")
  /\ UNCHANGED <<files, seal, verdict, disowned, terminal, st, attempt>>

Accept ==
  /\ pc = "returned" /\ ending = "answered" /\ left > 0
  /\ IdentityVerdict(answer, grant, latency) = "passed"
  /\ Goto("promoting")
  /\ UNCHANGED <<evidence, verdict, disowned, terminal, st, attempt>>

\* The stage's result, or the exception raised after the record.  A violated
\* contract is told by its text, which may speak of an exceeded budget.
FailStage ==
  /\ pc = "recorded"
  /\ status' \in
       CASE record[st].rationale = "retry_budget_exhausted" -> {"retry_exhausted"}
         [] record[st].rationale = "identity_policy_rejected" -> {"failed_governance"}
         [] record[st].rationale = "failed_budget" -> {"failed_budget"}
         [] record[st].rationale = "failed_contract" -> {"failed_contract", "failed_budget"}
         [] OTHER -> {"infrastructure_failure"}
  /\ Goto("terminal")
  /\ UNCHANGED <<evidence, succeeded, evaluated, disowned, terminal, st, attempt>>

-----------------------------------------------------------------------------
(* The stage transaction: each step only while time is left.               *)

Promote ==
  /\ pc = "promoting" /\ left > 0
  /\ files' = [files EXCEPT ![st] = TRUE]
  /\ Goto("binding")
  /\ UNCHANGED <<journal, record, seal, verdict, disowned, terminal, st, attempt>>

Promoted ==
  [decision |-> "promote", rationale |-> "stage_succeeded", contract |-> "passed",
   identity |-> "passed", failure |-> "none", received |-> answer,
   timeout |-> grant, latency |-> latency, lifecycle |-> journal[st],
   observed |-> journal[st].outcome, promoted |-> TRUE]

Bind ==
  /\ pc = "binding" /\ left > 0
  /\ record' = [record EXCEPT ![st] = Promoted]
  /\ Goto("sealing")
  /\ UNCHANGED <<journal, files, seal, verdict, disowned, terminal, st, attempt>>

\* seal_stage: no seal over an open attempt.
Seal ==
  /\ pc = "sealing" /\ left > 0 /\ journal[st].closed
  /\ seal' = [seal EXCEPT ![st] = journal[st]]
  /\ Goto("confirming")
  /\ UNCHANGED <<journal, record, files, verdict, disowned, terminal, st, attempt>>

Confirm ==
  /\ pc = "confirming" /\ left > 0
  /\ succeeded' = st
  /\ IF st < NStages THEN st' = st + 1 /\ Goto("starting")
                     ELSE st' = st /\ Goto("evaluating")
  /\ UNCHANGED <<evidence, status, evaluated, disowned, terminal, attempt>>

\* Mutant: only the seal is withdrawn.
AbortSealOnly(s) == seal' = [seal EXCEPT ![s] = NoJournal] /\ UNCHANGED files

\* abort_uncommitted_stage
Abort(s) == files' = [files EXCEPT ![s] = FALSE] /\ seal' = [seal EXCEPT ![s] = NoJournal]

\* The time runs out inside the transaction: everything is undone, and the
\* attempt recorded as stopped if it was not yet recorded as promoted.
Expire ==
  /\ pc \in {"promoting", "binding", "sealing", "confirming"} /\ left = 0
  /\ Abort(st)
  /\ IF record[st] = NoRecord
     THEN record' = [record EXCEPT ![st] =
            [Promoted EXCEPT !.decision = "stop", !.promoted = FALSE,
             !.rationale = "retry_budget_exhausted", !.failure = "timeout"]]
     ELSE UNCHANGED record
  /\ status' = "retry_exhausted"
  /\ Goto("terminal")
  /\ UNCHANGED <<journal, succeeded, evaluated, disowned, terminal, st, attempt>>

\* _finalize_evaluation: the evidence is verified before it is evaluated.
Evaluate ==
  /\ pc = "evaluating"
  /\ IF Verifies
     THEN evaluated' = TRUE /\ status' \in {"succeeded", "failed_evaluation"}
     ELSE status' = "failed_governance" /\ UNCHANGED evaluated
  /\ Goto("terminal")
  /\ UNCHANGED <<evidence, succeeded, disowned, terminal, st, attempt>>

-----------------------------------------------------------------------------
(* Interruption and the end.                                               *)

\* An interrupt: during the call the executor closes the journal if the worker
\* is proven gone, before it the runner's finally clause does, once entered.
Interrupt ==
  /\ pc \notin {"preflight", "terminal", "reconciling", "done"}
  /\ \/ pc = "calling" /\ BrokenOff
     \/ pc = "admitting" /\ \E closed \in BOOLEAN :
                               journal' = [journal EXCEPT ![st].closed = closed]
     \/ pc \notin {"admitting", "calling"} /\ UNCHANGED journal
  /\ disowned' = (pc = "recorded" /\ (record[st].identity = "failed" \/ Late(record[st])))
  /\ Goto("reconciling")
  /\ UNCHANGED <<record, files, seal, verdict, terminal, st, attempt>>

\* _finalize_interrupted_run: a sealed stage has succeeded, an unsealed one is
\* undone, and a run that could have been evaluated failed its evaluation.
Reconcile ==
  /\ pc = "reconciling"
  /\ IF seal[st] # NoJournal THEN succeeded' = st /\ UNCHANGED <<files, seal>>
     ELSE Abort(st) /\ UNCHANGED succeeded
  /\ IF succeeded' = NStages
     THEN status' = "failed_evaluation" /\ evaluated' = TRUE
     ELSE status' = "infrastructure_failure" /\ UNCHANGED evaluated
  /\ Goto("terminal")
  /\ UNCHANGED <<journal, record, disowned, terminal, st, attempt>>

WriteTerminal ==
  /\ pc = "terminal"
  /\ terminal' = [status |-> status, succeeded |-> succeeded, inventory |-> journal]
  /\ Goto("done")
  /\ UNCHANGED <<evidence, verdict, disowned, st, attempt>>

Terminated == pc = "done" /\ UNCHANGED vars

-----------------------------------------------------------------------------
Init ==
  /\ journal = [s \in Stage |-> NoJournal] /\ record = [s \in Stage |-> NoRecord]
  /\ files = [s \in Stage |-> FALSE] /\ seal = [s \in Stage |-> NoJournal]
  /\ evaluated = FALSE /\ terminal = NoTerminal
  /\ pc = "preflight" /\ st = 1
  /\ left = Timeout /\ grant = Timeout
  /\ ending = "none" /\ answer = NoOutcome /\ latency = 0
  /\ status = "succeeded" /\ succeeded = 0
  /\ disowned = FALSE

Attempt == \/ StartStage \/ RefuseAttempt \/ GrantTime \/ CallEscapes \/ CallFails
           \/ CallBlamed \/ CallReturns \/ StopAttempt \/ Accept \/ FailStage
Commit  == Promote \/ Bind \/ Seal \/ Confirm \/ Expire
End     == Evaluate \/ Interrupt \/ Reconcile \/ WriteTerminal

Next == Tick \/ Preflight \/ Attempt \/ Commit \/ End \/ Terminated

Spec == Init /\ [][Next]_vars

-----------------------------------------------------------------------------
(* Properties.                                                             *)

Journals == [prepared : BOOLEAN, granted : 0..Timeout, outcome : Durable,
             closed : BOOLEAN]

Rationales == {"stage_succeeded", "retry_budget_exhausted", "failed_budget",
               "failed_contract", "infrastructure_failure",
               "provider_nonretryable", "identity_policy_rejected"}

Failures == {"none", "timeout", "budget", "contract", "provider",
             "infrastructure", "governance"}

Records ==
  [decision : {"promote", "stop"}, rationale : Rationales,
   contract : {"passed", "failed", "not_evaluated"},
   identity : {"passed", "failed", "not_evaluated"}, failure : Failures,
   received : Durable, timeout : 1..Timeout, latency : 0..Timeout,
   lifecycle : Journals, observed : Durable, promoted : BOOLEAN]

StatusValues == {"succeeded", "failed_evaluation", "failed_governance",
                 "failed_budget", "failed_contract", "retry_exhausted",
                 "infrastructure_failure"}

Terminals == [status : StatusValues, succeeded : 0..NStages,
              inventory : [Stage -> Journals]]

TypeOK ==
  /\ journal \in [Stage -> Journals]
  /\ record \in [Stage -> Records \cup {NoRecord}]
  /\ files \in [Stage -> BOOLEAN] /\ seal \in [Stage -> Journals]
  /\ evaluated \in BOOLEAN /\ terminal \in Terminals \cup {NoTerminal}
  /\ pc \in {"preflight", "starting", "admitting", "calling", "returned",
             "recorded", "promoting", "binding", "sealing", "confirming",
             "evaluating", "reconciling", "terminal", "done"}
  /\ st \in Stage /\ left \in 0..Timeout /\ grant \in 1..Timeout
  /\ ending \in {"none", "expired", "failed", "transient", "final", "answered"}
  /\ answer \in Durable /\ latency \in 0..Timeout
  /\ status \in StatusValues /\ succeeded \in 0..NStages
  /\ disowned \in BOOLEAN

\* Every run whose journals were closed leaves evidence the verifier accepts,
\* wherever time ran out and an interrupt fell, whatever the provider answered
\* and the journals kept: the verdict of the runner is the one the verifier
\* recomputes.  Excepted is an interrupt between the record of a rejection and
\* its status, which then says infrastructure_failure.
LiveEvidenceVerifies ==
  terminal # NoTerminal /\ ~disowned
    /\ (\A s \in Stage : journal[s].prepared => journal[s].closed) => Verifies

\* A stage is sealed only on an answer of exactly the wire model that came in
\* time and is durable in a closed journal, and its record says the same.
SealedIsIdentified ==
  \A s \in Stage : seal[s] # NoJournal =>
    /\ seal[s] = journal[s] /\ journal[s].closed
    /\ journal[s].outcome = [kind |-> "success", model |-> WireModel]
    /\ record[s] # NoRecord /\ record[s].received = journal[s].outcome
    /\ record[s].latency < journal[s].granted

\* A stopped attempt is the last thing of its run: nothing of its stage is kept,
\* no later stage is reserved, and the run is not evaluated, even if an
\* interrupt comes between.
StopIsFinal ==
  \A s \in Stage : record[s] # NoRecord /\ record[s].decision = "stop" =>
    /\ ~files[s] /\ seal[s] = NoJournal /\ ~evaluated /\ succeeded < s
    /\ \A t \in s + 1..NStages : ~journal[t].prepared
=============================================================================
