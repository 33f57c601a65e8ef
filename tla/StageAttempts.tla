---------------------------- MODULE StageAttempts ---------------------------
(***************************************************************************)
(* The retry loop of one stage: ExperimentRunner._execute_stage_body       *)
(* (runner.py) with retry_policy.py.  All attempts share one deadline and  *)
(* one ceiling for the estimated input, and every attempt that ends the    *)
(* loop or is retried leaves one invocation record; the record of the      *)
(* attempt that succeeds is written later, by the stage transaction.       *)
(*                                                                         *)
(* Time is a countdown to the stage's deadline; a clock sample and the     *)
(* branch it decides are one step.  Interrupts end the run elsewhere       *)
(* (RunRecord), and so does a fault of the store.                          *)
(***************************************************************************)
EXTENDS Integers, Sequences, RetryPolicy

CONSTANTS
  Timeout,      \* stage_timeout_seconds, in ticks
  MaxAttempts,  \* max_stage_retries + 1
  MaxInput,     \* max_input_tokens_per_stage
  Estimates     \* what _estimate_tokens_in may return for the stage's input

ASSUME AttemptsAssumption ==
  /\ Timeout \in Nat \ {0} /\ MaxAttempts \in Nat \ {0} /\ MaxInput \in Nat
  /\ Estimates \subseteq Nat /\ Estimates # {}

VARIABLES
  left,        \* _StageDeadline.remaining
  estimate,    \* estimated_in
  pc, attempt,
  cumulative,  \* cumulative_input
  ledger,      \* records of _record_stage_invocation, the i-th of attempt i
  outcome,     \* the _StageOutcome or exception the loop ends with
  calls        \* history: the adapter invocations, with their attempt and end

vars == <<left, estimate, pc, attempt, cumulative, ledger, outcome, calls>>

-----------------------------------------------------------------------------
(* How an adapter invocation may end.                                      *)

\* A response, by the first check it fails: identity, output budget, contract.
Responses == {"good", "wrong_identity", "over_budget", "bad_contract"}

\* A protocol or infrastructure error is recorded, anything else escapes.
Failures == {"timeout", "model", "infrastructure", "escape"}
              \cup Categories

-----------------------------------------------------------------------------
(* The steps of an attempt.                                                *)

Record(class, began, decision, total) ==
  ledger' = Append(ledger, [class |-> class, began |-> began,
                            decision |-> decision, cumulative |-> total])

\* The attempt ends the loop, with a record.
Stop(class, began, total, how) ==
  /\ Record(class, began, "stop", total)
  /\ cumulative' = total /\ outcome' = how /\ pc' = "done"
  /\ UNCHANGED attempt

\* The attempt consumes retry budget: another one follows while there is any.
Spend(class, began, total) ==
  IF attempt = MaxAttempts THEN Stop(class, began, total, "retry_exhausted")
  ELSE /\ Record(class, began, "retry", total)
       /\ cumulative' = total /\ pc' = "starting" /\ attempt' = attempt + 1
       /\ UNCHANGED outcome

\* Mutant: an attempt that finds the deadline expired is not counted.
StartUncounted ==
  /\ pc = "starting"
  /\ IF left = 0 THEN UNCHANGED <<pc, attempt, cumulative, ledger, outcome>>
     ELSE pc' = "authorizing" /\ UNCHANGED <<attempt, cumulative, ledger, outcome>>
  /\ UNCHANGED <<left, estimate, calls>>

\* deadline.require("before starting an attempt")
Start ==
  /\ pc = "starting"
  /\ IF left = 0 THEN Spend("timeout", FALSE, cumulative)
     ELSE pc' = "authorizing" /\ UNCHANGED <<attempt, cumulative, ledger, outcome>>
  /\ UNCHANGED <<left, estimate, calls>>

\* Mutant: the ceiling is applied to each attempt on its own.
AuthorizeEach ==
  /\ pc = "authorizing"
  /\ IF estimate > MaxInput
     THEN Stop("budget", FALSE, cumulative, "failed_budget")
     ELSE pc' = "launching" /\ UNCHANGED <<attempt, cumulative, ledger, outcome>>
  /\ UNCHANGED <<left, estimate, calls>>

\* The cumulative input ceiling.
Authorize ==
  /\ pc = "authorizing"
  /\ IF cumulative + estimate > MaxInput
     THEN Stop("budget", FALSE, cumulative, "failed_budget")
     ELSE pc' = "launching" /\ UNCHANGED <<attempt, cumulative, ledger, outcome>>
  /\ UNCHANGED <<left, estimate, calls>>

\* deadline.require("immediately before process launch")
Launch ==
  /\ pc = "launching"
  /\ IF left = 0
     THEN Spend("timeout", FALSE, cumulative) /\ UNCHANGED calls
     ELSE /\ calls' = Append(calls, [attempt |-> attempt, end |-> "pending"])
          /\ pc' = "calling" /\ UNCHANGED <<attempt, cumulative, ledger, outcome>>
  /\ UNCHANGED <<left, estimate>>

Ended(how) == [calls EXCEPT ![Len(calls)].end = how]
Consumed   == cumulative + estimate

\* Mutant: a timed-out call is taken to have sent nothing.
FailFreeTimeout(how) ==
  /\ pc = "calling"
  /\ calls' = Ended(how)
  /\ CASE how = "timeout" -> left = 0 /\ Spend("timeout", TRUE, cumulative)
       [] how = "model" -> Spend("model", TRUE, Consumed)
       [] how = "infrastructure" -> Stop("infrastructure", TRUE, Consumed, "raised")
       [] how = "escape" -> /\ outcome' = "escaped" /\ pc' = "done"
                            /\ UNCHANGED <<attempt, cumulative, ledger>>
       [] OTHER -> IF IsRetryCandidate(how) THEN Spend("provider", TRUE, Consumed)
                   ELSE Stop("provider", TRUE, Consumed, "failed")
  /\ UNCHANGED <<left, estimate>>

\* The adapter raises.  It enforces the remaining time it was given at launch,
\* so that its timeout comes with the stage's.
Fail(how) ==
  /\ pc = "calling"
  /\ calls' = Ended(how)
  /\ CASE how = "timeout" -> left = 0 /\ Spend("timeout", TRUE, Consumed)
       [] how = "model" -> Spend("model", TRUE, Consumed)
       [] how = "infrastructure" -> Stop("infrastructure", TRUE, Consumed, "raised")
       [] how = "escape" -> /\ outcome' = "escaped" /\ pc' = "done"
                            /\ UNCHANGED <<attempt, cumulative, ledger>>
       [] OTHER -> IF IsRetryCandidate(how) THEN Spend("provider", TRUE, Consumed)
                   ELSE Stop("provider", TRUE, Consumed, "failed")
  /\ UNCHANGED <<left, estimate>>

\* deadline.require("immediately after invocation returns"), then the checks
\* of the response in their order.
Respond(how) ==
  /\ pc = "calling"
  /\ calls' = Ended(how)
  /\ IF left = 0 THEN Spend("timeout", TRUE, Consumed)
     ELSE CASE how = "wrong_identity" -> Stop("governance", TRUE, Consumed, "raised")
            [] how = "over_budget"  -> Stop("budget", TRUE, Consumed, "failed_budget")
            [] how = "bad_contract" -> Stop("contract", TRUE, Consumed, "failed")
            [] OTHER -> /\ cumulative' = Consumed /\ pc' = "validated"
                        /\ UNCHANGED <<attempt, ledger, outcome>>
  /\ UNCHANGED <<left, estimate>>

\* Mutant: a response that was validated too late is not recorded.
SucceedUnrecorded ==
  /\ pc = "validated"
  /\ IF left = 0
     THEN /\ attempt' = attempt + 1 /\ pc' = "starting" /\ attempt < MaxAttempts
          /\ UNCHANGED <<cumulative, ledger, outcome>>
     ELSE /\ outcome' = "succeeded" /\ pc' = "done"
          /\ UNCHANGED <<attempt, cumulative, ledger>>
  /\ UNCHANGED <<left, estimate, calls>>

\* deadline.require("after live response validation")
Succeed ==
  /\ pc = "validated"
  /\ IF left = 0 THEN Spend("timeout", TRUE, cumulative)
     ELSE /\ outcome' = "succeeded" /\ pc' = "done"
          /\ UNCHANGED <<attempt, cumulative, ledger>>
  /\ UNCHANGED <<left, estimate, calls>>

\* Mutant: each attempt has a deadline of its own.
TickPerAttempt ==
  /\ pc # "done"
  /\ left' = IF left > 0 THEN left - 1 ELSE IF pc = "starting" THEN Timeout ELSE 0
  /\ UNCHANGED <<estimate, pc, attempt, cumulative, ledger, outcome, calls>>

Tick ==
  /\ pc # "done" /\ left > 0
  /\ left' = left - 1
  /\ UNCHANGED <<estimate, pc, attempt, cumulative, ledger, outcome, calls>>

Terminated == pc = "done" /\ UNCHANGED vars

-----------------------------------------------------------------------------
Init ==
  /\ left = Timeout /\ estimate \in Estimates
  /\ pc = "starting" /\ attempt = 1 /\ cumulative = 0
  /\ ledger = <<>> /\ outcome = "pending" /\ calls = <<>>

Runner == \/ Start \/ Authorize \/ Launch \/ Succeed
          \/ \E how \in Failures : Fail(how)
          \/ \E how \in Responses : Respond(how)

Next == Runner \/ Tick \/ Terminated

Spec == Init /\ [][Next]_vars

\* The loop runs and its adapter calls return (the executor enforces the
\* deadline it is given: WorkerCollector).
FairSpec == Spec /\ WF_vars(Runner)

-----------------------------------------------------------------------------
(* Properties.                                                             *)

Classes  == {"timeout", "model", "provider", "infrastructure", "governance",
             "budget", "contract"}
Outcomes == {"pending", "succeeded", "retry_exhausted", "failed_budget",
             "failed", "raised", "escaped"}

TypeOK ==
  /\ left \in 0..Timeout /\ estimate \in Estimates
  /\ pc \in {"starting", "authorizing", "launching", "calling", "validated",
             "done"}
  /\ attempt \in 1..MaxAttempts /\ cumulative \in Nat
  /\ ledger \in Seq([class : Classes, began : BOOLEAN,
                     decision : {"retry", "stop"}, cumulative : Nat])
  /\ outcome \in Outcomes
  /\ calls \in Seq([attempt : 1..MaxAttempts,
                    end : Failures \cup Responses \cup {"pending"}])

\* However the attempts end, the input of all calls together stays within the
\* stage's ceiling (the runner's F2: enforced before every call, on a
\* cumulative estimate).
CallsFitCeiling == Len(calls) * estimate <= MaxInput

\* The records account for every call and for nothing else: a record's
\* cumulative input is that of the calls made up to its attempt, timed-out and
\* failed ones included, and it says invocation_began only if one was made.
CallsOf(i) == {c \in DOMAIN calls : calls[c].attempt = i}
LedgerIsTrue ==
  \A i \in DOMAIN ledger :
    /\ ledger[i].began <=> CallsOf(i) # {}
    /\ \A c \in CallsOf(i) : ledger[i].cumulative = c * estimate
    /\ CallsOf(i) = {} => ledger[i].cumulative =
                            IF i = 1 THEN 0 ELSE ledger[i - 1].cumulative

\* Every attempt has exactly one record, which says "retry" unless the attempt
\* was the last one; only a success, recorded when it is promoted, and an
\* exception the loop does not handle leave the last attempt without one.
OneRecordPerAttempt ==
  /\ Len(ledger) = IF pc = "done" /\ outcome \notin {"succeeded", "escaped"}
                   THEN attempt ELSE attempt - 1
  /\ \A i \in DOMAIN ledger : ledger[i].decision = "stop" <=> i = attempt

\* Only a model failure or a transient provider failure is ever followed by
\* another call: not a permanent one, nor a fault of the harness (F9), nor a
\* response, nor a timeout, because the deadline is one for all attempts.
OnlyTransientRetried ==
  \A c \in 1..Len(calls) - 1 : calls[c].end \in Retryable \cup {"model"}

\* retry_exhausted means that every attempt the stage was allowed is on record
\* and the last one did not fail for good.
ExhaustedIsSpent ==
  outcome = "retry_exhausted" =>
    /\ Len(ledger) = MaxAttempts
    /\ ledger[MaxAttempts].class \in {"timeout", "model", "provider"}
    /\ ledger[MaxAttempts].class = "provider" =>
         calls[Len(calls)].end \in Retryable

\* The loop ends.
LoopEnds == <>(pc = "done")
=============================================================================
