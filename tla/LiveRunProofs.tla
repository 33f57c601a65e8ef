---------------------------- MODULE LiveRunProofs ----------------------------
(***************************************************************************)
(* Proofs about LiveRun: for every number of stages, timeout and set of    *)
(* models, what a run against the provider leaves is what its verifier     *)
(* accepts.                                                                *)
(***************************************************************************)
EXTENDS LiveRun, TLAPS

-----------------------------------------------------------------------------
(* The inductive invariant: earlier stages are sealed, later ones          *)
(* untouched, and what the present one has depends on the place.           *)

Accepted == [kind |-> "success", model |-> WireModel]

\* A record is true to the journal beside it and to the policy.
RecordTrue(s) == LET r == record[s] IN
  /\ journal[s].prepared
  /\ r.lifecycle = journal[s] /\ r.observed = journal[s].outcome
  /\ r.received \in {NoOutcome, journal[s].outcome}
  /\ journal[s].granted > 0 => r.timeout = journal[s].granted
  /\ r.identity = Expected(r)
  /\ r.decision = "stop" =>
       /\ ~r.promoted
       /\ Expected(r) = "failed" =>
            r.rationale = "identity_policy_rejected" /\ r.failure = "governance"
       /\ Late(r) => /\ r.rationale = "retry_budget_exhausted"
                     /\ r.failure = "timeout" /\ r.contract = "not_evaluated"
  /\ r.decision = "promote" =>
       /\ r.rationale = "stage_succeeded" /\ r.failure = "none"
       /\ r.contract = "passed" /\ r.identity = "passed" /\ r.promoted
       /\ r.received = Accepted /\ r.latency < r.timeout
       /\ journal[s].outcome = Accepted /\ journal[s].granted > 0

SealedAt(s) ==
  /\ seal[s] = journal[s] /\ journal[s].prepared /\ journal[s].closed
  /\ record[s] # NoRecord /\ record[s].decision = "promote"

Unsealed(s)   == ~files[s] /\ seal[s] = NoJournal
Unrecorded(s) == record[s] = NoRecord /\ seal[s] = NoJournal
Fresh(s)      == journal[s] = NoJournal /\ record[s] = NoRecord /\ Unsealed(s)
Stopped(s)    == record[s] # NoRecord /\ record[s].decision = "stop"

Past   == \A s \in Stage : s < st => RecordTrue(s) /\ SealedAt(s)
Future == \A s \in Stage : s > st => Fresh(s)

\* What holds of the present stage at every place.
Present ==
  /\ record[st] # NoRecord => RecordTrue(st)
  /\ Stopped(st) => /\ Unsealed(st)
                    /\ pc \in {"recorded", "reconciling", "terminal", "done"}
  /\ seal[st] # NoJournal =>
       /\ SealedAt(st)
       /\ pc \in {"confirming", "evaluating", "reconciling", "terminal", "done"}

\* What holds of it at each.
Placed ==
  /\ pc \in {"preflight", "starting"} => Fresh(st)
  /\ pc \in {"admitting", "calling"} =>
       journal[st] = Prepared /\ record[st] = NoRecord /\ Unsealed(st)
  /\ pc = "returned" =>
       /\ journal[st].prepared /\ journal[st].granted = grant
       /\ record[st] = NoRecord /\ Unsealed(st)
       /\ ending \in {"expired", "failed", "transient", "final", "answered"}
       /\ ending = "answered" =>
            /\ journal[st].closed /\ answer = journal[st].outcome
            /\ answer \in Outcomes
  /\ pc = "recorded" => Stopped(st)
  /\ pc \in {"promoting", "binding", "sealing", "confirming"} =>
       /\ journal[st].prepared /\ journal[st].closed /\ journal[st].granted = grant
       /\ journal[st].outcome = Accepted /\ answer = Accepted /\ latency < grant
  /\ pc \in {"promoting", "binding"} => Unrecorded(st)
  /\ pc = "sealing" => record[st] # NoRecord
  /\ pc \in {"confirming", "evaluating"} => seal[st] # NoJournal
  /\ pc = "evaluating" => st = NStages /\ succeeded = NStages

\* The run's status, and what it says of a stopped attempt.
Standing ==
  /\ left <= grant
  /\ succeeded \in {st - 1, st}
  /\ succeeded = st =>
       /\ seal[st] # NoJournal
       /\ pc \in {"evaluating", "reconciling", "terminal", "done"}
  /\ evaluated => /\ st = NStages /\ seal[st] # NoJournal
                  /\ pc \in {"terminal", "done"}
  /\ pc \in {"terminal", "done"} =>
       /\ status \in {"succeeded", "failed_evaluation"} => evaluated
       /\ Stopped(st) /\ ~disowned =>
            /\ Expected(record[st]) = "failed" => status = "failed_governance"
            /\ Late(record[st]) => status = "retry_exhausted"
  /\ pc = "reconciling" /\ Stopped(st) /\ ~disowned =>
       Expected(record[st]) # "failed" /\ ~Late(record[st])

Ending ==
  /\ pc # "done" => terminal = NoTerminal
  /\ pc = "done" => terminal = [status |-> status, succeeded |-> succeeded,
                                inventory |-> journal]

IInv == TypeOK /\ Past /\ Future /\ Present /\ Placed /\ Standing /\ Ending

-----------------------------------------------------------------------------
(* Facts about the data.                                                   *)

LEMMA StageFacts == /\ 1 \in Stage /\ NStages \in Stage /\ Stage \subseteq Nat
                    /\ \A s \in Stage : s <= NStages
BY LiveAssumption DEF Stage

LEMMA OutcomeFacts ==
  /\ Accepted \in Outcomes /\ NoOutcome \in Durable /\ Outcomes \subseteq Durable
  /\ \A o \in Outcomes : o # NoOutcome /\ o.kind \in {"success", "transient", "final"}
  /\ \A o \in Outcomes : o.kind # "success" => o.model = NoModel
BY LiveAssumption DEF Accepted, Outcomes, Durable, NoOutcome

LEMMA JournalFacts ==
  /\ NoJournal \in Journals /\ Prepared \in Journals /\ Prepared # NoJournal
  /\ ~NoJournal.prepared /\ NoJournal.granted = 0
  /\ Prepared.prepared /\ Prepared.granted = 0 /\ Prepared.outcome = NoOutcome
BY LiveAssumption, OutcomeFacts DEF NoJournal, Prepared, Journals

LEMMA RecordFacts == \A r \in Records : r # NoRecord /\ r.decision \in {"promote", "stop"}
BY DEF Records, NoRecord

\* Only an answer in time has a verdict, and only the wire model passes.
LEMMA VerdictFacts ==
  ASSUME NEW o \in Durable, NEW timeout \in Nat, NEW elapsed \in Nat
  PROVE  /\ IdentityVerdict(o, timeout, elapsed) \in {"passed", "failed", "not_evaluated"}
         /\ IdentityVerdict(o, timeout, elapsed) = "passed" =>
              o = Accepted /\ elapsed < timeout
         /\ IdentityVerdict(o, timeout, elapsed) = "failed" =>
              o.kind = "success" /\ elapsed < timeout
         /\ o.kind = "success" /\ IdentityVerdict(o, timeout, elapsed) = "not_evaluated"
              => ~(elapsed < timeout)
         /\ o.kind # "success" => IdentityVerdict(o, timeout, elapsed) = "not_evaluated"
<1>1. o.kind = "success" /\ o.model = WireModel => o = Accepted
  BY LiveAssumption DEF Accepted, Outcomes, Durable, NoOutcome
<1> QED
  BY <1>1 DEF IdentityVerdict, Eligible

-----------------------------------------------------------------------------
(* What one stage does does not disturb the others.                        *)

\* A step that writes at the present stage only.
Local ==
  /\ st' = st
  /\ \A s \in Stage : s # st =>
       /\ journal'[s] = journal[s] /\ record'[s] = record[s]
       /\ files'[s] = files[s] /\ seal'[s] = seal[s]

LEMMA Elsewhere ==
  ASSUME Past, Future, st \in Stage, Local
  PROVE  Past' /\ Future'
<1>1. ASSUME NEW s \in Stage, s < st
      PROVE  RecordTrue(s)' /\ SealedAt(s)'
  <2>1. s # st
    BY <1>1, StageFacts
  <2> QED
    BY <1>1, <2>1 DEF Past, Local, RecordTrue, SealedAt
<1>2. ASSUME NEW s \in Stage, s > st
      PROVE  Fresh(s)'
  <2>1. s # st
    BY <1>2, StageFacts
  <2> QED
    BY <1>2, <2>1 DEF Future, Local, Fresh, Unsealed
<1> QED
  BY <1>1, <1>2 DEF Past, Future, Local

LEMMA LocalFacts ==
  ASSUME TypeOK, st' = st,
         journal' = journal \/ \E j : journal' = [journal EXCEPT ![st] = j],
         record' = record \/ \E r : record' = [record EXCEPT ![st] = r],
         files' = files \/ \E f : files' = [files EXCEPT ![st] = f],
         seal' = seal \/ \E j : seal' = [seal EXCEPT ![st] = j]
  PROVE  Local
BY DEF TypeOK, Local

\* The record of a stopped attempt is true if its verdict is the policy's.
LEMMA Recording ==
  ASSUME IInv, pc \in {"admitting", "returned"}, NEW r, Record(r), st' = st,
         r.rationale \in Rationales, r.failure \in Failures,
         r.contract \in {"passed", "failed", "not_evaluated"},
         r.received \in {NoOutcome, journal[st].outcome},
         r.identity = IF r.received = NoOutcome THEN "not_evaluated"
                      ELSE IdentityVerdict(r.received, grant, latency),
         r.identity = "failed" =>
           r.rationale = "identity_policy_rejected" /\ r.failure = "governance",
         r.received.kind = "success" /\ r.identity = "not_evaluated" =>
           /\ r.rationale = "retry_budget_exhausted"
           /\ r.failure = "timeout" /\ r.contract = "not_evaluated"
  PROVE  /\ journal' \in [Stage -> Journals]
         /\ record' \in [Stage -> Records \cup {NoRecord}]
         /\ RecordTrue(st)' /\ Stopped(st)'
         /\ \E j : journal' = [journal EXCEPT ![st] = j]
         /\ \E q : record' = [record EXCEPT ![st] = q]
<1> DEFINE j == IF journal[st].granted = 0 THEN [journal[st] EXCEPT !.closed = TRUE]
                ELSE journal[st]
           q == [decision |-> "stop", rationale |-> r.rationale,
                 contract |-> r.contract, identity |-> r.identity,
                 failure |-> r.failure, received |-> r.received,
                 timeout |-> grant, latency |-> latency,
                 lifecycle |-> j, observed |-> j.outcome, promoted |-> FALSE]
<1>1. journal' = [journal EXCEPT ![st] = j] /\ record' = [record EXCEPT ![st] = q]
  BY DEF Record
<1>2. /\ journal \in [Stage -> Journals] /\ record \in [Stage -> Records \cup {NoRecord}]
      /\ st \in Stage /\ grant \in 1..Timeout /\ latency \in 0..Timeout
  BY DEF IInv, TypeOK
<1>3. /\ j \in Journals /\ j.prepared /\ j.outcome = journal[st].outcome
      /\ j.granted = journal[st].granted /\ (j.granted > 0 => grant = j.granted)
  <2>1. journal[st] \in Journals /\ journal[st].prepared
    BY <1>2, JournalFacts DEF IInv, Placed
  <2>2. journal[st].granted > 0 => grant = journal[st].granted
    BY JournalFacts DEF IInv, Placed
  <2> QED
    BY <2>1, <2>2 DEF Journals
<1>4. j.outcome \in Durable /\ r.received \in Durable
  BY <1>3, OutcomeFacts DEF Journals
<1>5. r.identity \in {"passed", "failed", "not_evaluated"}
  BY <1>2, <1>4, VerdictFacts, LiveAssumption
<1>6. q \in Records
  BY <1>2, <1>3, <1>4, <1>5 DEF Records
<1>7. journal'[st] = j /\ record'[st] = q
  BY <1>1, <1>2
<1>8. q.identity = Expected(q) /\ (Late(q) <=> r.received.kind = "success" /\ r.identity = "not_evaluated")
  BY DEF Expected, Late
<1>9. RecordTrue(st)'
  BY <1>3, <1>7, <1>8 DEF RecordTrue
<1>10. Stopped(st)'
  BY <1>6, <1>7, RecordFacts DEF Stopped
<1> QED
  BY <1>1, <1>2, <1>3, <1>6, <1>9, <1>10

-----------------------------------------------------------------------------
(* Initial states and steps.                                               *)

LEMMA InitInvariant == Init => IInv
<1> SUFFICES ASSUME Init PROVE IInv
  OBVIOUS
<1>1. TypeOK
  <2>1. journal \in [Stage -> Journals] /\ seal \in [Stage -> Journals]
    BY JournalFacts DEF Init
  <2>2. /\ record \in [Stage -> Records \cup {NoRecord}]
        /\ files \in [Stage -> BOOLEAN]
    BY DEF Init
  <2>3. /\ st \in Stage /\ left \in 0..Timeout /\ grant \in 1..Timeout
        /\ latency \in 0..Timeout /\ succeeded \in 0..NStages /\ answer \in Durable
    BY StageFacts, OutcomeFacts, LiveAssumption DEF Init
  <2> QED
    BY <2>1, <2>2, <2>3 DEF Init, TypeOK, StatusValues
<1>2. Past /\ Future /\ Fresh(st)
  BY StageFacts DEF Init, Past, Future, Fresh, Unsealed, Stage
<1>3. Present /\ Placed /\ Standing /\ Ending
  BY <1>2, StageFacts, LiveAssumption
     DEF Init, Present, Placed, Standing, Ending, Fresh, Unsealed, Stopped
<1> QED
  BY <1>1, <1>2, <1>3 DEF IInv

LEMMA TickStep == IInv /\ Tick => IInv'
<1> SUFFICES ASSUME IInv, Tick PROVE IInv'
  OBVIOUS
<1>1. UNCHANGED <<journal, record, files, seal, evaluated, terminal, pc, st, grant,
                  ending, answer, latency, status, succeeded, disowned>>
      /\ left' = left - 1 /\ left > 0
  BY DEF Tick, evidence, verdict
<1>2. TypeOK' /\ left' <= grant'
  BY <1>1, LiveAssumption DEF IInv, TypeOK, Standing
<1>3. Past' /\ Future'
  BY <1>1, Elsewhere DEF IInv, TypeOK, Local
<1>4. Present' /\ Placed' /\ Ending'
  BY <1>1 DEF IInv, Present, Placed, Ending, RecordTrue, SealedAt, Unsealed,
     Unrecorded, Stopped, Fresh
<1>5. Standing'
  BY <1>1, <1>2 DEF IInv, Standing, Stopped
<1> QED
  BY <1>2, <1>3, <1>4, <1>5 DEF IInv

\* Steps of the control that leave the run directory alone.
LEMMA ControlStep == IInv /\ (Preflight \/ GrantTime \/ Accept) => IInv'
<1> SUFFICES ASSUME IInv, Preflight \/ GrantTime \/ Accept PROVE IInv'
  OBVIOUS
<1>1. UNCHANGED <<journal, record, files, seal, evaluated, terminal, st, left,
                  ending, answer, latency, succeeded, disowned>>
  BY DEF Preflight, GrantTime, Accept, evidence, verdict, attempt
<1>2. Past' /\ Future'
  BY <1>1, Elsewhere DEF IInv, TypeOK, Local
<1>3. CASE Preflight
  <2>1. TypeOK'
    BY <1>1, <1>3 DEF IInv, TypeOK, Preflight, Goto, attempt, StatusValues
  <2>2. Present' /\ Placed' /\ Standing' /\ Ending'
    BY <1>1, <1>3, StageFacts DEF IInv, TypeOK, Present, Placed, Standing, Ending,
       Unsealed, Stopped, Fresh, Preflight, Goto, attempt
  <2> QED
    BY <1>2, <2>1, <2>2 DEF IInv
<1>4. CASE GrantTime
  <2>1. TypeOK' /\ left' <= grant'
    BY <1>1, <1>4 DEF IInv, TypeOK, GrantTime, Goto, verdict
  <2>2. Present' /\ Placed' /\ Standing' /\ Ending'
    BY <1>1, <1>4, <2>1 DEF IInv, Present, Placed, Standing, Ending, Unsealed, Stopped,
       GrantTime, Goto, verdict
  <2> QED
    BY <1>2, <2>1, <2>2 DEF IInv
<1>5. CASE Accept
  <2>1. TypeOK'
    BY <1>1, <1>5 DEF IInv, TypeOK, Accept, Goto, attempt, verdict
  <2>2. answer = Accepted /\ latency < grant
    BY <1>5, VerdictFacts, LiveAssumption DEF IInv, TypeOK, Accept
  <2>3. Present' /\ Placed' /\ Standing' /\ Ending'
    BY <1>1, <1>5, <2>2 DEF IInv, Present, Placed, Standing, Ending, Unsealed,
       Unrecorded, Stopped, Accept, Goto, attempt, verdict
  <2> QED
    BY <1>2, <2>1, <2>3 DEF IInv
<1> QED
  BY <1>3, <1>4, <1>5

LEMMA StartStep == IInv /\ StartStage => IInv'
<1> SUFFICES ASSUME IInv, StartStage PROVE IInv'
  OBVIOUS
<1>1. /\ journal' = [journal EXCEPT ![st] = Prepared] /\ pc = "starting"
      /\ pc' = "admitting" /\ left' = Timeout /\ grant' = Timeout
      /\ ending' = "none" /\ answer' = NoOutcome /\ latency' = 0
      /\ UNCHANGED <<record, files, seal, evaluated, terminal, st, status,
                     succeeded, disowned>>
  BY DEF StartStage, Goto, verdict
<1>2. TypeOK'
  BY <1>1, JournalFacts, OutcomeFacts, LiveAssumption DEF IInv, TypeOK
<1>3. Past' /\ Future'
  BY <1>1, Elsewhere, LocalFacts DEF IInv, TypeOK
<1>4. journal'[st] = Prepared /\ Fresh(st)
  BY <1>1 DEF IInv, TypeOK, Placed
<1>5. Present' /\ Placed' /\ Standing' /\ Ending'
  BY <1>1, <1>4, LiveAssumption DEF IInv, Present, Placed, Standing, Ending,
     Fresh, Unsealed, Stopped
<1> QED
  BY <1>2, <1>3, <1>5 DEF IInv

\* What the two steps that record a stopped attempt have in common.
LEMMA RecordedState ==
  ASSUME IInv, pc \in {"admitting", "returned"}, pc' = "recorded",
         UNCHANGED <<files, seal, evaluated, terminal, st, left, grant, ending,
                     answer, latency, status, succeeded, disowned>>,
         journal' \in [Stage -> Journals],
         record' \in [Stage -> Records \cup {NoRecord}],
         RecordTrue(st)', Stopped(st)',
         \E j : journal' = [journal EXCEPT ![st] = j],
         \E q : record' = [record EXCEPT ![st] = q]
  PROVE  IInv'
<1>1. TypeOK'
  BY DEF IInv, TypeOK
<1>2. Past' /\ Future'
  BY Elsewhere, LocalFacts DEF IInv, TypeOK
<1>3. Unsealed(st)'
  BY DEF IInv, Placed, Unsealed
<1>4. Present' /\ Placed' /\ Standing' /\ Ending'
  BY <1>3 DEF IInv, Present, Placed, Standing, Ending, Unsealed
<1> QED
  BY <1>1, <1>2, <1>4 DEF IInv

\* The attempt is refused before it began.
LEMMA RefuseStep == IInv /\ RefuseAttempt => IInv'
<1> SUFFICES ASSUME IInv, RefuseAttempt PROVE IInv'
  OBVIOUS
<1>1. /\ pc = "admitting" /\ pc' = "recorded"
      /\ UNCHANGED <<files, seal, evaluated, terminal, st, left, grant, ending,
                     answer, latency, status, succeeded, disowned>>
  BY DEF RefuseAttempt, Goto, verdict, attempt
<1>2. PICK r : /\ Record(r) /\ r.identity = "not_evaluated"
               /\ r.received = NoOutcome /\ r.contract = "not_evaluated"
               /\ r.rationale \in Rationales /\ r.failure \in Failures
  BY DEF RefuseAttempt, Unjudged, Rationales, Failures
<1>3. /\ journal' \in [Stage -> Journals]
      /\ record' \in [Stage -> Records \cup {NoRecord}]
      /\ RecordTrue(st)' /\ Stopped(st)'
      /\ \E j : journal' = [journal EXCEPT ![st] = j]
      /\ \E q : record' = [record EXCEPT ![st] = q]
  <2>1. r.received.kind # "success"
    BY <1>2 DEF NoOutcome
  <2> QED
    BY <1>1, <1>2, <2>1, Recording
<1> QED
  BY <1>1, <1>3, RecordedState

\* The attempt is stopped after the call.
LEMMA StopStep == IInv /\ StopAttempt => IInv'
<1> SUFFICES ASSUME IInv, StopAttempt PROVE IInv'
  OBVIOUS
<1>1. /\ pc = "returned" /\ pc' = "recorded"
      /\ UNCHANGED <<files, seal, evaluated, terminal, st, left, grant, ending,
                     answer, latency, status, succeeded, disowned>>
  BY DEF StopAttempt, Goto, verdict, attempt
<1> DEFINE Judged(r) ==
      /\ Record(r) /\ r.rationale \in Rationales /\ r.failure \in Failures
      /\ r.contract \in {"passed", "failed", "not_evaluated"}
      /\ r.received \in {NoOutcome, journal[st].outcome}
      /\ r.identity = IF r.received = NoOutcome THEN "not_evaluated"
                      ELSE IdentityVerdict(r.received, grant, latency)
      /\ r.identity = "failed" =>
           r.rationale = "identity_policy_rejected" /\ r.failure = "governance"
      /\ r.received.kind = "success" /\ r.identity = "not_evaluated" =>
           /\ r.rationale = "retry_budget_exhausted"
           /\ r.failure = "timeout" /\ r.contract = "not_evaluated"
<1>2. ending = "answered" => answer = journal[st].outcome /\ answer \in Outcomes
  BY <1>1 DEF IInv, Placed
<1>3. grant \in Nat /\ latency \in Nat
  BY LiveAssumption DEF IInv, TypeOK
<1>4. ASSUME NEW r, Record(r), r.rationale \in Rationales, r.failure \in Failures,
             r.contract = "not_evaluated", r.identity = "not_evaluated",
             r.received = NoOutcome
      PROVE  Judged(r)
  BY <1>4 DEF NoOutcome
<1>5. \E r : Judged(r)
  <2>1. CASE CallFailed
    <3>1. \E r : Judged(r)
      BY <1>4, <2>1 DEF CallFailed, Unjudged, Rationales, Failures
    <3> QED
      BY <3>1
  <2>2. CASE ending = "answered" /\ Unmapped
    BY <1>4, <2>2 DEF Unmapped, Unjudged, Rationales, Failures
  <2>3. CASE ending = "answered" /\ ProviderFailed
    <3>1. PICK r : /\ Record(r) /\ r.rationale \in {"retry_budget_exhausted", "provider_nonretryable"}
                   /\ r.failure = "provider" /\ r.contract = "not_evaluated"
                   /\ r.identity = "not_evaluated" /\ r.received = answer
                   /\ answer.kind # "success"
      BY <2>3 DEF ProviderFailed, Unjudged
    <3>2. answer # NoOutcome /\ IdentityVerdict(answer, grant, latency) = "not_evaluated"
      BY <1>2, <1>3, <2>3, <3>1, VerdictFacts, OutcomeFacts
    <3> QED
      BY <1>2, <2>3, <3>1, <3>2 DEF Rationales, Failures
  <2>4. CASE ending = "answered" /\ CameLate
    <3>1. PICK r : /\ Record(r) /\ r.rationale = "retry_budget_exhausted"
                   /\ r.failure = "timeout" /\ r.contract = "not_evaluated"
                   /\ r.identity = "not_evaluated" /\ r.received = answer
      BY <2>4 DEF CameLate, Unjudged
    <3>2. answer # NoOutcome /\ IdentityVerdict(answer, grant, latency) = "not_evaluated"
      BY <1>2, <2>4, OutcomeFacts DEF CameLate, IdentityVerdict
    <3> QED
      BY <1>2, <2>4, <3>1, <3>2 DEF Rationales, Failures
  <2>5. CASE ending = "answered" /\ WrongModel
    <3>1. PICK r : /\ Record(r) /\ r.rationale = "identity_policy_rejected"
                   /\ r.failure = "governance" /\ r.contract = "not_evaluated"
                   /\ r.identity = "failed" /\ r.received = answer
      BY <2>5 DEF WrongModel
    <3>2. answer # NoOutcome
      BY <1>2, <2>5, OutcomeFacts
    <3> QED
      BY <1>2, <2>5, <3>1, <3>2 DEF WrongModel, Rationales, Failures
  <2>6. CASE ending = "answered" /\ Unfit
    <3>1. PICK r : /\ Record(r) /\ r.rationale \in Rationales /\ r.failure \in Failures
                   /\ r.contract \in {"passed", "failed", "not_evaluated"}
                   /\ r.identity = "passed" /\ r.received = answer
      BY <2>6 DEF Unfit, Rationales, Failures
    <3>2. answer # NoOutcome
      BY <1>2, <2>6, OutcomeFacts
    <3> QED
      BY <1>2, <2>6, <3>1, <3>2 DEF Unfit
  <2> QED
    BY <2>1, <2>2, <2>3, <2>4, <2>5, <2>6 DEF StopAttempt
<1>6. PICK r : Judged(r)
  BY <1>5
<1>7. /\ journal' \in [Stage -> Journals]
      /\ record' \in [Stage -> Records \cup {NoRecord}]
      /\ RecordTrue(st)' /\ Stopped(st)'
      /\ \E j : journal' = [journal EXCEPT ![st] = j]
      /\ \E q : record' = [record EXCEPT ![st] = q]
  BY <1>1, <1>6, Recording
<1> QED
  BY <1>1, <1>7, RecordedState

LEMMA FailStep == IInv /\ FailStage => IInv'
<1> SUFFICES ASSUME IInv, FailStage PROVE IInv'
  OBVIOUS
<1>1. /\ pc = "recorded" /\ pc' = "terminal"
      /\ UNCHANGED <<journal, record, files, seal, evaluated, terminal, st, left,
                     grant, ending, answer, latency, succeeded, disowned>>
  BY DEF FailStage, Goto, evidence, attempt
<1>2. /\ Stopped(st) /\ RecordTrue(st) /\ seal[st] = NoJournal /\ ~evaluated
  BY <1>1 DEF IInv, Placed, Present, Standing, Stopped, Unsealed
<1>3. /\ status' \in StatusValues \ {"succeeded", "failed_evaluation"}
      /\ record[st].rationale = "identity_policy_rejected" => status' = "failed_governance"
      /\ record[st].rationale = "retry_budget_exhausted" => status' = "retry_exhausted"
  BY DEF FailStage, StatusValues
<1>4. TypeOK'
  BY <1>1, <1>3 DEF IInv, TypeOK
<1>5. Past' /\ Future'
  BY <1>1, Elsewhere DEF IInv, TypeOK, Local
<1>6. Present' /\ Placed' /\ Ending'
  BY <1>1, <1>2 DEF IInv, Present, Placed, Ending, RecordTrue, Unsealed, Stopped
<1>7. Standing'
  BY <1>1, <1>2, <1>3 DEF IInv, Standing, RecordTrue, Stopped
<1> QED
  BY <1>4, <1>5, <1>6, <1>7 DEF IInv

\* A call that is broken off leaves a journal at the present stage only.
LEMMA BrokenFacts ==
  ASSUME TypeOK, BrokenOff
  PROVE  /\ journal' \in [Stage -> Journals]
         /\ \E j : journal' = [journal EXCEPT ![st] = j]
<1>1. journal \in [Stage -> Journals] /\ st \in Stage /\ grant \in 0..Timeout
  BY LiveAssumption DEF TypeOK
<1>2. \E j \in Journals : journal' = [journal EXCEPT ![st] = j]
  <2>1. ASSUME NEW closed \in BOOLEAN, journal' = [journal EXCEPT ![st].closed = closed]
        PROVE  \E j \in Journals : journal' = [journal EXCEPT ![st] = j]
    <3>1. [journal[st] EXCEPT !.closed = closed] \in Journals
      BY <1>1 DEF Journals
    <3> QED
      BY <1>1, <2>1, <3>1
  <2>2. ASSUME NEW closed \in BOOLEAN, NEW durable \in Durable, Journaled(durable, closed)
        PROVE  \E j \in Journals : journal' = [journal EXCEPT ![st] = j]
    <3> DEFINE j == [prepared |-> TRUE, granted |-> grant, outcome |-> durable,
                     closed |-> closed]
    <3>1. journal' = [journal EXCEPT ![st] = j] /\ j \in Journals
      BY <1>1, <2>2 DEF Journaled, Journals
    <3> HIDE DEF j
    <3> QED
      BY <3>1
  <2> QED
    BY <2>1, <2>2 DEF BrokenOff
<1> QED
  BY <1>1, <1>2

\* The call: whatever it leaves in the journal, the answer is the durable one.
LEMMA CallStep == IInv /\ (CallEscapes \/ CallFails \/ CallBlamed \/ CallReturns) => IInv'
<1> SUFFICES ASSUME IInv, CallEscapes \/ CallFails \/ CallBlamed \/ CallReturns PROVE IInv'
  OBVIOUS
<1>1. /\ pc = "calling"
      /\ UNCHANGED <<record, files, seal, evaluated, terminal, st, left, grant,
                     succeeded, disowned>>
  BY DEF CallEscapes, CallFails, CallBlamed, CallReturns, verdict, attempt
<1>2. /\ journal[st] = Prepared /\ record[st] = NoRecord /\ Unsealed(st)
      /\ journal \in [Stage -> Journals] /\ st \in Stage
      /\ grant \in 1..Timeout /\ left \in 0..Timeout /\ left <= grant
  BY <1>1 DEF IInv, Placed, TypeOK, Standing
<1>3. ASSUME NEW durable \in Durable, NEW closed \in BOOLEAN, Journaled(durable, closed)
      PROVE  /\ journal' \in [Stage -> Journals]
             /\ journal'[st] = [prepared |-> TRUE, granted |-> grant,
                                outcome |-> durable, closed |-> closed]
             /\ \E j : journal' = [journal EXCEPT ![st] = j]
  <2> DEFINE j == [prepared |-> TRUE, granted |-> grant, outcome |-> durable,
                   closed |-> closed]
  <2>1. journal' = [journal EXCEPT ![st] = j]
    BY <1>3 DEF Journaled
  <2>2. grant \in 0..Timeout
    BY <1>2, LiveAssumption
  <2>3. j \in Journals
    BY <1>3, <2>2 DEF Journals
  <2> HIDE DEF j
  <2>4. journal' \in [Stage -> Journals] /\ journal'[st] = j
    BY <1>2, <2>1, <2>3
  <2> QED
    BY <2>1, <2>4 DEF j
<1>4. ASSUME NEW durable \in Durable, NEW closed \in BOOLEAN, Journaled(durable, closed),
             pc' = "returned", status' = status,
             ending' \in {"expired", "failed", "transient", "final", "answered"},
             answer' \in Durable, latency' \in 0..Timeout,
             ending' = "answered" => closed /\ answer' = durable /\ answer' \in Outcomes
      PROVE  IInv'
  <2>1. TypeOK'
    BY <1>1, <1>3, <1>4 DEF IInv, TypeOK
  <2>2. Past' /\ Future'
    BY <1>1, <1>3, <1>4, Elsewhere, LocalFacts DEF IInv, TypeOK
  <2>3. Unsealed(st)' /\ record'[st'] = NoRecord
    BY <1>1, <1>2 DEF Unsealed
  <2>4. /\ journal'[st'].prepared /\ journal'[st'].granted = grant'
        /\ ending' = "answered" => journal'[st'].closed /\ answer' = journal'[st'].outcome
    <3>1. journal'[st] = [prepared |-> TRUE, granted |-> grant, outcome |-> durable,
                          closed |-> closed]
      BY <1>3, <1>4
    <3>2. /\ journal'[st].prepared /\ journal'[st].granted = grant
          /\ journal'[st].outcome = durable /\ journal'[st].closed = closed
      BY <3>1
    <3> QED
      BY <1>1, <1>4, <3>2
  <2>5. Present' /\ Placed'
    BY <1>4, <2>3, <2>4 DEF Present, Placed, Unsealed, Stopped
  <2>6. Standing' /\ Ending'
    BY <1>1, <1>2, <1>4 DEF IInv, Standing, Ending, Stopped
  <2> QED
    BY <2>1, <2>2, <2>5, <2>6 DEF IInv
<1>5. CASE CallEscapes
  <2>1. /\ pc' = "terminal" /\ status' \in {"failed_governance", "infrastructure_failure"}
        /\ UNCHANGED <<ending, answer, latency>>
    BY <1>5 DEF CallEscapes, Goto, attempt
  <2>2. BrokenOff
    BY <1>5 DEF CallEscapes
  <2>3. /\ journal' \in [Stage -> Journals]
        /\ \E j : journal' = [journal EXCEPT ![st] = j]
    BY <2>2, BrokenFacts DEF IInv
  <2>4. TypeOK'
    BY <1>1, <2>1, <2>3 DEF IInv, TypeOK, StatusValues
  <2>5. Past' /\ Future'
    BY <1>1, <2>3, Elsewhere, LocalFacts DEF IInv, TypeOK
  <2>6. Present' /\ Placed' /\ Standing' /\ Ending'
    BY <1>1, <1>2, <2>1 DEF IInv, Present, Placed, Standing, Ending, Unsealed, Stopped
  <2> QED
    BY <2>4, <2>5, <2>6 DEF IInv
<1>6. CASE CallFails
  <2>1. PICK durable \in Durable, closed \in BOOLEAN :
          Journaled(durable, closed) /\ ending' \in {"expired", "failed"}
    BY <1>6 DEF CallFails
  <2>2. pc' = "returned" /\ status' = status /\ answer' \in Durable /\ latency' \in 0..Timeout
    BY <1>6 DEF CallFails, Goto, verdict, IInv, TypeOK
  <2> QED
    BY <1>4, <2>1, <2>2
<1>7. CASE CallReturns
  <2>1. PICK o \in Outcomes, durable \in Durable :
          /\ Journaled(durable, TRUE)
          /\ IF o = durable
             THEN ending' = "answered" /\ answer' = o /\ latency' = grant - left
             ELSE ending' = "failed" /\ UNCHANGED <<answer, latency>>
    BY <1>7 DEF CallReturns, Matches
  <2>2. pc' = "returned" /\ status' = status
    BY <1>7 DEF CallReturns, Goto, verdict
  <2>3. grant - left \in 0..Timeout
    BY <1>2, LiveAssumption
  <2>4. answer' \in Durable /\ latency' \in 0..Timeout
    BY <2>1, <2>3 DEF IInv, TypeOK
  <2> QED
    BY <1>4, <2>1, <2>2, <2>4
<1>8. CASE CallBlamed
  <2>1. PICK durable \in Durable : Journaled(durable, TRUE) /\ ending' \in {"transient", "final"}
    BY <1>8 DEF CallBlamed
  <2>2. pc' = "returned" /\ status' = status /\ answer' \in Durable /\ latency' \in 0..Timeout
    BY <1>8 DEF CallBlamed, Goto, verdict, IInv, TypeOK
  <2> QED
    BY <1>4, <2>1, <2>2
<1> QED
  BY <1>5, <1>6, <1>7, <1>8

\* The stage transaction.
LEMMA PromoteStep == IInv /\ Promote => IInv'
<1> SUFFICES ASSUME IInv, Promote PROVE IInv'
  OBVIOUS
<1>1. /\ pc = "promoting" /\ pc' = "binding" /\ files' = [files EXCEPT ![st] = TRUE]
      /\ UNCHANGED <<journal, record, seal, evaluated, terminal, st, left, grant,
                     ending, answer, latency, status, succeeded, disowned>>
  BY DEF Promote, Goto, verdict, attempt
<1>2. TypeOK'
  BY <1>1 DEF IInv, TypeOK
<1>3. Past' /\ Future'
  BY <1>1, Elsewhere, LocalFacts DEF IInv, TypeOK
<1>4. Present' /\ Placed' /\ Standing' /\ Ending'
  BY <1>1 DEF IInv, Present, Placed, Standing, Ending, Unrecorded, Stopped
<1> QED
  BY <1>2, <1>3, <1>4 DEF IInv

LEMMA BindStep == IInv /\ Bind => IInv'
<1> SUFFICES ASSUME IInv, Bind PROVE IInv'
  OBVIOUS
<1>1. /\ pc = "binding" /\ pc' = "sealing" /\ record' = [record EXCEPT ![st] = Promoted]
      /\ UNCHANGED <<journal, files, seal, evaluated, terminal, st, left, grant,
                     ending, answer, latency, status, succeeded, disowned>>
  BY DEF Bind, Goto, verdict, attempt
<1>2. /\ journal[st].prepared /\ journal[st].granted = grant
      /\ journal[st].outcome = Accepted /\ answer = Accepted /\ latency < grant
      /\ seal[st] = NoJournal /\ grant \in 1..Timeout /\ latency \in 0..Timeout
      /\ journal[st] \in Journals /\ st \in Stage
      /\ record \in [Stage -> Records \cup {NoRecord}]
  BY <1>1 DEF IInv, Placed, Unrecorded, TypeOK
<1>3. Promoted \in Records /\ Promoted # NoRecord /\ Promoted.decision = "promote"
  <2>1. Promoted \in Records
    BY <1>2, OutcomeFacts DEF Promoted, Records, Rationales, Failures
  <2> QED
    BY <2>1, RecordFacts DEF Promoted
<1>4. record'[st] = Promoted
  BY <1>1, <1>2
<1>5. RecordTrue(st)'
  <2>1. Expected(Promoted) = "passed"
    BY <1>2, OutcomeFacts, LiveAssumption
       DEF Promoted, Expected, IdentityVerdict, Eligible, Accepted
  <2>2. /\ Promoted.lifecycle = journal[st] /\ Promoted.observed = journal[st].outcome
        /\ Promoted.received = Accepted /\ Promoted.timeout = grant
        /\ Promoted.latency = latency /\ Promoted.identity = "passed"
        /\ Promoted.rationale = "stage_succeeded" /\ Promoted.failure = "none"
        /\ Promoted.contract = "passed" /\ Promoted.promoted
    BY <1>2 DEF Promoted
  <2>3. grant > 0
    BY <1>2, LiveAssumption
  <2>4. record'[st'] = Promoted /\ journal'[st'] = journal[st]
    BY <1>1, <1>4
  <2> QED
    BY <1>2, <1>3, <2>1, <2>2, <2>3, <2>4 DEF RecordTrue
<1>6. TypeOK'
  BY <1>1, <1>2, <1>3 DEF IInv, TypeOK
<1>7. Past' /\ Future'
  BY <1>1, Elsewhere, LocalFacts DEF IInv, TypeOK
<1>8. Present' /\ Placed' /\ Standing' /\ Ending'
  BY <1>1, <1>2, <1>3, <1>4, <1>5 DEF IInv, Present, Placed, Standing, Ending, Stopped
<1> QED
  BY <1>6, <1>7, <1>8 DEF IInv

LEMMA SealStep == IInv /\ Seal => IInv'
<1> SUFFICES ASSUME IInv, Seal PROVE IInv'
  OBVIOUS
<1>1. /\ pc = "sealing" /\ pc' = "confirming"
      /\ seal' = [seal EXCEPT ![st] = journal[st]]
      /\ UNCHANGED <<journal, record, files, evaluated, terminal, st, left, grant,
                     ending, answer, latency, status, succeeded, disowned>>
  BY DEF Seal, Goto, verdict, attempt
<1>2. /\ journal[st].prepared /\ journal[st].closed /\ record[st] # NoRecord
      /\ ~Stopped(st) /\ st \in Stage /\ journal[st] \in Journals
      /\ record[st] \in Records
  BY <1>1 DEF IInv, Placed, Present, TypeOK
<1>3. /\ seal'[st] = journal[st] /\ journal[st] # NoJournal
      /\ record[st].decision = "promote"
  BY <1>1, <1>2, JournalFacts, RecordFacts DEF IInv, TypeOK, Stopped
<1>4. TypeOK'
  BY <1>1, <1>2 DEF IInv, TypeOK
<1>5. Past' /\ Future'
  BY <1>1, Elsewhere, LocalFacts DEF IInv, TypeOK
<1>6. Present' /\ Placed'
  BY <1>1, <1>2, <1>3 DEF IInv, Present, Placed, RecordTrue, SealedAt, Stopped
<1>7. Standing' /\ Ending'
  BY <1>1 DEF IInv, Standing, Ending, Stopped
<1> QED
  BY <1>4, <1>5, <1>6, <1>7 DEF IInv

\* The stage is over: it joins the past, and the next one is untouched.
LEMMA ConfirmStep == IInv /\ Confirm => IInv'
<1> SUFFICES ASSUME IInv, Confirm PROVE IInv'
  OBVIOUS
<1>1. /\ pc = "confirming" /\ succeeded' = st
      /\ UNCHANGED <<journal, record, files, seal, evaluated, terminal, left, grant,
                     ending, answer, latency, status, disowned>>
  BY DEF Confirm, Goto, evidence, attempt
<1>2. /\ st \in Stage /\ RecordTrue(st) /\ SealedAt(st) /\ seal[st] # NoJournal
      /\ ~evaluated
  BY <1>1 DEF IInv, Placed, Present, SealedAt, Standing, TypeOK
<1>3. CASE st < NStages
  <2>1. st' = st + 1 /\ pc' = "starting" /\ st + 1 \in Stage
    BY <1>2, <1>3, LiveAssumption DEF Confirm, Goto, Stage
  <2>2. TypeOK'
    BY <1>1, <1>2, <2>1, LiveAssumption DEF IInv, TypeOK, Stage
  <2>3. Past' /\ Future' /\ Fresh(st')
    <3>1. ASSUME NEW s \in Stage, s < st + 1
          PROVE  RecordTrue(s)' /\ SealedAt(s)'
      <4>1. RecordTrue(s) /\ SealedAt(s)
        BY <1>2, <3>1, StageFacts DEF IInv, Past
      <4> QED
        BY <1>1, <4>1 DEF RecordTrue, SealedAt
    <3>2. ASSUME NEW s \in Stage, s > st + 1
          PROVE  Fresh(s)'
      BY <1>1, <1>2, <3>2, StageFacts DEF IInv, Future, Fresh, Unsealed
    <3>3. Fresh(st + 1)
      BY <1>2, <2>1, StageFacts DEF IInv, Future
    <3> QED
      BY <2>1, <3>1, <3>2, <3>3 DEF Past, Future
  <2>4. Present' /\ Placed' /\ Standing' /\ Ending'
    BY <1>1, <1>2, <2>1, <2>3, StageFacts DEF IInv, Present, Placed, Standing, Ending,
       Fresh, Unsealed, Stopped
  <2> QED
    BY <2>2, <2>3, <2>4 DEF IInv
<1>4. CASE ~(st < NStages)
  <2>1. st' = st /\ pc' = "evaluating" /\ st = NStages
    BY <1>2, <1>4, StageFacts, LiveAssumption DEF Confirm, Goto
  <2>2. TypeOK'
    BY <1>1, <1>2, <2>1, LiveAssumption DEF IInv, TypeOK
  <2>3. Past' /\ Future'
    BY <1>1, <2>1, Elsewhere DEF IInv, TypeOK, Local
  <2>4. Present' /\ Placed' /\ Standing' /\ Ending'
    BY <1>1, <1>2, <2>1 DEF IInv, Present, Placed, Standing, Ending, RecordTrue, SealedAt,
       Stopped
  <2> QED
    BY <2>2, <2>3, <2>4 DEF IInv
<1> QED
  BY <1>3, <1>4

\* The time runs out inside the transaction.
LEMMA ExpireStep == IInv /\ Expire => IInv'
<1> SUFFICES ASSUME IInv, Expire PROVE IInv'
  OBVIOUS
<1> DEFINE q == [Promoted EXCEPT !.decision = "stop", !.promoted = FALSE,
                 !.rationale = "retry_budget_exhausted", !.failure = "timeout"]
<1>1. /\ pc \in {"promoting", "binding", "sealing", "confirming"} /\ pc' = "terminal"
      /\ files' = [files EXCEPT ![st] = FALSE]
      /\ seal' = [seal EXCEPT ![st] = NoJournal]
      /\ record[st] = NoRecord => record' = [record EXCEPT ![st] = q]
      /\ record[st] # NoRecord => record' = record
      /\ status' = "retry_exhausted"
      /\ UNCHANGED <<journal, evaluated, terminal, st, left, grant, ending, answer,
                     latency, succeeded, disowned>>
  BY DEF Expire, Abort, Goto, attempt
<1>2. /\ journal[st].prepared /\ journal[st].granted = grant
      /\ journal[st].outcome = Accepted /\ answer = Accepted /\ latency < grant
      /\ grant \in 1..Timeout /\ latency \in 0..Timeout
      /\ journal[st] \in Journals /\ st \in Stage /\ succeeded # st /\ ~evaluated
  BY <1>1 DEF IInv, Placed, TypeOK, Standing
<1>3. /\ q.decision = "stop" /\ ~q.promoted /\ q.rationale = "retry_budget_exhausted"
      /\ q.failure = "timeout" /\ q.identity = "passed" /\ q.contract = "passed"
      /\ q.received = Accepted /\ q.timeout = grant /\ q.latency = latency
      /\ q.lifecycle = journal[st] /\ q.observed = journal[st].outcome
  BY <1>2 DEF Promoted
<1>4. q \in Records /\ q # NoRecord
  <2>1. q \in Records
    BY <1>2, OutcomeFacts DEF Promoted, Records, Rationales, Failures
  <2> QED
    BY <2>1, RecordFacts
<1>5. Expected(q) = "passed" /\ ~Late(q)
  BY <1>2, <1>3, OutcomeFacts, LiveAssumption
     DEF Expected, Late, IdentityVerdict, Eligible, Accepted
<1> HIDE DEF q
<1>6. /\ files'[st] = FALSE /\ seal'[st] = NoJournal
      /\ record'[st] = IF record[st] = NoRecord THEN q ELSE record[st]
  BY <1>1, <1>2 DEF IInv, TypeOK
<1>7. record'[st'] # NoRecord /\ RecordTrue(st)'
  <2>1. CASE record[st] = NoRecord
    <3>1. record'[st'] = q /\ journal'[st'] = journal[st]
      BY <1>1, <1>6, <2>1
    <3> QED
      BY <1>2, <1>3, <1>4, <1>5, <3>1 DEF RecordTrue
  <2>2. CASE record[st] # NoRecord
    BY <1>1, <1>6, <2>2 DEF IInv, Present, RecordTrue
  <2> QED
    BY <2>1, <2>2
<1>8. Stopped(st)' => Expected(record'[st']) = "passed" /\ ~Late(record'[st'])
  <2>1. CASE record[st] = NoRecord
    BY <1>1, <1>5, <1>6, <2>1
  <2>2. CASE record[st] # NoRecord
    BY <1>1, <1>6, <2>2 DEF IInv, Present, Stopped
  <2> QED
    BY <2>1, <2>2
<1>9. TypeOK'
  BY <1>1, <1>4, JournalFacts DEF IInv, TypeOK, StatusValues
<1>10. Past' /\ Future'
  BY <1>1, Elsewhere, LocalFacts DEF IInv, TypeOK
<1>11. Present' /\ Placed'
  BY <1>1, <1>6, <1>7 DEF Present, Placed, Unsealed, Stopped
<1>12. Standing' /\ Ending'
  BY <1>1, <1>2, <1>8 DEF IInv, Standing, Ending, Stopped
<1> QED
  BY <1>9, <1>10, <1>11, <1>12 DEF IInv

LEMMA EvaluateStep == IInv /\ Evaluate => IInv'
<1> SUFFICES ASSUME IInv, Evaluate PROVE IInv'
  OBVIOUS
<1>1. /\ pc = "evaluating" /\ pc' = "terminal"
      /\ \/ evaluated' = TRUE /\ status' \in {"succeeded", "failed_evaluation"}
         \/ evaluated' = evaluated /\ status' = "failed_governance"
      /\ UNCHANGED <<journal, record, files, seal, terminal, st, left, grant, ending,
                     answer, latency, succeeded, disowned>>
  BY DEF Evaluate, Goto, evidence, attempt
<1>2. /\ st = NStages /\ seal[st] # NoJournal /\ ~evaluated /\ SealedAt(st)
      /\ ~Stopped(st)
  BY <1>1 DEF IInv, Placed, Present, Standing
<1>3. TypeOK'
  BY <1>1 DEF IInv, TypeOK, StatusValues
<1>4. Past' /\ Future'
  BY <1>1, Elsewhere DEF IInv, TypeOK, Local
<1>5. Present' /\ Placed' /\ Ending'
  BY <1>1, <1>2 DEF IInv, Present, Placed, Ending, RecordTrue, SealedAt, Stopped
<1>6. Standing'
  BY <1>1, <1>2 DEF IInv, Standing, Stopped
<1> QED
  BY <1>3, <1>4, <1>5, <1>6 DEF IInv

LEMMA InterruptStep == IInv /\ Interrupt => IInv'
<1> SUFFICES ASSUME IInv, Interrupt PROVE IInv'
  OBVIOUS
<1>1. /\ pc \notin {"preflight", "terminal", "reconciling", "done"}
      /\ pc' = "reconciling"
      /\ disowned' = (pc = "recorded" /\ (record[st].identity = "failed" \/ Late(record[st])))
      /\ UNCHANGED <<record, files, seal, evaluated, terminal, st, left, grant, ending,
                     answer, latency, status, succeeded>>
  BY DEF Interrupt, Goto, verdict, attempt
<1>2. /\ journal' \in [Stage -> Journals]
      /\ journal' = journal \/ \E j : journal' = [journal EXCEPT ![st] = j]
      /\ pc \notin {"admitting", "calling"} => journal' = journal
  <2>1. journal \in [Stage -> Journals] /\ st \in Stage
    BY DEF IInv, TypeOK
  <2>2. CASE pc = "calling" /\ BrokenOff
    BY <2>2, BrokenFacts DEF IInv
  <2>3. CASE pc = "admitting" /\ \E closed \in BOOLEAN :
                                  journal' = [journal EXCEPT ![st].closed = closed]
    BY <2>3, BrokenFacts DEF IInv, BrokenOff
  <2>4. CASE pc \notin {"admitting", "calling"} /\ UNCHANGED journal
    BY <2>1, <2>4
  <2> QED
    BY <2>2, <2>3, <2>4 DEF Interrupt
<1>3. TypeOK'
  BY <1>1, <1>2 DEF IInv, TypeOK
<1>4. Past' /\ Future'
  BY <1>1, <1>2, Elsewhere, LocalFacts DEF IInv, TypeOK
<1>5. pc \in {"admitting", "calling"} =>
        record[st] = NoRecord /\ seal[st] = NoJournal
  BY DEF IInv, Placed, Unsealed
<1>6. Present' /\ Placed' /\ Ending'
  <2>1. CASE pc \in {"admitting", "calling"}
    BY <1>1, <1>5, <2>1 DEF IInv, Present, Placed, Ending, Stopped
  <2>2. CASE pc \notin {"admitting", "calling"}
    BY <1>1, <1>2, <2>2 DEF IInv, Present, Placed, Ending, RecordTrue, SealedAt,
       Unsealed, Stopped
  <2> QED
    BY <2>1, <2>2
<1>7. Stopped(st) => pc = "recorded" /\ record[st].identity = Expected(record[st])
  BY <1>1 DEF IInv, Present, RecordTrue, Stopped
<1>8. Standing'
  BY <1>1, <1>7 DEF IInv, Standing, Stopped
<1> QED
  BY <1>3, <1>4, <1>6, <1>8 DEF IInv

\* A sealed stage counts, an unsealed one is undone.
LEMMA ReconcileStep == IInv /\ Reconcile => IInv'
<1> SUFFICES ASSUME IInv, Reconcile PROVE IInv'
  OBVIOUS
<1>1. /\ pc = "reconciling" /\ pc' = "terminal"
      /\ UNCHANGED <<journal, record, terminal, st, left, grant, ending, answer,
                     latency, disowned>>
  BY DEF Reconcile, Goto, attempt
<1>2. /\ st \in Stage /\ ~evaluated /\ succeeded \in {st - 1, st}
      /\ Stopped(st) => Unsealed(st)
      /\ Stopped(st) /\ ~disowned => Expected(record[st]) # "failed" /\ ~Late(record[st])
      /\ record[st] # NoRecord => RecordTrue(st)
  BY <1>1 DEF IInv, TypeOK, Present, Standing
<1>3. CASE seal[st] # NoJournal
  <2>1. succeeded' = st /\ UNCHANGED <<files, seal>>
    BY <1>3 DEF Reconcile
  <2>2. /\ SealedAt(st) /\ ~Stopped(st)
        /\ IF st = NStages THEN status' = "failed_evaluation" /\ evaluated' = TRUE
           ELSE status' = "infrastructure_failure" /\ evaluated' = evaluated
    BY <1>2, <1>3, <2>1 DEF Reconcile, IInv, Present, Unsealed
  <2>3. TypeOK'
    <3>1. succeeded' \in 0..NStages
      BY <1>2, <2>1, LiveAssumption DEF Stage
    <3>2. status' \in StatusValues /\ evaluated' \in BOOLEAN
      BY <2>2 DEF IInv, TypeOK, StatusValues
    <3> QED
      BY <1>1, <2>1, <3>1, <3>2 DEF IInv, TypeOK
  <2>4. Past' /\ Future'
    BY <1>1, <2>1, Elsewhere DEF IInv, TypeOK, Local
  <2>5. Present' /\ Placed' /\ Standing' /\ Ending'
    BY <1>1, <1>2, <1>3, <2>1, <2>2 DEF IInv, Present, Placed, Standing, Ending, RecordTrue,
       SealedAt, Stopped
  <2> QED
    BY <2>3, <2>4, <2>5 DEF IInv
<1>4. CASE seal[st] = NoJournal
  <2>1. /\ files' = [files EXCEPT ![st] = FALSE]
        /\ seal' = [seal EXCEPT ![st] = NoJournal] /\ succeeded' = succeeded
    BY <1>4 DEF Reconcile, Abort
  <2>2. succeeded = st - 1 /\ succeeded # NStages
    BY <1>1, <1>2, <1>4, StageFacts, LiveAssumption DEF IInv, Standing, Stage
  <2>3. status' = "infrastructure_failure" /\ evaluated' = evaluated
    BY <2>1, <2>2 DEF Reconcile
  <2>4. TypeOK'
    BY <1>1, <2>1, <2>3, JournalFacts DEF IInv, TypeOK, StatusValues
  <2>5. Past' /\ Future'
    BY <1>1, <2>1, Elsewhere, LocalFacts DEF IInv, TypeOK
  <2>6. Unsealed(st)'
    BY <1>1, <1>2, <2>1 DEF IInv, TypeOK, Unsealed
  <2>7. Present' /\ Placed'
    BY <1>1, <1>2, <2>6 DEF Present, Placed, RecordTrue, Unsealed, Stopped
  <2>8. Standing'
    <3>1. left' <= grant' /\ succeeded' = st' - 1 /\ succeeded' # st' /\ ~evaluated'
      BY <1>1, <1>2, <2>1, <2>2, <2>3, StageFacts DEF IInv, Standing
    <3>2. Stopped(st)' <=> Stopped(st)
      BY <1>1 DEF Stopped
    <3> QED
      BY <1>1, <1>2, <2>3, <3>1, <3>2 DEF Standing
  <2>9. Ending'
    BY <1>1 DEF IInv, Ending
  <2> QED
    BY <2>4, <2>5, <2>7, <2>8, <2>9 DEF IInv
<1> QED
  BY <1>3, <1>4

LEMMA TerminalStep == IInv /\ WriteTerminal => IInv'
<1> SUFFICES ASSUME IInv, WriteTerminal PROVE IInv'
  OBVIOUS
<1>1. /\ pc = "terminal" /\ pc' = "done"
      /\ terminal' = [status |-> status, succeeded |-> succeeded, inventory |-> journal]
      /\ UNCHANGED <<journal, record, files, seal, evaluated, st, left, grant, ending,
                     answer, latency, status, succeeded, disowned>>
  BY DEF WriteTerminal, Goto, evidence, verdict, attempt
<1>2. terminal' \in Terminals
  BY <1>1 DEF IInv, TypeOK, Terminals
<1>3. TypeOK'
  BY <1>1, <1>2 DEF IInv, TypeOK
<1>4. Past' /\ Future'
  BY <1>1, Elsewhere DEF IInv, TypeOK, Local
<1>5. Present' /\ Placed' /\ Standing' /\ Ending'
  BY <1>1 DEF IInv, Present, Placed, Standing, Ending, RecordTrue, SealedAt, Unsealed,
     Stopped
<1> QED
  BY <1>3, <1>4, <1>5 DEF IInv

LEMMA StutterStep == IInv /\ UNCHANGED vars => IInv'
BY DEF vars, IInv, TypeOK, Past, Future, Present, Placed, Standing, Ending, RecordTrue,
   SealedAt, Fresh, Unsealed, Unrecorded, Stopped

-----------------------------------------------------------------------------
(* What the verifier finds when the run is over.                           *)

LEMMA StageCases ==
  ASSUME IInv, NEW s \in Stage
  PROVE  /\ s \in Nat /\ st \in Nat
         /\ s < st => RecordTrue(s) /\ SealedAt(s) /\ ~Stopped(s)
         /\ s > st => Fresh(s)
         /\ s < st \/ s = st \/ s > st
         /\ record[s] # NoRecord => record[s] \in Records /\ RecordTrue(s)
         /\ seal[s] # NoJournal => SealedAt(s) /\ RecordTrue(s)
         /\ Stopped(s) => s = st /\ Unsealed(s)
<1>1. s \in Nat /\ st \in Nat
  BY StageFacts DEF IInv, TypeOK
<1>2. s < st => RecordTrue(s) /\ SealedAt(s) /\ ~Stopped(s)
  BY DEF IInv, Past, SealedAt, Stopped
<1>3. s > st => Fresh(s)
  BY DEF IInv, Future
<1>4. s < st \/ s = st \/ s > st
  BY <1>1
<1>5. record[s] # NoRecord => record[s] \in Records /\ RecordTrue(s)
  BY <1>2, <1>3, <1>4 DEF IInv, TypeOK, Present, Fresh
<1>6. seal[s] # NoJournal => SealedAt(s) /\ RecordTrue(s)
  BY <1>2, <1>3, <1>4, <1>5 DEF IInv, Present, Fresh, Unsealed, SealedAt
<1>7. Stopped(s) => s = st /\ Unsealed(s)
  BY <1>2, <1>3, <1>4 DEF IInv, Present, Fresh, Stopped
<1> QED
  BY <1>1, <1>2, <1>3, <1>4, <1>5, <1>6, <1>7

\* A true record is justified, and only a stopped attempt's is a rejection.
LEMMA Justified ==
  ASSUME NEW s \in Stage, RecordTrue(s), record[s] \in Records
  PROVE  /\ RecordJustified(record[s])
         /\ Rejected(record[s]) => record[s].decision = "stop"
         /\ record[s].decision = "promote" => Expected(record[s]) = "passed"
<1>1. record[s].decision \in {"promote", "stop"}
  BY RecordFacts
<1>2. CASE record[s].decision = "promote"
  <2>1. /\ Expected(record[s]) = "passed" /\ ~Late(record[s])
        /\ record[s].received # NoOutcome
    BY <1>2, OutcomeFacts DEF RecordTrue, Late
  <2> QED
    BY <1>2, <2>1 DEF RecordTrue, RecordJustified, Rejected
<1>3. CASE record[s].decision = "stop"
  BY <1>3 DEF RecordTrue, RecordJustified
<1> QED
  BY <1>1, <1>2, <1>3

LEMMA TopologyHolds == IInv /\ pc = "done" /\ ~disowned => IdentityTopology
<1> SUFFICES ASSUME IInv, pc = "done", ~disowned, NEW s \in Stage
             PROVE  LET r == record[s] IN
               /\ seal[s] # NoJournal =>
                    /\ r # NoRecord
                    /\ Expected(r) = "passed" /\ r.decision = "promote"
                    /\ r.rationale = "stage_succeeded" /\ r.failure = "none"
                    /\ r.contract = "passed" /\ r.promoted
               /\ r # NoRecord =>
                    /\ \A t \in 1..s - 1 : seal[t] # NoJournal
                    /\ r.decision = "promote" => Expected(r) = "passed"
               /\ r # NoRecord /\ Rejected(r) =>
                    /\ ~r.promoted /\ seal[s] = NoJournal /\ ~files[s] /\ ~evaluated
                    /\ \A t \in s + 1..NStages : record[t] = NoRecord /\ seal[t] = NoJournal
                    /\ terminal # NoTerminal =>
                         /\ terminal.status \notin {"succeeded", "failed_evaluation"}
                         /\ terminal.succeeded < s
                         /\ Expected(r) = "failed" => terminal.status = "failed_governance"
                         /\ Late(r) => terminal.status = "retry_exhausted"
  BY DEF IdentityTopology
<1>1. ASSUME seal[s] # NoJournal
      PROVE  /\ record[s] # NoRecord
             /\ Expected(record[s]) = "passed" /\ record[s].decision = "promote"
             /\ record[s].rationale = "stage_succeeded" /\ record[s].failure = "none"
             /\ record[s].contract = "passed" /\ record[s].promoted
  BY <1>1, StageCases DEF SealedAt, RecordTrue
<1>2. ASSUME record[s] # NoRecord
      PROVE  /\ \A t \in 1..s - 1 : seal[t] # NoJournal
             /\ record[s].decision = "promote" => Expected(record[s]) = "passed"
  <2>1. ~(s > st)
    BY <1>2, StageCases DEF Fresh
  <2>2. ASSUME NEW t \in 1..s - 1
        PROVE  seal[t] # NoJournal
    <3>1. t \in Stage /\ t < st
      BY <2>1, StageCases, StageFacts, LiveAssumption DEF Stage
    <3> QED
      BY <3>1, StageCases, JournalFacts DEF SealedAt
  <2> QED
    BY <1>2, <2>2, StageCases, Justified
<1>3. ASSUME record[s] # NoRecord, Rejected(record[s])
      PROVE  /\ ~record[s].promoted /\ seal[s] = NoJournal /\ ~files[s] /\ ~evaluated
             /\ \A t \in s + 1..NStages : record[t] = NoRecord /\ seal[t] = NoJournal
             /\ terminal.status \notin {"succeeded", "failed_evaluation"}
             /\ terminal.succeeded < s
             /\ Expected(record[s]) = "failed" => terminal.status = "failed_governance"
             /\ Late(record[s]) => terminal.status = "retry_exhausted"
  <2>1. Stopped(s) /\ s = st /\ Unsealed(s) /\ RecordTrue(s)
    BY <1>3, StageCases, Justified DEF Stopped
  <2>2. ~evaluated /\ succeeded = st - 1
    BY <2>1 DEF IInv, Standing, Unsealed
  <2>3. terminal.status = status /\ terminal.succeeded = succeeded
    BY DEF IInv, Ending
  <2>4. /\ status \notin {"succeeded", "failed_evaluation"}
        /\ Expected(record[s]) = "failed" => status = "failed_governance"
        /\ Late(record[s]) => status = "retry_exhausted"
    BY <2>1, <2>2 DEF IInv, Standing
  <2>5. ASSUME NEW t \in s + 1..NStages
        PROVE  record[t] = NoRecord /\ seal[t] = NoJournal
    <3>1. t \in Stage /\ t > st
      BY <2>1, StageCases, StageFacts, LiveAssumption DEF Stage
    <3> QED
      BY <3>1, StageCases DEF Fresh, Unsealed
  <2>6. succeeded < s
    BY <2>1, <2>2, StageCases
  <2> QED
    BY <2>1, <2>2, <2>3, <2>4, <2>5, <2>6 DEF RecordTrue, Stopped, Unsealed
<1> QED
  BY <1>1, <1>2, <1>3

LEMMA LifecycleHolds ==
  ASSUME IInv, pc = "done", \A s \in Stage : journal[s].prepared => journal[s].closed
  PROVE  LifecycleAgrees
<1>1. ASSUME NEW s \in Stage
      PROVE  /\ record[s] # NoRecord => journal[s].prepared
             /\ record[s] # NoRecord =>
                  /\ record[s].lifecycle = journal[s]
                  /\ record[s].observed = journal[s].outcome
                  /\ record[s].received \in {NoOutcome, journal[s].outcome}
                  /\ journal[s].granted > 0 => record[s].timeout = journal[s].granted
                  /\ record[s].decision = "promote" => journal[s].outcome.kind = "success"
             /\ seal[s] # NoJournal =>
                  seal[s] = journal[s] /\ record[s] # NoRecord /\ record[s].decision = "promote"
  BY StageCases DEF RecordTrue, SealedAt, Accepted
<1>2. ASSUME NEW s \in Stage, journal[s].prepared
      PROVE  /\ seal[s] = NoJournal => \A t \in s + 1..NStages : seal[t] = NoJournal
             /\ \A t \in 1..s - 1 : seal[t] # NoJournal
  <2>1. ~(s > st)
    BY <1>2, StageCases, JournalFacts DEF Fresh
  <2>2. ASSUME NEW t \in 1..s - 1
        PROVE  seal[t] # NoJournal
    <3>1. t \in Stage /\ t < st
      BY <2>1, StageCases, StageFacts, LiveAssumption DEF Stage
    <3> QED
      BY <3>1, StageCases, JournalFacts DEF SealedAt
  <2>3. ASSUME seal[s] = NoJournal, NEW t \in s + 1..NStages
        PROVE  seal[t] = NoJournal
    <3>1. ~(s < st)
      BY <2>3, StageCases, JournalFacts DEF SealedAt
    <3>2. t \in Stage /\ t > st
      BY <2>1, <3>1, StageCases, StageFacts, LiveAssumption DEF Stage
    <3> QED
      BY <3>2, StageCases DEF Fresh, Unsealed
  <2> QED
    BY <2>2, <2>3
<1>3. /\ terminal.inventory = journal
      /\ terminal.status = "succeeded" => \A s \in Stage : journal[s].prepared
  <2>1. terminal.inventory = journal /\ terminal.status = status
    BY DEF IInv, Ending
  <2>2. ASSUME status = "succeeded", NEW s \in Stage
        PROVE  journal[s].prepared
    <3>1. st = NStages /\ seal[st] # NoJournal /\ st \in Stage
      BY <2>2 DEF IInv, Standing, TypeOK
    <3>2. s < st \/ s = st
      BY <3>1, StageFacts, StageCases
    <3> QED
      BY <3>1, <3>2, StageCases DEF SealedAt
  <2> QED
    BY <2>1, <2>2
<1> QED
  BY <1>1, <1>2, <1>3 DEF LifecycleAgrees

-----------------------------------------------------------------------------
(* The theorems.                                                           *)

\* The inductive invariant holds in every reachable state.
THEOREM Invariance == Spec => []IInv
<1>1. IInv /\ [Next]_vars => IInv'
  BY TickStep, ControlStep, StartStep, RefuseStep, StopStep, FailStep, CallStep,
     PromoteStep, BindStep, SealStep, ConfirmStep, ExpireStep, EvaluateStep,
     InterruptStep, ReconcileStep, TerminalStep, StutterStep
     DEF Next, Attempt, Commit, End, Terminated
<1> QED
  BY InitInvariant, <1>1, PTL DEF Spec

\* Journals, records, seals and the terminal record keep their types.
THEOREM TypeCorrect == Spec => []TypeOK
<1>1. IInv => TypeOK
  BY DEF IInv
<1> QED
  BY <1>1, Invariance, PTL

\* A stage is sealed only on an answer of exactly the wire model, in time,
\* durable in a closed journal and told by its record.
THEOREM IdentifiedSeals == Spec => []SealedIsIdentified
<1>1. IInv => SealedIsIdentified
  <2> SUFFICES ASSUME IInv, NEW s \in Stage, seal[s] # NoJournal
               PROVE  /\ seal[s] = journal[s] /\ journal[s].closed
                      /\ journal[s].outcome = [kind |-> "success", model |-> WireModel]
                      /\ record[s] # NoRecord /\ record[s].received = journal[s].outcome
                      /\ record[s].latency < journal[s].granted
    BY DEF SealedIsIdentified
  <2>1. st \in Nat /\ s \in Nat
    BY StageFacts DEF IInv, TypeOK
  <2>2. ~(s > st)
    BY DEF IInv, Future, Fresh, Unsealed
  <2>3. RecordTrue(s) /\ SealedAt(s)
    BY <2>1, <2>2 DEF IInv, Past, Present, SealedAt
  <2> QED
    BY <2>3 DEF RecordTrue, SealedAt, Accepted
<1> QED
  BY <1>1, Invariance, PTL

\* A stopped attempt is the last thing of its run.
THEOREM StopsAreFinal == Spec => []StopIsFinal
<1>1. IInv => StopIsFinal
  <2> SUFFICES ASSUME IInv, NEW s \in Stage, Stopped(s)
               PROVE  /\ ~files[s] /\ seal[s] = NoJournal /\ ~evaluated
                      /\ succeeded < s
                      /\ \A t \in s + 1..NStages : ~journal[t].prepared
    BY DEF StopIsFinal, Stopped
  <2>1. st \in Nat /\ s \in Nat
    BY StageFacts DEF IInv, TypeOK
  <2>2. s = st
    <3>1. ~(s < st)
      BY RecordFacts DEF IInv, Past, SealedAt, Stopped
    <3>2. ~(s > st)
      BY DEF IInv, Future, Fresh, Stopped
    <3> QED
      BY <2>1, <3>1, <3>2
  <2>3. Unsealed(s)
    BY <2>2 DEF IInv, Present
  <2>4. ~evaluated /\ succeeded = st - 1
    BY <2>2, <2>3 DEF IInv, Standing, Unsealed
  <2>5. ASSUME NEW t \in s + 1..NStages
        PROVE  ~journal[t].prepared
    <3>1. t \in Stage /\ t > st
      BY <2>1, <2>2, LiveAssumption DEF Stage
    <3> QED
      BY <3>1, JournalFacts DEF IInv, Future, Fresh
  <2> QED
    BY <2>1, <2>2, <2>3, <2>4, <2>5 DEF Unsealed
<1> QED
  BY <1>1, Invariance, PTL

\* Whatever the provider answered, wherever time ran out and an interrupt fell,
\* a run whose journals were closed leaves evidence its verifier accepts.
THEOREM EvidenceVerifies == Spec => []LiveEvidenceVerifies
<1>1. IInv => LiveEvidenceVerifies
  <2> SUFFICES ASSUME IInv, terminal # NoTerminal, ~disowned,
                      \A s \in Stage : journal[s].prepared => journal[s].closed
               PROVE  Verifies
    BY DEF LiveEvidenceVerifies
  <2>1. pc = "done"
    BY DEF IInv, Ending
  <2>2. \A s \in Stage : record[s] # NoRecord => RecordJustified(record[s])
    BY StageCases, Justified
  <2> QED
    BY <2>1, <2>2, TopologyHolds, LifecycleHolds DEF Verifies
<1> QED
  BY <1>1, Invariance, PTL
=============================================================================
