--------------------------- MODULE RunRecordProofs --------------------------
(***************************************************************************)
(* Proofs about RunRecord, for every number of stages and attempts, every  *)
(* set of names and outputs, and any number of interrupts and exceptions.  *)
(*                                                                         *)
(* The properties speak of a finished record or of all stages at once;     *)
(* what makes them hold is the shape of the directory at every moment: all *)
(* stages before the current one are sealed, all after it are untouched,   *)
(* and the current one is wherever the program counter says, or, after a   *)
(* fault, somewhere between empty and sealed.                              *)
(***************************************************************************)
EXTENDS RunRecord, SequenceTheorems, FiniteSetTheorems, TLAPS

-----------------------------------------------------------------------------
(* The shapes a stage's part of the directory can have.                    *)

\* An attempt's evidence was written to the end.
Full(e) == e.raw # "unlisted" /\ e.meta = "listed"

\* There are n attempts, each with all its evidence.
Held(s, n) ==
  Len(evidence[s]) = n /\ \A a \in 1..Len(evidence[s]) : Full(evidence[s][a])

\* All but perhaps the last attempt have all their evidence.
Frayed(s) ==
  /\ Len(evidence[s]) <= MaxAttempts
  /\ \A a \in 1..Len(evidence[s]) - 1 : Full(evidence[s][a])

Bare(s) == staged[s] = {} /\ files[s] = {} /\ listed[s] = {} /\ seal[s] = 0

Promoted(s) == staged[s] = {} /\ files[s] = Outputs[s] /\ listed[s] = Outputs[s]

Sealed(s) == seal[s] > 0 /\ Promoted(s) /\ Held(s, seal[s])

-----------------------------------------------------------------------------
(* The inductive invariant.                                                *)

Evaluating == {"evaluating", "judging", "recording_evaluation"}
Recovering == {"reconciling", "finalizing"}
Ending     == {"leaving", "terminal", "done"}
Closing    == Recovering \cup Ending

\* Stages are worked off in order.
Settled == \A s \in Stage : s < st => Sealed(s)
Ahead   == \A s \in Stage : s > st => Bare(s) /\ evidence[s] = <<>>

\* What a fault can leave of the current stage: the seal only with all it
\* vouches for.
Current ==
  /\ staged[st] \subseteq Outputs[st] /\ files[st] \subseteq Outputs[st]
  /\ listed[st] \subseteq Outputs[st]
  /\ seal[st] = 0 \/ Sealed(st)
  /\ Frayed(st)

\* Where the current stage is while no fault has struck.
Progress ==
  /\ pc \in {"setup", "preflight"} => st = 1 /\ attempt = 1
  /\ pc \in {"setup", "preflight", "invoking", "recording", "recording_late"} =>
       Bare(st) /\ Held(st, attempt - 1)
  /\ pc \in {"staging", "promoting"} =>
       /\ files[st] = {} /\ listed[st] = {} /\ seal[st] = 0
       /\ Held(st, attempt - 1)
       /\ pc = "promoting" => staged[st] = Outputs[st]
  /\ pc = "binding" => Promoted(st) /\ seal[st] = 0 /\ Held(st, attempt - 1)
  /\ pc = "sealing" => Promoted(st) /\ seal[st] = 0 /\ Held(st, attempt)
  /\ pc = "confirming" => Sealed(st) /\ seal[st] = attempt
  /\ pc \in Evaluating => st = NStages /\ Sealed(st)

\* A deadline that expires is the last thing to happen to the last stage, and
\* it does not tear evidence.
Expiry ==
  /\ pc \notin {"rolling_back", "recording_late"} \cup Closing => expired = {}
  /\ pc = "rolling_back" /\ st \in expired =>
       Held(st, attempt - 1) \/ Held(st, attempt)
  /\ pc = "rolling_back" /\ st \notin expired => exceptions > 0

\* The results are about the stages up to the current one, and true of them.
Remembered ==
  /\ pc \notin Closing =>
       Len(results) = IF pc \in Evaluating THEN st ELSE st - 1
  /\ Len(results) \in {st - 1, st}
  /\ \A i \in 1..Len(results) :
       \/ results[i].status = "succeeded" /\ Sealed(i)
          /\ seal[i] = results[i].attempt
       \/ results[i].status # "succeeded" /\ i = st /\ Bare(i)
          /\ Held(i, results[i].attempt) /\ pc \in Closing
  /\ pc = "finalizing" /\ seal[st] > 0 => Len(results) = st

\* Nothing happens in a run without its authority.
Authorized ==
  /\ pc = "setup" => frozen < Frozen
  /\ pc \notin {"setup"} \cup Closing => frozen = Frozen
  /\ frozen < Frozen => /\ st = 1 /\ Bare(st) /\ evidence[st] = <<>>
                        /\ results = <<>> /\ ~evalStarted

\* The evaluation is over, and evaluation.json says how it ended.
Decided ==
  /\ evalStarted
  /\ \/ outcome = "passed" /\ ~evalError /\ status = "succeeded"
     \/ outcome = "rejected" /\ ~evalError /\ status = "failed_evaluation"
     \/ outcome = "none" /\ evalError /\ status = "failed_evaluation"
  /\ evaluation = Verdict

\* Nothing is evaluated but a complete run, and nothing is said of the
\* evaluation before it is over.
Judged ==
  /\ pc \in {"judging", "recording_evaluation"} => evalStarted
  /\ evalStarted => st = NStages /\ Sealed(st) /\ Len(results) = NStages
  /\ pc \notin Closing => ~evalCommitted
  /\ pc \notin Closing => evaluation = "none"
  /\ pc \notin {"recording_evaluation"} \cup Closing =>
       outcome = "none" /\ ~evalError /\ status = "succeeded"
  /\ pc = "recording_evaluation" =>
       \/ outcome = "passed" /\ ~evalError /\ status = "succeeded"
       \/ outcome = "rejected" /\ ~evalError /\ status = "failed_evaluation"
       \/ outcome = "none" /\ evalError /\ status = "failed_evaluation"
  /\ pc \in {"leaving"} \cup Recovering =>
       /\ evalCommitted => Decided
       /\ ~evalStarted => outcome = "none" /\ ~evalError /\ evaluation = "none"
  /\ pc \in Ending /\ status = "succeeded" =>
       /\ outcome = "passed" /\ evaluation = "passed" /\ ~evalError
       /\ evalStarted

\* Whatever is listed is listed in the manifest.
ManifestBegun == \A s \in Stage : listed[s] # {} => manifest

\* The record says what the runner knew at the end.
RecordIsMemory ==
  IF pc = "done" THEN record \in {NoRecord, TerminalRecord}
                 ELSE record = NoRecord

\* The end of a run that met at most one interrupt is coherent.
CleanEnd ==
  /\ pc \in Recovering => interrupts > 0
  /\ pc \in Ending /\ exceptions = 0 /\ interrupts <= 1 =>
       /\ seal[st] > 0 => Len(results) = st
       /\ status \in {"succeeded", "failed_evaluation"} <=>
            st = NStages /\ seal[st] > 0
       /\ status = "failed_evaluation" =>
            \/ evaluation = "rejected" /\ outcome = "rejected" /\ ~evalError
            \/ evaluation = "error" /\ outcome = "none" /\ evalError
       /\ status \notin {"succeeded", "failed_evaluation"} => outcome = "none"
       /\ frozen < Frozen => /\ status = "infrastructure_failure"
                             /\ ~evalError /\ evaluation = "none"

Evidence == [raw : {"absent", "unlisted", "listed"},
             meta : {"absent", "unlisted", "listed"}]

\* TypeOK in four parts, for the provers.
DirTypes ==
  /\ manifest \in BOOLEAN /\ staged \in [Stage -> SUBSET Name]
  /\ files \in [Stage -> SUBSET Name] /\ listed \in [Stage -> SUBSET Name]
  /\ evidence \in [Stage -> Seq(Evidence)] /\ seal \in [Stage -> 0..MaxAttempts]

RunTypes ==
  /\ frozen \in 0..Frozen /\ evaluation \in {"none", "passed", "rejected", "error"}
  /\ pc \in Transaction \cup
       {"setup", "preflight", "invoking", "recording", "rolling_back",
        "recording_late", "evaluating", "judging", "recording_evaluation",
        "leaving", "reconciling", "finalizing", "terminal", "done"}
  /\ st \in Stage /\ attempt \in 1..MaxAttempts /\ verdict \in Verdicts
  /\ status \in FailedStatuses \cup {"succeeded"}
  /\ results \in Seq(Result) /\ Len(results) <= NStages
  /\ outcome \in {"none", "passed", "rejected"} /\ expired \subseteq Stage

FlagTypes == evalError \in BOOLEAN /\ evalStarted \in BOOLEAN /\ evalCommitted \in BOOLEAN

CountTypes == interrupts \in 0..MaxInterrupts /\ exceptions \in 0..MaxExceptions

LEMMA TypeParts == TypeOK <=> DirTypes /\ RunTypes /\ FlagTypes /\ CountTypes
BY DEF TypeOK, DirTypes, RunTypes, FlagTypes, CountTypes, Evidence

\* What holds of the directory alone, and of the rest.
Tidy == DirTypes /\ Settled /\ Ahead /\ Current /\ ManifestBegun

Memory ==
  /\ RunTypes /\ FlagTypes /\ CountTypes /\ Progress /\ Expiry /\ Remembered
  /\ Authorized /\ Judged /\ RecordIsMemory /\ CleanEnd

IInv == Tidy /\ Memory

-----------------------------------------------------------------------------
(* Lemmas about the operators of the model.                                *)

LEMMA Constants ==
  /\ NStages \in Nat /\ NStages > 0 /\ MaxAttempts \in Nat /\ MaxAttempts > 0
  /\ \A s \in Stage : s \in Nat /\ s > 0 /\ s <= NStages
                      /\ Outputs[s] \subseteq Name /\ Outputs[s] # {}
  /\ \A s \in Nat : s > 0 /\ s <= NStages => s \in Stage
  /\ Frozen = 6 /\ Writes = 5 /\ Undoes = 4
<1>1. \A s \in Stage : Outputs[s] \in (SUBSET Name) \ {{}}
  BY RunAssumption
<1>2. \A s \in Stage : Outputs[s] \subseteq Name /\ Outputs[s] # {}
  BY <1>1
<1> QED
  BY <1>2, RunAssumption DEF Stage, Frozen, Writes, Undoes

LEMMA EvidenceType ==
  ASSUME DirTypes, NEW s \in Stage
  PROVE  /\ evidence[s] \in Seq(Evidence) /\ Len(evidence[s]) \in Nat
         /\ DOMAIN evidence[s] = 1..Len(evidence[s])
         /\ \A a \in 1..Len(evidence[s]) : evidence[s][a] \in Evidence
<1>1. evidence[s] \in Seq(Evidence)
  BY DEF DirTypes
<1> QED
  BY <1>1, LenProperties, ElementOfSeq

\* What the k-th write of record_invocation leaves.
LEMMA AfterWritesFacts ==
  ASSUME NEW raw \in BOOLEAN, NEW k \in 0..Writes
  PROVE  /\ AfterWrites(k, raw) \in Evidence
         /\ k = Writes => Full(AfterWrites(k, raw))
         /\ k < 4 => AfterWrites(k, raw).meta = "absent"
<1>1. AfterWrites(k, raw).raw = IF ~raw \/ k < 2 THEN "absent"
                               ELSE IF k = 2 THEN "unlisted" ELSE "listed"
  BY DEF AfterWrites
<1>2. AfterWrites(k, raw).meta = IF k < 4 THEN "absent"
                                ELSE IF k = 4 THEN "unlisted" ELSE "listed"
  BY DEF AfterWrites
<1>3. AfterWrites(k, raw) \in Evidence
  BY Zenon DEF AfterWrites, Evidence
<1> QED
  BY <1>1, <1>2, <1>3 DEF Full, Writes

LEMMA RecordFacts ==
  ASSUME DirTypes, NEW s \in Stage, NEW raw \in BOOLEAN, NEW k \in 0..Writes,
         RecordInvocation(s, raw, k)
  PROVE  /\ evidence' \in [Stage -> Seq(Evidence)]
         /\ \A t \in Stage : t # s => evidence'[t] = evidence[t]
         /\ k = 0 => evidence'[s] = evidence[s]
         /\ k > 0 => /\ Len(evidence'[s]) = Len(evidence[s]) + 1
                     /\ \A a \in 1..Len(evidence[s]) :
                          evidence'[s][a] = evidence[s][a]
         /\ k = Writes => Full(evidence'[s][Len(evidence[s]) + 1])
         /\ manifest' \in BOOLEAN /\ (manifest => manifest')
         /\ k = Writes => manifest'
<1> DEFINE e == AfterWrites(k, raw)
           E == Append(evidence[s], e)
<1>1. evidence[s] \in Seq(Evidence) /\ e \in Evidence
  BY EvidenceType, AfterWritesFacts
<1>2. evidence \in [Stage -> Seq(Evidence)] /\ manifest \in BOOLEAN
  BY DEF DirTypes
<1>3. k = Writes => Full(e)
  BY AfterWritesFacts
<1> HIDE DEF e
<1>4. E \in Seq(Evidence)
  BY <1>1, AppendProperties
<1>5. Len(E) = Len(evidence[s]) + 1
  BY <1>1, AppendProperties
<1>6. \A a \in 1..Len(evidence[s]) : E[a] = evidence[s][a]
  BY <1>1, AppendProperties
<1>7. E[Len(evidence[s]) + 1] = e
  BY <1>1, AppendProperties
<1>8. evidence' = IF k = 0 THEN evidence ELSE [evidence EXCEPT ![s] = E]
  BY DEF RecordInvocation, e
<1> HIDE DEF E
<1>9. manifest' \in BOOLEAN /\ (manifest => manifest') /\ (k = Writes => manifest')
  BY <1>2, Zenon DEF RecordInvocation
<1> QED
  BY <1>2, <1>3, <1>4, <1>5, <1>6, <1>7, <1>8, <1>9, Constants

LEMMA AbortFacts ==
  ASSUME DirTypes, NEW s \in Stage, NEW k \in 0..Undoes, AbortUncommitted(s, k),
         files[s] \subseteq Outputs[s]
  PROVE  /\ staged' \in [Stage -> SUBSET Name] /\ files' \in [Stage -> SUBSET Name]
         /\ listed' \in [Stage -> SUBSET Name]
         /\ seal' \in [Stage -> 0..MaxAttempts] /\ manifest' \in BOOLEAN
         /\ \A t \in Stage : t # s =>
              /\ staged'[t] = staged[t] /\ files'[t] = files[t]
              /\ listed'[t] = listed[t] /\ seal'[t] = seal[t]
         /\ staged'[s] \subseteq staged[s] /\ files'[s] \subseteq files[s]
         /\ listed'[s] \subseteq listed[s]
         /\ seal'[s] = 0 \/ (seal'[s] = seal[s] /\ files'[s] = files[s]
                             /\ listed'[s] = listed[s])
         /\ k = Undoes => /\ staged'[s] = {} /\ files'[s] = {} /\ listed'[s] = {}
                          /\ seal'[s] = 0 /\ manifest'
         /\ manifest => manifest'
<1>1. /\ staged \in [Stage -> SUBSET Name] /\ files \in [Stage -> SUBSET Name]
      /\ listed \in [Stage -> SUBSET Name]
      /\ seal \in [Stage -> 0..MaxAttempts] /\ manifest \in BOOLEAN
  BY DEF DirTypes
<1>2. /\ staged' = IF k < 1 THEN staged ELSE [staged EXCEPT ![s] = {}]
      /\ seal' = IF k < 2 THEN seal ELSE [seal EXCEPT ![s] = 0]
      /\ listed' = IF k < 4 THEN listed ELSE [listed EXCEPT ![s] = {}]
  BY DEF AbortUncommitted
<1>4. PICK gone \in Gone(s, k) : files' = [files EXCEPT ![s] = files[s] \ gone]
  BY DEF AbortUncommitted
<1>5. (k < 2 => gone = {}) /\ (k > 2 => gone = Outputs[s])
  BY <1>4 DEF Gone
<1>3. manifest' \in BOOLEAN /\ (manifest => manifest') /\ (k = Undoes => manifest')
  BY <1>1, Zenon DEF AbortUncommitted
<1>6. /\ files' \in [Stage -> SUBSET Name] /\ files'[s] \subseteq files[s]
      /\ \A t \in Stage : t # s => files'[t] = files[t]
      /\ k < 2 => files'[s] = files[s]
      /\ k > 2 => files'[s] = {}
  BY <1>1, <1>4, <1>5
<1> QED
  BY <1>1, <1>2, <1>3, <1>6, Constants

\* The types of the run's memory, in a form to cite.
LEMMA MemoryFacts ==
  ASSUME DirTypes, RunTypes
  PROVE  /\ st \in Stage /\ st \in Nat /\ st > 0 /\ st <= NStages
         /\ attempt \in Nat /\ attempt > 0 /\ attempt <= MaxAttempts
         /\ results \in Seq(Result) /\ Len(results) \in Nat
         /\ Len(results) <= NStages /\ DOMAIN results = 1..Len(results)
         /\ \A i \in 1..Len(results) :
              /\ results[i] \in Result /\ i \in Stage
              /\ results[i].attempt \in Nat /\ results[i].attempt > 0
         /\ frozen \in 0..Frozen
         /\ \A s \in Stage : seal[s] \in Nat /\ seal[s] <= MaxAttempts
<1>1. results \in Seq(Result)
  BY DEF RunTypes
<1>2. /\ Len(results) \in Nat /\ DOMAIN results = 1..Len(results)
      /\ \A i \in 1..Len(results) : results[i] \in Result
  BY <1>1, LenProperties, ElementOfSeq
<1>3. \A r \in Result : r.attempt \in Nat /\ r.attempt > 0
  BY Constants DEF Result
<1>4. st \in Stage /\ attempt \in 1..MaxAttempts /\ Len(results) <= NStages
      /\ frozen \in 0..Frozen /\ seal \in [Stage -> 0..MaxAttempts]
  BY DEF DirTypes, RunTypes
<1> QED
  BY <1>1, <1>2, <1>3, <1>4, Constants

LEMMA AppendedResult ==
  ASSUME DirTypes, RunTypes, NEW r \in Result, Len(results) < NStages,
         results' = Append(results, r)
  PROVE  /\ results' \in Seq(Result) /\ Len(results') = Len(results) + 1
         /\ Len(results') <= NStages
         /\ \A i \in 1..Len(results) : results'[i] = results[i]
         /\ results'[Len(results) + 1] = r
<1>1. results \in Seq(Result) /\ Len(results) \in Nat
  BY MemoryFacts
<1>2. Append(results, r) \in Seq(Result)
  BY <1>1, AppendProperties
<1>3. Len(Append(results, r)) = Len(results) + 1
  BY <1>1, AppendProperties
<1>4. \A i \in 1..Len(results) : Append(results, r)[i] = results[i]
  BY <1>1, AppendProperties
<1>5. Append(results, r)[Len(results) + 1] = r
  BY <1>1, AppendProperties
<1> QED
  BY <1>1, <1>2, <1>3, <1>4, <1>5, Constants

\* The validators accept a seal if there is one, and only the current stage
\* and those before it have one.
LEMMA SealFacts ==
  ASSUME IInv
  PROVE  /\ \A s \in Stage : seal[s] = 0 \/ Sealed(s)
         /\ \A s \in Stage : SealHolds(s) <=> seal[s] > 0
         /\ \A s \in Stage : s < st => seal[s] > 0
         /\ \A s \in Stage : s > st => seal[s] = 0
<1>1. \A s \in Stage : s < st => Sealed(s)
  BY DEF IInv, Tidy, Memory, Settled
<1>2. \A s \in Stage : s > st => seal[s] = 0
  BY DEF IInv, Tidy, Memory, Ahead, Bare
<1>3. \A s \in Stage : seal[s] = 0 \/ Sealed(s)
  BY <1>1, <1>2, MemoryFacts DEF IInv, Tidy, Memory, Current, Stage
<1>4. ASSUME NEW s \in Stage, Sealed(s) PROVE SealHolds(s)
  <2>1. {a \in DOMAIN evidence[s] : evidence[s][a].meta = "listed"} = 1..seal[s]
    BY <1>4, EvidenceType DEF IInv, Tidy, Memory, Sealed, Held, Full
  <2> QED
    BY <1>4, <2>1 DEF Sealed, Promoted, SealHolds
<1>5. \A s \in Stage : SealHolds(s) => seal[s] > 0
  BY DEF SealHolds
<1>6. \A s \in Stage : Sealed(s) => seal[s] > 0
  BY DEF Sealed
<1> QED
  BY <1>1, <1>2, <1>3, <1>4, <1>5, <1>6, MemoryFacts DEF IInv, Tidy, Memory

LEMMA PrefixFacts ==
  ASSUME IInv
  PROVE  /\ SealedPrefix = IF seal[st] > 0 THEN st ELSE st - 1
         /\ SealedPrefix \in 0..NStages
<1> DEFINE n == IF seal[st] > 0 THEN st ELSE st - 1
           P(m) == /\ \A s \in 1..m : SealHolds(s)
                   /\ m = NStages \/ ~SealHolds(m + 1)
<1>1. n \in 0..NStages
  BY MemoryFacts, Constants DEF IInv, Tidy, Memory
<1>2. \A s \in Stage : SealHolds(s) <=> s <= n
  BY SealFacts, MemoryFacts, Constants DEF IInv, Tidy, Memory
<1>3. P(n)
  BY <1>1, <1>2, Constants DEF Stage
<1>4. ASSUME NEW m \in 0..NStages, P(m) PROVE m = n
  BY <1>1, <1>2, <1>4, Constants DEF Stage
<1>5. SealedPrefix = CHOOSE m \in 0..NStages : P(m)
  BY DEF SealedPrefix
<1> HIDE DEF P, n
<1>6. SealedPrefix = n
  BY <1>1, <1>3, <1>4, <1>5
<1> QED
  BY <1>1, <1>6 DEF n

\* Taking over the seals extends the results by the current stage at most.
LEMMA TakenFacts ==
  ASSUME IInv, pc = "reconciling", NEW j \in 0..SealedPrefix
  PROVE  /\ TakenOver(j) \in Seq(Result)
         /\ Len(TakenOver(j)) = IF j > Len(results) THEN j ELSE Len(results)
         /\ Len(TakenOver(j)) \in {st - 1, st}
         /\ Len(TakenOver(j)) > Len(results) => seal[st] > 0
         /\ \A i \in 1..Len(TakenOver(j)) :
              \/ TakenOver(j)[i].status = "succeeded" /\ Sealed(i)
                 /\ seal[i] = TakenOver(j)[i].attempt
              \/ TakenOver(j)[i].status # "succeeded" /\ i = st /\ Bare(i)
                 /\ Held(i, TakenOver(j)[i].attempt)
<1> DEFINE n == Len(results)
           m == IF j > n THEN j - n ELSE 0
           more == [i \in 1..m |-> [status |-> "succeeded", attempt |-> seal[n + i]]]
<1>1. /\ results \in Seq(Result) /\ n = Len(results)
      /\ n \in Nat /\ st \in Nat /\ st > 0 /\ st \in Stage
  BY MemoryFacts DEF IInv, Tidy, Memory
<1>2. n \in {st - 1, st}
  BY Zenon DEF IInv, Tidy, Memory, Remembered
<1>3. \A i \in 1..n :
        \/ results[i].status = "succeeded" /\ Sealed(i)
           /\ seal[i] = results[i].attempt
        \/ results[i].status # "succeeded" /\ i = st /\ Bare(i)
           /\ Held(i, results[i].attempt)
  BY DEF IInv, Tidy, Memory, Remembered
<1>4. TakenOver(j) =
        results \o [i \in 1..(j - n) |-> [status |-> "succeeded", attempt |-> seal[n + i]]]
  BY DEF TakenOver
<1> HIDE DEF n
<1>5. j \in Nat /\ j <= st /\ (j = st => seal[st] > 0)
  BY <1>1, PrefixFacts
<1>6. m \in {0, 1} /\ (m = 1 => n + 1 = st /\ j = st /\ seal[st] > 0)
  BY <1>1, <1>2, <1>5
<1>7. 1..(j - n) = 1..m
  BY <1>1, <1>5
<1>8. TakenOver(j) = results \o more
  BY <1>4, <1>7
<1>9. n + m = IF j > n THEN j ELSE n
  BY <1>1, <1>5
<1> HIDE DEF m
<1>10. \A i \in 1..m : i = 1 /\ n + i = st
  BY <1>1, <1>6
<1>11. m = 1 => Sealed(st) /\ seal[st] \in 1..MaxAttempts
  BY <1>1, <1>6, SealFacts, MemoryFacts, Constants DEF IInv, Tidy, Memory
<1>12. \A i \in 1..m : [status |-> "succeeded", attempt |-> seal[n + i]] \in Result
  BY <1>6, <1>10, <1>11 DEF Result
<1>13. more \in Seq(Result) /\ Len(more) = m
  BY <1>6, <1>12
<1>14. \A i \in 1..m : more[i].status = "succeeded" /\ more[i].attempt = seal[st]
  BY <1>10
<1> HIDE DEF more
<1>15. /\ TakenOver(j) \in Seq(Result) /\ Len(TakenOver(j)) = n + m
       /\ \A i \in 1..n + m : TakenOver(j)[i] =
            IF i <= n THEN results[i] ELSE more[i - n]
  <2>1. results \o more \in Seq(Result)
    BY <1>1, <1>13, ConcatProperties
  <2>2. Len(results \o more) = Len(results) + Len(more)
    BY <1>1, <1>13, ConcatProperties
  <2>3. \A i \in 1..Len(results) + Len(more) : (results \o more)[i] =
          IF i <= Len(results) THEN results[i] ELSE more[i - Len(results)]
    BY <1>1, <1>13, ConcatProperties
  <2> QED
    BY <2>1, <2>2, <2>3, <1>1, <1>8, <1>13
<1>16. ASSUME NEW i \in 1..n + m
       PROVE  \/ TakenOver(j)[i].status = "succeeded" /\ Sealed(i)
                 /\ seal[i] = TakenOver(j)[i].attempt
              \/ TakenOver(j)[i].status # "succeeded" /\ i = st /\ Bare(i)
                 /\ Held(i, TakenOver(j)[i].attempt)
  <2>1. CASE i <= n
    BY <2>1, <1>1, <1>3, <1>15
  <2>2. CASE i > n
    <3>1. m = 1 /\ i = st /\ i - n = 1
      BY <2>2, <1>1, <1>6
    <3> QED
      BY <2>2, <3>1, <1>1, <1>11, <1>14, <1>15
  <2> QED
    BY <2>1, <2>2, <1>1, <1>6
<1>17. n + m \in {st - 1, st} /\ (n + m > n => seal[st] > 0)
  BY <1>1, <1>2, <1>6
<1> QED
  BY <1>1, <1>9, <1>15, <1>16, <1>17

\* Where a fault of any operation can take control.
LEMMA FaultFacts ==
  ASSUME CountTypes, Interrupt \/ Exception
  PROVE  /\ CountTypes'
         /\ \/ /\ pc' = "reconciling" /\ status' = status /\ interrupts' > 0
            \/ /\ pc' = "rolling_back" /\ status' = status /\ exceptions' > 0
               /\ pc \in Transaction
            \/ /\ pc' = "terminal" /\ status' = "infrastructure_failure"
               /\ exceptions' > 0 /\ pc \notin Transaction
<1>1. CASE Interrupt
  BY <1>1, RunAssumption DEF Interrupt, CountTypes
<1>2. CASE Exception
  <2>1. /\ exceptions < MaxExceptions /\ exceptions' = exceptions + 1
        /\ interrupts' = interrupts
    BY <1>2 DEF Exception
  <2>2. CountTypes' /\ exceptions' > 0
    BY <2>1, RunAssumption DEF CountTypes
  <2> QED
    BY <1>2, <2>2, Zenon DEF Exception
<1> QED
  BY <1>1, <1>2

-----------------------------------------------------------------------------
(* What the operations on the directory preserve.                          *)

LEMMA KeptTidy ==
  ASSUME Tidy, manifest' \in BOOLEAN, manifest => manifest',
         UNCHANGED <<staged, files, listed, evidence, seal, st>>
  PROVE  Tidy'
<1>1. DirTypes' /\ ManifestBegun'
  BY DEF Tidy, DirTypes, ManifestBegun
<1>2. Settled' /\ Ahead'
  BY DEF Tidy, Settled, Ahead, Sealed, Promoted, Held, Bare
<1>3. Current'
  BY DEF Tidy, Current, Sealed, Promoted, Held, Frayed
<1> QED
  BY <1>1, <1>2, <1>3 DEF Tidy

\* Recording one more attempt of a stage that has no seal, to the k-th write.
LEMMA RecordTidy ==
  ASSUME Tidy, RunTypes, NEW raw \in BOOLEAN, NEW k \in 0..Writes,
         RecordInvocation(st, raw, k), Held(st, attempt - 1), seal[st] = 0,
         UNCHANGED <<staged, files, listed, seal, st>>
  PROVE  /\ Tidy'
         /\ k = Writes => Len(evidence'[st]) = attempt
                          /\ \A a \in 1..attempt : Full(evidence'[st][a])
<1>1. /\ st \in Stage /\ attempt \in Nat /\ attempt > 0 /\ attempt <= MaxAttempts
      /\ Len(evidence[st]) = attempt - 1
      /\ \A a \in 1..(attempt - 1) : Full(evidence[st][a])
  BY MemoryFacts DEF Tidy, Held
<1>2. /\ evidence' \in [Stage -> Seq(Evidence)]
      /\ \A t \in Stage : t # st => evidence'[t] = evidence[t]
      /\ manifest' \in BOOLEAN /\ (manifest => manifest')
  BY <1>1, RecordFacts DEF Tidy
<1>3. k = 0 => evidence'[st] = evidence[st]
  BY <1>1, RecordFacts DEF Tidy
<1>4. k > 0 => /\ Len(evidence'[st]) = attempt
               /\ \A a \in 1..(attempt - 1) : Full(evidence'[st][a])
  BY <1>1, RecordFacts DEF Tidy
<1>5. k = Writes => k > 0 /\ Full(evidence'[st][attempt])
  BY <1>1, RecordFacts, Constants DEF Tidy
<1>6. DirTypes'
  BY <1>2 DEF Tidy, DirTypes
<1>7. Settled' /\ Ahead'
  <2>1. \A t \in Stage : t < st \/ t > st => evidence'[t] = evidence[t]
    BY <1>1, <1>2, Constants
  <2>2. Settled'
    BY <2>1 DEF Tidy, Settled, Sealed, Promoted, Held
  <2>3. Ahead'
    BY <2>1 DEF Tidy, Ahead, Bare
  <2> QED
    BY <2>2, <2>3
<1>8. Current'
  <2>1. CASE k = 0
    BY <1>3, <2>1 DEF Tidy, Current, Sealed, Frayed
  <2>2. CASE k > 0
    BY <1>1, <1>4, <2>2 DEF Tidy, Current, Frayed
  <2> QED
    BY <2>1, <2>2
<1>9. ManifestBegun'
  BY <1>2 DEF Tidy, ManifestBegun
<1>10. k = Writes => \A a \in 1..attempt : Full(evidence'[st][a])
  BY <1>1, <1>4, <1>5
<1> QED
  BY <1>4, <1>5, <1>6, <1>7, <1>8, <1>9, <1>10 DEF Tidy

\* Undoing the current stage, to the k-th write, or the untouched one after it.
LEMMA AbortTidy ==
  ASSUME Tidy, RunTypes, NEW s \in Stage, NEW k \in 0..Undoes,
         AbortUncommitted(s, k), s >= st, UNCHANGED <<evidence, st>>
  PROVE  /\ Tidy'
         /\ s = st /\ k = Undoes => /\ staged'[st] = {} /\ files'[st] = {}
                                    /\ listed'[st] = {} /\ seal'[st] = 0
         /\ \A t \in Stage : t < st => seal'[t] = seal[t]
         /\ s > st => \A t \in Stage :
              /\ staged'[t] = staged[t] /\ files'[t] = files[t]
              /\ listed'[t] = listed[t] /\ seal'[t] = seal[t]
<1>1. st \in Stage /\ st \in Nat /\ s \in Nat
  BY MemoryFacts, Constants DEF Tidy
<1>2. s > st => staged[s] = {} /\ files[s] = {} /\ listed[s] = {} /\ seal[s] = 0
  BY DEF Tidy, Ahead, Bare
<1>3. files[s] \subseteq Outputs[s]
  BY <1>1, <1>2 DEF Tidy, Current
<1>4. /\ DirTypes'
      /\ \A t \in Stage : t # s =>
           /\ staged'[t] = staged[t] /\ files'[t] = files[t]
           /\ listed'[t] = listed[t] /\ seal'[t] = seal[t]
      /\ staged'[s] \subseteq staged[s] /\ files'[s] \subseteq files[s]
      /\ listed'[s] \subseteq listed[s]
      /\ seal'[s] = 0 \/ (seal'[s] = seal[s] /\ files'[s] = files[s]
                          /\ listed'[s] = listed[s])
      /\ k = Undoes => /\ staged'[s] = {} /\ files'[s] = {} /\ listed'[s] = {}
                       /\ seal'[s] = 0
      /\ manifest => manifest'
  BY <1>3, AbortFacts DEF Tidy, DirTypes
<1>5. s > st => \A t \in Stage :
        /\ staged'[t] = staged[t] /\ files'[t] = files[t]
        /\ listed'[t] = listed[t] /\ seal'[t] = seal[t]
  BY <1>2, <1>4
<1>6. Settled' /\ Ahead'
  BY <1>1, <1>4, <1>5, Constants
     DEF Tidy, Settled, Ahead, Sealed, Promoted, Held, Bare
<1>7. Current'
  <2>1. CASE s > st
    BY <1>1, <1>5, <2>1 DEF Tidy, Current, Sealed, Promoted, Held, Frayed
  <2>2. CASE s = st
    BY <1>1, <1>4, <2>2 DEF Tidy, Current, Sealed, Promoted, Held, Frayed
  <2> QED
    BY <1>1, <2>1, <2>2
<1>8. ManifestBegun'
  BY <1>4 DEF Tidy, ManifestBegun
<1>9. \A t \in Stage : t < st => seal'[t] = seal[t]
  BY <1>1, <1>4, Constants
<1> QED
  BY <1>4, <1>5, <1>6, <1>7, <1>8, <1>9 DEF Tidy

\* A fault between setup and evaluation leaves the memory as it is: if the
\* directory is left tidy, so is the run.
LEMMA FaultStep ==
  ASSUME IInv, Tidy', Interrupt \/ Exception,
         pc \notin {"setup"} \cup Evaluating \cup Closing,
         UNCHANGED <<frozen, record, place, results, evals, expired>>,
         \A s \in Stage : s < st => seal'[s] = seal[s]
  PROVE  IInv'
<1> USE DEF place, evals, Evaluating, Recovering, Ending, Closing
<1>1. /\ CountTypes'
      /\ \/ /\ pc' = "reconciling" /\ status' = status /\ interrupts' > 0
         \/ /\ pc' = "rolling_back" /\ status' = status /\ exceptions' > 0
            /\ pc \in Transaction
         \/ /\ pc' = "terminal" /\ status' = "infrastructure_failure"
            /\ exceptions' > 0 /\ pc \notin Transaction
  BY FaultFacts DEF IInv, Memory
<1>2. /\ st \in Stage /\ st \in Nat /\ Len(results) = st - 1 /\ st <= NStages
      /\ frozen = Frozen /\ ~evalStarted /\ ~evalCommitted
      /\ outcome = "none" /\ ~evalError /\ status = "succeeded"
      /\ evaluation = "none" /\ record = NoRecord
      /\ pc \in Transaction => expired = {}
  <2>1. /\ st \in Stage /\ st \in Nat /\ st <= NStages
    BY MemoryFacts DEF IInv, Tidy, Memory
  <2>2. Len(results) = st - 1
    BY DEF IInv, Memory, Remembered
  <2>3. ~evalStarted
    BY <2>1, <2>2 DEF IInv, Memory, Judged
  <2>4. pc \in Transaction => expired = {}
    BY DEF IInv, Memory, Expiry, Transaction
  <2> QED
    BY <2>1, <2>2, <2>3, <2>4 DEF IInv, Memory, Authorized, Judged, RecordIsMemory
<1>3. RunTypes' /\ FlagTypes'
  <2>1. RunTypes'
    BY <1>1 DEF IInv, Memory, RunTypes, FailedStatuses
  <2>2. FlagTypes'
    BY DEF IInv, Memory, FlagTypes
  <2> QED
    BY <2>1, <2>2
<1>4. Progress' /\ Expiry'
  BY <1>1, <1>2 DEF Progress, Expiry
<1>5. Remembered'
  <2>1. \A i \in 1..Len(results) :
          /\ results[i].status = "succeeded" /\ i \in Stage /\ i < st
          /\ seal[i] = results[i].attempt
    BY <1>2, Constants DEF IInv, Memory, Remembered
  <2>2. \A i \in 1..Len(results) : Sealed(i)'
    BY <2>1 DEF Tidy, Settled
  <2>3. \A i \in 1..Len(results) : seal'[i] = results[i].attempt
    BY <2>1
  <2> QED
    BY <1>1, <1>2, <2>1, <2>2, <2>3 DEF Remembered
<1>6. Authorized' /\ Judged'
  BY <1>1, <1>2, Constants DEF Authorized, Judged
<1>7. RecordIsMemory' /\ CleanEnd'
  BY <1>1, <1>2 DEF RecordIsMemory, CleanEnd, CountTypes
<1> QED
  BY <1>1, <1>3, <1>4, <1>5, <1>6, <1>7 DEF IInv, Memory

\* Working on the current stage while it has no seal disturbs no other stage.
LEMMA HereTidy ==
  ASSUME Tidy, st \in Stage, seal[st] = 0,
         staged' \in [Stage -> SUBSET Name], files' \in [Stage -> SUBSET Name],
         listed' \in [Stage -> SUBSET Name], manifest' \in BOOLEAN,
         \A s \in Stage : s # st => /\ staged'[s] = staged[s] /\ files'[s] = files[s]
                                    /\ listed'[s] = listed[s],
         staged'[st] \subseteq Outputs[st], files'[st] \subseteq Outputs[st],
         listed'[st] \subseteq Outputs[st],
         manifest => manifest', listed'[st] # {} => listed[st] # {} \/ manifest',
         UNCHANGED <<evidence, seal, st>>
  PROVE  Tidy'
<1>1. \A s \in Stage : s < st \/ s > st => s # st
  BY Constants
<1>2. DirTypes'
  BY DEF Tidy, DirTypes
<1>3. Settled' /\ Ahead'
  BY <1>1 DEF Tidy, Settled, Ahead, Sealed, Promoted, Held, Bare
<1>4. Current'
  BY DEF Tidy, Current, Frayed
<1>5. ManifestBegun'
  BY DEF Tidy, ManifestBegun
<1> QED
  BY <1>2, <1>3, <1>4, <1>5 DEF Tidy

\* A seal is put only on what it vouches for.
LEMMA SealTidy ==
  ASSUME Tidy, st \in Stage, Promoted(st), Held(st, attempt),
         attempt \in 1..MaxAttempts, seal' \in [Stage -> 0..MaxAttempts],
         \A s \in Stage : s # st => seal'[s] = seal[s],
         seal'[st] = 0 \/ seal'[st] = attempt,
         UNCHANGED <<manifest, staged, files, listed, evidence, st>>
  PROVE  Tidy'
<1>1. \A s \in Stage : s < st \/ s > st => s # st
  BY Constants
<1>2. DirTypes' /\ ManifestBegun'
  BY DEF Tidy, DirTypes, ManifestBegun
<1>3. Settled' /\ Ahead'
  BY <1>1 DEF Tidy, Settled, Ahead, Sealed, Promoted, Held, Bare
<1>4. Current'
  BY Constants DEF Tidy, Current, Sealed, Promoted, Held, Frayed
<1> QED
  BY <1>2, <1>3, <1>4 DEF Tidy

\* A stage that fails leaves nothing behind but its attempts, and ends the run.
LEMMA FailStep ==
  ASSUME IInv, Tidy', pc \in {"recording", "rolling_back", "recording_late"},
         NEW how \in {"failed", "retry_exhausted"},
         NEW ending \in FailedStatuses \ {"failed_evaluation"},
         FailStage(how, ending),
         staged'[st] = {}, files'[st] = {}, listed'[st] = {}, seal'[st] = 0,
         Len(evidence'[st]) = attempt, \A a \in 1..attempt : Full(evidence'[st][a]),
         \A s \in Stage : s < st => seal'[s] = seal[s],
         UNCHANGED <<frozen, record, place, evals, faults, expired>>
  PROVE  IInv'
<1> USE DEF place, evals, faults, Evaluating, Recovering, Ending, Closing
<1> DEFINE r == [status |-> how, attempt |-> attempt]
<1>1. results' = Append(results, r) /\ status' = ending /\ pc' = "leaving"
  BY DEF FailStage
<1>2. /\ st \in Stage /\ st \in Nat /\ Len(results) = st - 1 /\ st <= NStages
      /\ frozen = Frozen /\ ~evalStarted /\ ~evalCommitted
      /\ outcome = "none" /\ ~evalError /\ evaluation = "none"
      /\ record = NoRecord
  <2>1. /\ st \in Stage /\ st \in Nat /\ st <= NStages
    BY MemoryFacts DEF IInv, Tidy, Memory
  <2>2. Len(results) = st - 1
    BY DEF IInv, Memory, Remembered
  <2>3. ~evalStarted
    BY <2>1, <2>2 DEF IInv, Memory, Judged
  <2> QED
    BY <2>1, <2>2, <2>3 DEF IInv, Memory, Authorized, Judged, RecordIsMemory
<1>3. r \in Result /\ r.status # "succeeded" /\ r.attempt = attempt
  BY Zenon DEF Result, IInv, Memory, RunTypes
<1> HIDE DEF r
<1>4. /\ results' \in Seq(Result) /\ Len(results') = st
      /\ \A i \in 1..(st - 1) : results'[i] = results[i]
      /\ results'[st] = r
  <2>1. Len(results) < NStages /\ Len(results) + 1 = st
    BY <1>2, Constants
  <2>2. DirTypes /\ RunTypes
    BY DEF IInv, Tidy, Memory
  <2>3. /\ results' \in Seq(Result) /\ Len(results') = Len(results) + 1
        /\ \A i \in 1..Len(results) : results'[i] = results[i]
        /\ results'[Len(results) + 1] = r
    BY <2>1, <2>2, <1>1, <1>3, AppendedResult
  <2> QED
    BY <2>1, <2>3, <1>2
<1>5. RunTypes' /\ FlagTypes' /\ CountTypes'
  <2>1. RunTypes'
    BY <1>1, <1>2, <1>4 DEF IInv, Memory, RunTypes
  <2>2. FlagTypes' /\ CountTypes'
    BY DEF IInv, Memory, FlagTypes, CountTypes
  <2> QED
    BY <2>1, <2>2
<1>6. Progress' /\ Expiry'
  BY <1>1 DEF Progress, Expiry
<1>7. Remembered'
  <2>1. \A i \in 1..(st - 1) :
          /\ results'[i].status = "succeeded" /\ i \in Stage /\ i < st
          /\ seal'[i] = results'[i].attempt
    BY <1>2, <1>4, Constants DEF IInv, Memory, Remembered
  <2>2. \A i \in 1..(st - 1) : Sealed(i)'
    BY <2>1 DEF Tidy, Settled
  <2>3. /\ results'[st].status # "succeeded" /\ Bare(st)'
        /\ Held(st, results[st].attempt)'
    BY <1>3, <1>4 DEF Bare, Held
  <2> QED
    BY <1>1, <1>2, <1>4, <2>1, <2>2, <2>3 DEF Remembered
<1>8. status' \notin {"succeeded", "failed_evaluation"}
  BY <1>1 DEF FailedStatuses
<1>9. UNCHANGED <<frozen, evalStarted, evalCommitted, outcome, evalError,
                  evaluation, record, st>>
  OBVIOUS
<1>10. Authorized'
  BY <1>1, <1>2, <1>9, Constants DEF Authorized
<1>11. Judged'
  BY <1>1, <1>2, <1>8, <1>9 DEF Judged
<1>12. RecordIsMemory'
  BY <1>1, <1>2, <1>9 DEF RecordIsMemory
<1>13. CleanEnd'
  BY <1>1, <1>2, <1>8, <1>9, Constants DEF CleanEnd
<1> QED
  BY <1>5, <1>6, <1>7, <1>10, <1>11, <1>12, <1>13 DEF IInv, Memory

LEMMA InvokeCutStep ==
  ASSUME IInv, InvokeCut
  PROVE  IInv'
<1>1. Tidy'
  BY KeptTidy DEF IInv, Tidy, DirTypes, InvokeCut, dir, place
<1> QED
  BY <1>1, FaultStep DEF InvokeCut, dir, place, Evaluating, Recovering, Ending, Closing

LEMMA ConfirmCutStep ==
  ASSUME IInv, ConfirmCut
  PROVE  IInv'
<1>1. Tidy'
  BY KeptTidy DEF IInv, Tidy, DirTypes, ConfirmCut, dir, place
<1> QED
  BY <1>1, FaultStep DEF ConfirmCut, dir, place, Evaluating, Recovering, Ending, Closing

LEMMA RecordCutStep ==
  ASSUME IInv, RecordCut
  PROVE  IInv'
<1>1. PICK k \in 0..Writes, raw \in BOOLEAN :
        Cut(k, Writes) /\ RecordInvocation(st, raw, k)
  BY DEF RecordCut, Raws
<1>2. seal[st] = 0 /\ Held(st, attempt - 1)
  BY DEF IInv, Memory, RecordCut, Progress, Bare
<1>3. UNCHANGED <<frozen, staged, files, listed, seal, record, place, results,
                  evals, expired>>
  BY DEF RecordCut
<1>4. Tidy'
  BY <1>1, <1>2, <1>3, RecordTidy DEF IInv, Memory, place
<1>5. Interrupt \/ Exception
  BY <1>1 DEF Cut
<1> QED
  BY <1>3, <1>4, <1>5, FaultStep
     DEF RecordCut, Evaluating, Recovering, Ending, Closing

LEMMA BindCutStep ==
  ASSUME IInv, BindCut
  PROVE  IInv'
<1>1. PICK k \in 0..Writes : Cut(k, Writes) /\ RecordInvocation(st, TRUE, k)
  BY DEF BindCut
<1>2. seal[st] = 0 /\ Held(st, attempt - 1)
  BY DEF IInv, Memory, BindCut, Progress
<1>3. UNCHANGED <<frozen, staged, files, listed, seal, record, place, results,
                  evals, expired>>
  BY DEF BindCut
<1>4. Tidy'
  BY <1>1, <1>2, <1>3, RecordTidy DEF IInv, Memory, place
<1>5. Interrupt \/ Exception
  BY <1>1 DEF Cut
<1> QED
  BY <1>3, <1>4, <1>5, FaultStep
     DEF BindCut, Evaluating, Recovering, Ending, Closing

LEMMA RecordLateCutStep ==
  ASSUME IInv, RecordLateCut
  PROVE  IInv'
<1>1. PICK k \in 0..Writes : Cut(k, Writes) /\ RecordInvocation(st, TRUE, k)
  BY DEF RecordLateCut
<1>2. seal[st] = 0 /\ Held(st, attempt - 1)
  BY DEF IInv, Memory, RecordLateCut, Progress, Bare
<1>3. UNCHANGED <<frozen, staged, files, listed, seal, record, place, results,
                  evals, expired>>
  BY DEF RecordLateCut
<1>4. Tidy'
  BY <1>1, <1>2, <1>3, RecordTidy DEF IInv, Memory, place
<1>5. Interrupt \/ Exception
  BY <1>1 DEF Cut
<1> QED
  BY <1>3, <1>4, <1>5, FaultStep
     DEF RecordLateCut, Evaluating, Recovering, Ending, Closing

LEMMA StageCutStep ==
  ASSUME IInv, StageCut
  PROVE  IInv'
<1>1. PICK n \in Outputs[st] \ staged[st], k \in 0..1 :
        Cut(k, 1) /\ staged' = IF k = 0 THEN staged
                               ELSE [staged EXCEPT ![st] = @ \cup {n}]
  BY DEF StageCut
<1>2. /\ pc = "staging"
      /\ UNCHANGED <<frozen, manifest, files, listed, evidence, seal, record,
                     place, results, evals, expired>>
  BY DEF StageCut
<1>3. /\ \A s \in Stage : s # st => staged'[s] = staged[s]
      /\ staged'[st] \subseteq Outputs[st] /\ staged' \in [Stage -> SUBSET Name]
      /\ seal[st] = 0 /\ st \in Stage
  BY <1>1, <1>2, Constants
     DEF IInv, Tidy, Memory, DirTypes, RunTypes, Current, Progress
<1>4. Tidy'
  <2>1. /\ files \in [Stage -> SUBSET Name] /\ listed \in [Stage -> SUBSET Name]
        /\ manifest \in BOOLEAN /\ Tidy
        /\ files[st] \subseteq Outputs[st] /\ listed[st] \subseteq Outputs[st]
    BY DEF IInv, Tidy, DirTypes, Current
  <2>2. UNCHANGED <<files, listed, manifest, evidence, seal, st>>
    BY <1>2 DEF place
  <2>3. listed'[st] # {} => listed[st] # {} \/ manifest'
    BY <2>2
  <2> QED
    BY <2>1, <2>2, <2>3, <1>3, HereTidy
<1>5. Interrupt \/ Exception
  BY <1>1 DEF Cut
<1> QED
  BY <1>2, <1>4, <1>5, FaultStep DEF Evaluating, Recovering, Ending, Closing

LEMMA PromoteCutStep ==
  ASSUME IInv, PromoteCut
  PROVE  IInv'
<1>1. PICK done \in SUBSET staged[st], next \in SUBSET staged[st] :
        /\ files' = [files EXCEPT ![st] = @ \cup done \cup next]
        /\ listed' = [listed EXCEPT ![st] = @ \cup done]
        /\ manifest' = (manifest \/ done # {})
  BY DEF PromoteCut
<1>2. /\ pc = "promoting" /\ (Interrupt \/ Exception)
      /\ UNCHANGED <<frozen, staged, evidence, seal, record, place, results,
                     evals, expired>>
  BY DEF PromoteCut
<1>3. /\ st \in Stage /\ st \in Nat /\ seal[st] = 0 /\ listed[st] = {}
      /\ staged[st] \subseteq Outputs[st] /\ files[st] \subseteq Outputs[st]
      /\ Outputs[st] \subseteq Name
  BY <1>2, MemoryFacts, Constants DEF IInv, Tidy, Memory, Current, Progress
<1>4. manifest' \in BOOLEAN /\ (manifest => manifest') /\ (done # {} => manifest')
  BY <1>1, Zenon
<1>5. /\ files' \in [Stage -> SUBSET Name] /\ listed' \in [Stage -> SUBSET Name]
      /\ \A s \in Stage : s # st => files'[s] = files[s] /\ listed'[s] = listed[s]
      /\ files'[st] \subseteq Outputs[st] /\ listed'[st] = done
  BY <1>1, <1>3 DEF IInv, Tidy, DirTypes
<1>6. Tidy'
  <2>1. staged \in [Stage -> SUBSET Name] /\ Tidy
    BY DEF IInv, Tidy, DirTypes
  <2>2. UNCHANGED <<staged, evidence, seal, st>>
    BY <1>2 DEF place
  <2>3. listed'[st] \subseteq Outputs[st] /\ (listed'[st] # {} => manifest')
    BY <1>3, <1>4, <1>5
  <2> QED
    BY <2>1, <2>2, <2>3, <1>3, <1>4, <1>5, HereTidy
<1> QED
  BY <1>2, <1>6, FaultStep DEF Evaluating, Recovering, Ending, Closing

LEMMA SealCutStep ==
  ASSUME IInv, SealCut
  PROVE  IInv'
<1>1. PICK k \in 0..1 : Cut(k, 1) /\ seal' = IF k = 0 THEN seal
                                             ELSE [seal EXCEPT ![st] = attempt]
  BY DEF SealCut
<1>2. /\ pc = "sealing"
      /\ UNCHANGED <<frozen, manifest, staged, files, listed, evidence, record,
                     place, results, evals, expired>>
  BY DEF SealCut
<1>3. /\ st \in Stage /\ st \in Nat /\ Promoted(st) /\ Held(st, attempt)
      /\ seal[st] = 0 /\ attempt \in 1..MaxAttempts
  BY <1>2, MemoryFacts DEF IInv, Tidy, Memory, Progress, RunTypes
<1>4. /\ seal' \in [Stage -> 0..MaxAttempts]
      /\ \A s \in Stage : s # st => seal'[s] = seal[s]
      /\ seal'[st] = 0 \/ seal'[st] = attempt
  BY <1>1, <1>3, Constants DEF IInv, Tidy, DirTypes
<1>5. Tidy'
  BY <1>2, <1>3, <1>4, SealTidy DEF IInv, place
<1>6. Interrupt \/ Exception
  BY <1>1 DEF Cut
<1>7. \A s \in Stage : s < st => seal'[s] = seal[s]
  BY <1>3, <1>4, Constants
<1> QED
  BY <1>2, <1>5, <1>6, <1>7, FaultStep DEF Evaluating, Recovering, Ending, Closing

LEMMA RollBackCutStep ==
  ASSUME IInv, RollBackCut
  PROVE  IInv'
<1>1. PICK k \in 0..Undoes : Cut(k, Undoes) /\ AbortUncommitted(st, k)
  BY DEF RollBackCut
<1>2. /\ pc = "rolling_back"
      /\ UNCHANGED <<frozen, evidence, record, place, results, evals, expired>>
  BY DEF RollBackCut
<1>3. st \in Stage /\ st >= st
  BY MemoryFacts DEF IInv, Tidy, Memory
<1>4. Tidy' /\ \A s \in Stage : s < st => seal'[s] = seal[s]
  BY <1>1, <1>2, <1>3, AbortTidy DEF IInv, Memory, place
<1>5. Interrupt \/ Exception
  BY <1>1 DEF Cut
<1> QED
  BY <1>2, <1>4, <1>5, FaultStep DEF Evaluating, Recovering, Ending, Closing

-----------------------------------------------------------------------------
(* The steps of a run that goes on.                                        *)

Working == {"invoking", "recording", "recording_late"} \cup Transaction

\* Work on the current stage says nothing yet of the run.
LEMMA WorkStep ==
  ASSUME IInv, Tidy', Progress', Expiry',
         pc \in Working \cup {"rolling_back"}, pc' \in Working,
         attempt' \in 1..MaxAttempts,
         \A s \in Stage : s < st => seal'[s] = seal[s],
         UNCHANGED <<frozen, record, st, verdict, state, evals, faults, expired>>
  PROVE  IInv'
<1> USE DEF state, evals, faults, Evaluating, Recovering, Ending, Closing,
            Working, Transaction
<1>1. /\ st \in Stage /\ st \in Nat /\ Len(results) = st - 1 /\ st <= NStages
      /\ frozen = Frozen /\ ~evalStarted /\ ~evalCommitted
      /\ outcome = "none" /\ ~evalError /\ status = "succeeded"
      /\ evaluation = "none" /\ record = NoRecord
  <2>1. /\ st \in Stage /\ st \in Nat /\ st <= NStages
    BY MemoryFacts DEF IInv, Tidy, Memory
  <2>2. Len(results) = st - 1
    BY DEF IInv, Memory, Remembered
  <2>3. ~evalStarted
    BY <2>1, <2>2 DEF IInv, Memory, Judged
  <2> QED
    BY <2>1, <2>2, <2>3 DEF IInv, Memory, Authorized, Judged, RecordIsMemory
<1>2. RunTypes' /\ FlagTypes' /\ CountTypes'
  BY DEF IInv, Memory, RunTypes, FlagTypes, CountTypes
<1>3. Remembered'
  <2>1. \A i \in 1..Len(results) :
          /\ results[i].status = "succeeded" /\ i \in Stage /\ i < st
          /\ seal[i] = results[i].attempt
    BY <1>1, Constants DEF IInv, Memory, Remembered
  <2>2. \A i \in 1..Len(results) : Sealed(i)'
    BY <2>1 DEF Tidy, Settled
  <2> QED
    BY <1>1, <2>1, <2>2 DEF Remembered
<1>4. Authorized' /\ Judged'
  BY <1>1, Constants DEF Authorized, Judged
<1>5. RecordIsMemory' /\ CleanEnd'
  BY <1>1 DEF RecordIsMemory, CleanEnd
<1> QED
  BY <1>2, <1>3, <1>4, <1>5 DEF IInv, Memory

\* A run may end at a stage without a seal and without a result about it.
LEMMA GiveUpStep ==
  ASSUME IInv, Tidy', pc \in {"recording", "rolling_back"}, pc' = "terminal",
         status' \in {"infrastructure_failure", "failed_governance"},
         seal'[st] = 0, \A s \in Stage : s < st => seal'[s] = seal[s],
         UNCHANGED <<frozen, record, place, results, evals, faults, expired>>
  PROVE  IInv'
<1> USE DEF place, evals, faults, Evaluating, Recovering, Ending, Closing
<1>1. /\ st \in Stage /\ st \in Nat /\ Len(results) = st - 1 /\ st <= NStages
      /\ frozen = Frozen /\ ~evalStarted /\ ~evalCommitted
      /\ outcome = "none" /\ record = NoRecord
  <2>1. /\ st \in Stage /\ st \in Nat /\ st <= NStages
    BY MemoryFacts DEF IInv, Tidy, Memory
  <2>2. Len(results) = st - 1
    BY DEF IInv, Memory, Remembered
  <2>3. ~evalStarted
    BY <2>1, <2>2 DEF IInv, Memory, Judged
  <2> QED
    BY <2>1, <2>2, <2>3 DEF IInv, Memory, Authorized, Judged, RecordIsMemory
<1>2. RunTypes' /\ FlagTypes' /\ CountTypes'
  BY DEF IInv, Memory, RunTypes, FlagTypes, CountTypes, FailedStatuses
<1>3. Progress' /\ Expiry'
  BY DEF Progress, Expiry
<1>4. Remembered'
  <2>1. \A i \in 1..Len(results) :
          /\ results[i].status = "succeeded" /\ i \in Stage /\ i < st
          /\ seal[i] = results[i].attempt
    BY <1>1, Constants DEF IInv, Memory, Remembered
  <2>2. \A i \in 1..Len(results) : Sealed(i)'
    BY <2>1 DEF Tidy, Settled
  <2> QED
    BY <1>1, <2>1, <2>2 DEF Remembered
<1>5. Authorized' /\ Judged'
  BY <1>1, Constants DEF Authorized, Judged
<1>6. RecordIsMemory' /\ CleanEnd'
  BY <1>1, Constants DEF RecordIsMemory, CleanEnd
<1> QED
  BY <1>2, <1>3, <1>4, <1>5, <1>6 DEF IInv, Memory

LEMMA RecordAttemptStep ==
  ASSUME IInv, RecordAttempt
  PROVE  IInv'
<1>1. PICK raw \in BOOLEAN : RecordInvocation(st, raw, Writes)
  BY DEF RecordAttempt, Raws
<1>2. /\ pc = "recording" /\ expired = {}
      /\ Bare(st) /\ Held(st, attempt - 1) /\ seal[st] = 0
  BY DEF RecordAttempt, IInv, Memory, Progress, Expiry, Bare, Closing,
         Recovering, Ending
<1>3. UNCHANGED <<frozen, staged, files, listed, seal, record, st, verdict,
                  evals, faults, expired>>
  BY DEF RecordAttempt
<1>4. /\ Tidy'
      /\ Len(evidence'[st]) = attempt /\ \A a \in 1..attempt : Full(evidence'[st][a])
  BY <1>1, <1>2, <1>3, RecordTidy, Constants DEF IInv, Memory
<1>5. Bare(st)' /\ \A s \in Stage : s < st => seal'[s] = seal[s]
  BY <1>2, <1>3 DEF Bare
<1>6. attempt \in Nat /\ attempt > 0 /\ attempt <= MaxAttempts
  BY MemoryFacts DEF IInv, Tidy, Memory
<1>7. CASE /\ attempt < MaxAttempts /\ pc' = "invoking" /\ attempt' = attempt + 1
           /\ UNCHANGED <<status, results>>
  <2>1. Progress' /\ Expiry'
    BY <1>2, <1>3, <1>4, <1>5, <1>6, <1>7 DEF Progress, Expiry, Held, Evaluating
  <2>2. attempt' \in 1..MaxAttempts
    BY <1>6, <1>7, Constants
  <2> QED
    BY <1>2, <1>3, <1>4, <1>5, <1>7, <2>1, <2>2, WorkStep DEF Working, state
<1>8. ASSUME NEW how \in {"failed", "retry_exhausted"},
             NEW ending \in FailedStatuses \ {"failed_evaluation"},
             FailStage(how, ending), UNCHANGED attempt
      PROVE  IInv'
  BY <1>2, <1>3, <1>4, <1>5, <1>8, FailStep DEF Bare, place
<1>9. CASE /\ pc' = "terminal"
           /\ status' = IF verdict = "identity" THEN "failed_governance"
                        ELSE "infrastructure_failure"
           /\ UNCHANGED <<results, attempt>>
  BY <1>2, <1>3, <1>4, <1>5, <1>9, GiveUpStep DEF Bare, place
<1>10. ASSUME NEW terminal \in TerminalFor(verdict)
       PROVE  terminal \in FailedStatuses \ {"failed_evaluation"}
  BY <1>10 DEF TerminalFor, FailedStatuses
<1>11. "retry_exhausted" \in FailedStatuses \ {"failed_evaluation"}
  BY DEF FailedStatuses
<1> QED
  BY <1>7, <1>8, <1>9, <1>10, <1>11 DEF RecordAttempt, AfterRecording

LEMMA StageArtifactStep ==
  ASSUME IInv, NEW n \in Name, StageArtifact(n)
  PROVE  IInv'
<1>1. /\ pc = "staging" /\ n \in Outputs[st]
      /\ staged' = [staged EXCEPT ![st] = staged[st] \cup {n}]
      /\ pc' = IF staged'[st] = Outputs[st] THEN "promoting" ELSE "staging"
      /\ UNCHANGED <<frozen, manifest, files, listed, evidence, seal, record,
                     place, state, evals, faults, expired>>
  BY DEF StageArtifact
<1>2. /\ files[st] = {} /\ listed[st] = {} /\ seal[st] = 0 /\ expired = {}
      /\ Held(st, attempt - 1)
  BY <1>1 DEF IInv, Memory, Progress, Expiry, Closing, Recovering, Ending
<1>3. /\ \A s \in Stage : s # st => staged'[s] = staged[s]
      /\ staged'[st] \subseteq Outputs[st] /\ staged' \in [Stage -> SUBSET Name]
      /\ st \in Stage
  BY <1>1, Constants DEF IInv, Tidy, Memory, DirTypes, RunTypes, Current
<1>4. Tidy'
  <2>1. /\ files \in [Stage -> SUBSET Name] /\ listed \in [Stage -> SUBSET Name]
        /\ manifest \in BOOLEAN /\ Tidy
        /\ files[st] \subseteq Outputs[st] /\ listed[st] \subseteq Outputs[st]
    BY DEF IInv, Tidy, DirTypes, Current
  <2>2. UNCHANGED <<files, listed, manifest, evidence, seal, st>>
    BY <1>1 DEF place
  <2>3. listed'[st] # {} => listed[st] # {} \/ manifest'
    BY <2>2
  <2> QED
    BY <2>1, <2>2, <2>3, <1>2, <1>3, HereTidy
<1>5. Progress' /\ Expiry'
  BY <1>1, <1>2 DEF place, Progress, Expiry, Held, Evaluating, Closing,
                    Recovering, Ending
<1>6. attempt' \in 1..MaxAttempts
  BY <1>1 DEF place, IInv, Memory, RunTypes
<1> QED
  BY <1>1, <1>4, <1>5, <1>6, WorkStep DEF place, Working, Transaction

LEMMA PromoteStep ==
  ASSUME IInv, Promote
  PROVE  IInv'
<1>1. /\ pc = "promoting" /\ pc' = "binding"
      /\ files' = [files EXCEPT ![st] = files[st] \cup staged[st]]
      /\ listed' = [listed EXCEPT ![st] = listed[st] \cup staged[st]]
      /\ staged' = [staged EXCEPT ![st] = {}]
      /\ manifest' = TRUE
      /\ UNCHANGED <<frozen, evidence, seal, record, place, state, evals,
                     faults, expired>>
  BY DEF Promote
<1>2. /\ files[st] = {} /\ listed[st] = {} /\ seal[st] = 0 /\ expired = {}
      /\ Held(st, attempt - 1) /\ staged[st] = Outputs[st]
  BY <1>1 DEF IInv, Memory, Progress, Expiry, Closing, Recovering, Ending
<1>3. /\ staged' \in [Stage -> SUBSET Name] /\ files' \in [Stage -> SUBSET Name]
      /\ listed' \in [Stage -> SUBSET Name] /\ st \in Stage
      /\ \A s \in Stage : s # st => /\ staged'[s] = staged[s]
                                    /\ files'[s] = files[s] /\ listed'[s] = listed[s]
      /\ staged'[st] = {} /\ files'[st] = Outputs[st] /\ listed'[st] = Outputs[st]
  BY <1>1, <1>2, Constants DEF IInv, Tidy, Memory, DirTypes, RunTypes
<1>4. Tidy'
  <2>1. UNCHANGED <<evidence, seal, st>> /\ manifest' /\ manifest' \in BOOLEAN
    BY <1>1 DEF place
  <2>2. Tidy
    BY DEF IInv
  <2> QED
    BY <2>1, <2>2, <1>2, <1>3, HereTidy
<1>5. Promoted(st)' /\ seal'[st] = 0 /\ Held(st, attempt - 1)'
  BY <1>1, <1>2, <1>3 DEF place, Promoted, Held
<1>6. Progress' /\ Expiry'
  BY <1>1, <1>2, <1>5 DEF place, Progress, Expiry, Evaluating
<1>7. attempt' \in 1..MaxAttempts
  BY <1>1 DEF place, IInv, Memory, RunTypes
<1> QED
  BY <1>1, <1>4, <1>6, <1>7, WorkStep DEF place, Working, Transaction

LEMMA BindStep ==
  ASSUME IInv, Bind
  PROVE  IInv'
<1>1. /\ pc = "binding" /\ pc' = "sealing" /\ RecordInvocation(st, TRUE, Writes)
      /\ UNCHANGED <<frozen, staged, files, listed, seal, record, place, state,
                     evals, faults, expired>>
  BY DEF Bind
<1>2. Promoted(st) /\ seal[st] = 0 /\ expired = {} /\ Held(st, attempt - 1)
  BY <1>1 DEF IInv, Memory, Progress, Expiry, Closing, Recovering, Ending
<1>3. /\ Tidy'
      /\ Len(evidence'[st]) = attempt /\ \A a \in 1..attempt : Full(evidence'[st][a])
  <2>1. UNCHANGED <<staged, files, listed, seal, st>> /\ Tidy /\ RunTypes
    BY <1>1 DEF place, IInv, Memory
  <2>2. Writes \in 0..Writes /\ TRUE \in BOOLEAN
    BY Constants
  <2> QED
    BY <1>1, <1>2, <2>1, <2>2, RecordTidy
<1>4. Promoted(st)' /\ seal'[st] = 0 /\ Held(st, attempt)'
  BY <1>1, <1>2, <1>3 DEF place, Promoted, Held
<1>5. Progress' /\ Expiry'
  BY <1>1, <1>2, <1>4 DEF place, Progress, Expiry, Evaluating
<1>6. attempt' \in 1..MaxAttempts
  BY <1>1 DEF place, IInv, Memory, RunTypes
<1> QED
  BY <1>1, <1>3, <1>5, <1>6, WorkStep DEF place, Working, Transaction

LEMMA SealStageStep ==
  ASSUME IInv, SealStage
  PROVE  IInv'
<1>1. /\ pc = "sealing" /\ pc' = "confirming"
      /\ seal' = [seal EXCEPT ![st] = attempt]
      /\ UNCHANGED <<frozen, manifest, staged, files, listed, evidence, record,
                     place, state, evals, faults, expired>>
  BY DEF SealStage
<1>2. /\ st \in Stage /\ st \in Nat /\ Promoted(st) /\ Held(st, attempt)
      /\ attempt \in 1..MaxAttempts /\ expired = {}
  BY <1>1, MemoryFacts DEF IInv, Tidy, Memory, Progress, RunTypes, Expiry,
                           Closing, Recovering, Ending
<1>3. /\ seal' \in [Stage -> 0..MaxAttempts] /\ seal'[st] = attempt
      /\ \A s \in Stage : s # st => seal'[s] = seal[s]
  BY <1>1, <1>2, Constants DEF IInv, Tidy, DirTypes
<1>4. Tidy'
  BY <1>1, <1>2, <1>3, SealTidy DEF IInv, place
<1>5. Sealed(st)' /\ seal'[st] = attempt'
  BY <1>1, <1>2, <1>3 DEF place, Sealed, Promoted, Held
<1>6. Progress' /\ Expiry'
  BY <1>1, <1>2, <1>5 DEF place, Progress, Expiry, Evaluating
<1>7. \A s \in Stage : s < st => seal'[s] = seal[s]
  BY <1>2, <1>3, Constants
<1> QED
  BY <1>1, <1>2, <1>4, <1>6, <1>7, WorkStep DEF place, Working, Transaction

LEMMA RecordLateStep ==
  ASSUME IInv, RecordLate
  PROVE  IInv'
<1>1. /\ pc = "recording_late" /\ RecordInvocation(st, TRUE, Writes)
      /\ FailStage("retry_exhausted", "retry_exhausted")
      /\ UNCHANGED <<frozen, staged, files, listed, seal, record, place, evals,
                     faults, expired>>
  BY DEF RecordLate
<1>2. Bare(st) /\ seal[st] = 0 /\ Held(st, attempt - 1)
  BY <1>1 DEF IInv, Memory, Progress, Bare
<1>3. /\ Tidy'
      /\ Len(evidence'[st]) = attempt /\ \A a \in 1..attempt : Full(evidence'[st][a])
  <2>1. UNCHANGED <<staged, files, listed, seal, st>> /\ Tidy /\ RunTypes
    BY <1>1 DEF place, IInv, Memory
  <2>2. Writes \in 0..Writes /\ TRUE \in BOOLEAN
    BY Constants
  <2> QED
    BY <1>1, <1>2, <2>1, <2>2, RecordTidy
<1>4. /\ staged'[st] = {} /\ files'[st] = {} /\ listed'[st] = {} /\ seal'[st] = 0
      /\ \A s \in Stage : s < st => seal'[s] = seal[s]
  BY <1>1, <1>2 DEF Bare
<1>5. "retry_exhausted" \in FailedStatuses \ {"failed_evaluation"}
  BY DEF FailedStatuses
<1> QED
  BY <1>1, <1>3, <1>4, <1>5, FailStep

LEMMA RollBackStep ==
  ASSUME IInv, RollBack
  PROVE  IInv'
<1>1. /\ pc = "rolling_back" /\ AbortUncommitted(st, Undoes)
      /\ UNCHANGED <<frozen, evidence, record, place, evals, faults, expired>>
  BY DEF RollBack
<1>2. /\ st \in Stage /\ attempt \in Nat /\ attempt > 0 /\ attempt <= MaxAttempts
      /\ st >= st
  BY MemoryFacts DEF IInv, Tidy, Memory
<1>3. /\ Tidy' /\ \A s \in Stage : s < st => seal'[s] = seal[s]
      /\ staged'[st] = {} /\ files'[st] = {} /\ listed'[st] = {} /\ seal'[st] = 0
  BY <1>1, <1>2, AbortTidy, Constants DEF IInv, Memory, place
<1>4. CASE st \in expired /\ Recorded(st, attempt)
  <2>1. Held(st, attempt)
    BY <1>1, <1>2, <1>4, EvidenceType
       DEF IInv, Tidy, Memory, Expiry, Recorded, Held
  <2>2. "retry_exhausted" \in FailedStatuses \ {"failed_evaluation"}
    BY DEF FailedStatuses
  <2>3. FailStage("retry_exhausted", "retry_exhausted")
    BY <1>4 DEF RollBack
  <2>4. Len(evidence'[st]) = attempt /\ \A a \in 1..attempt : Full(evidence'[st][a])
    BY <1>1, <2>1 DEF Held
  <2> QED
    BY <1>1, <1>3, <2>2, <2>3, <2>4, FailStep
<1>5. CASE st \in expired /\ ~Recorded(st, attempt)
  <2>1. Held(st, attempt - 1)
    BY <1>1, <1>2, <1>5, EvidenceType
       DEF IInv, Tidy, Memory, Expiry, Recorded, Held, Full
  <2>2. pc' = "recording_late" /\ UNCHANGED <<results, status>>
    BY <1>5 DEF RollBack
  <2>3. Bare(st)' /\ Held(st, attempt - 1)'
    BY <1>1, <1>3, <2>1 DEF place, Bare, Held
  <2>4. Progress' /\ Expiry'
    BY <2>2, <2>3 DEF Progress, Expiry, Evaluating
  <2> QED
    BY <1>1, <1>2, <1>3, <2>2, <2>4, WorkStep DEF place, state, Working
<1>6. CASE st \notin expired
  BY <1>1, <1>3, <1>6, GiveUpStep DEF RollBack
<1> QED
  BY <1>4, <1>5, <1>6

LEMMA ConfirmStep ==
  ASSUME IInv, Confirm
  PROVE  IInv'
<1> USE DEF Evaluating, Recovering, Ending, Closing
<1> DEFINE r == [status |-> "succeeded", attempt |-> attempt]
<1>1. /\ pc = "confirming" /\ results' = Append(results, r) /\ attempt' = 1
      /\ UNCHANGED <<frozen, manifest, staged, files, listed, evidence, seal,
                     record, verdict, status, evals, faults, expired>>
  BY DEF Confirm, dir
<1>2. \/ st < NStages /\ st' = st + 1 /\ pc' = "invoking"
      \/ st = NStages /\ st' = st /\ pc' = "evaluating"
  BY MemoryFacts, Constants DEF Confirm, IInv, Tidy, Memory
<1>3. /\ st \in Stage /\ st \in Nat /\ st > 0 /\ st <= NStages
      /\ Sealed(st) /\ seal[st] = attempt
      /\ Len(results) = st - 1 /\ frozen = Frozen /\ expired = {}
      /\ ~evalStarted /\ ~evalCommitted
      /\ outcome = "none" /\ ~evalError /\ status = "succeeded"
      /\ evaluation = "none" /\ record = NoRecord
  <2>1. /\ st \in Stage /\ st \in Nat /\ st > 0 /\ st <= NStages
    BY MemoryFacts DEF IInv, Tidy, Memory
  <2>2. Len(results) = st - 1 /\ Sealed(st) /\ seal[st] = attempt /\ expired = {}
    BY <1>1 DEF IInv, Memory, Remembered, Progress, Expiry
  <2>3. ~evalStarted
    BY <2>1, <2>2 DEF IInv, Memory, Judged
  <2> QED
    BY <1>1, <2>1, <2>2, <2>3 DEF IInv, Memory, Authorized, Judged, RecordIsMemory
<1>4. r \in Result /\ r.status = "succeeded" /\ r.attempt = attempt
  BY Zenon DEF Result, IInv, Memory, RunTypes
<1> HIDE DEF r
<1>5. /\ results' \in Seq(Result) /\ Len(results') = st
      /\ \A i \in 1..(st - 1) : results'[i] = results[i]
      /\ results'[st] = r
  <2>1. Len(results) < NStages /\ Len(results) + 1 = st
    BY <1>3, Constants
  <2>2. DirTypes /\ RunTypes
    BY DEF IInv, Tidy, Memory
  <2>3. /\ results' \in Seq(Result) /\ Len(results') = Len(results) + 1
        /\ \A i \in 1..Len(results) : results'[i] = results[i]
        /\ results'[Len(results) + 1] = r
    BY <2>1, <2>2, <1>1, <1>4, AppendedResult
  <2> QED
    BY <2>1, <2>3, <1>3
<1>6. st < NStages => /\ st + 1 \in Stage /\ Bare(st + 1) /\ evidence[st + 1] = <<>>
  BY <1>3, Constants DEF IInv, Tidy, Ahead
<1>7. Tidy'
  <2>1. CASE st' = st
    BY <1>1, <2>1, KeptTidy DEF IInv, Tidy, DirTypes
  <2>2. CASE st < NStages /\ st' = st + 1
    <3>1. DirTypes' /\ ManifestBegun'
      BY <1>1 DEF IInv, Tidy, DirTypes, ManifestBegun
    <3>2. \A s \in Stage : s < st + 1 => Sealed(s)
      BY <1>3, Constants DEF IInv, Tidy, Settled
    <3>3. Settled'
      BY <1>1, <2>2, <3>2 DEF Settled, Sealed, Promoted, Held
    <3>4. \A s \in Stage : s > st + 1 => Bare(s) /\ evidence[s] = <<>>
      BY <1>3, Constants DEF IInv, Tidy, Ahead
    <3>5. Ahead'
      BY <1>1, <2>2, <3>4 DEF Ahead, Bare
    <3>6. Current'
      BY <1>1, <1>6, <2>2, Constants DEF Current, Bare, Frayed
    <3> QED
      BY <3>1, <3>3, <3>5, <3>6 DEF Tidy
  <2> QED
    BY <1>2, <2>1, <2>2
<1>8. RunTypes' /\ FlagTypes' /\ CountTypes'
  <2>1. st' \in Stage /\ attempt' \in 1..MaxAttempts
    BY <1>1, <1>2, <1>3, <1>6, Constants
  <2>2. FlagTypes' /\ CountTypes'
    BY <1>1 DEF IInv, Memory, FlagTypes, CountTypes, evals, faults
  <2>3. RunTypes'
    BY <1>1, <1>2, <1>3, <1>5, <2>1 DEF IInv, Memory, RunTypes, evals
  <2> QED
    BY <2>2, <2>3
<1>9. Progress'
  <2>1. CASE st < NStages /\ st' = st + 1 /\ pc' = "invoking"
    <3>1. Bare(st)'
      BY <1>1, <1>6, <2>1 DEF Bare
    <3>2. Held(st, attempt - 1)'
      BY <1>1, <1>6, <2>1 DEF Held
    <3> QED
      BY <2>1, <3>1, <3>2 DEF Progress
  <2>2. CASE st = NStages /\ st' = st /\ pc' = "evaluating"
    BY <1>1, <1>3, <2>2 DEF Progress, Sealed, Promoted, Held
  <2> QED
    BY <1>2, <2>1, <2>2
<1>10. Expiry'
  BY <1>1, <1>2, <1>3 DEF Expiry
<1>11. Remembered'
  <2>1. \A i \in 1..(st - 1) :
          /\ results'[i].status = "succeeded" /\ i \in Stage
          /\ Sealed(i) /\ seal[i] = results'[i].attempt
    BY <1>1, <1>3, <1>5, Constants DEF IInv, Memory, Remembered
  <2>2. \A i \in 1..st : /\ results'[i].status = "succeeded" /\ Sealed(i)
                         /\ seal[i] = results'[i].attempt
    BY <1>3, <1>4, <1>5, <2>1
  <2>3. \A i \in 1..st : Sealed(i)' /\ seal'[i] = results'[i].attempt
    BY <1>1, <2>2 DEF Sealed, Promoted, Held
  <2>4. Len(results') \in {st' - 1, st'}
        /\ Len(results') = IF pc' \in Evaluating THEN st' ELSE st' - 1
    BY <1>2, <1>3, <1>5
  <2> QED
    BY <1>2, <1>5, <2>2, <2>3, <2>4 DEF Remembered
<1>12. Authorized' /\ Judged'
  BY <1>1, <1>2, <1>3, Constants DEF Authorized, Judged, evals
<1>13. RecordIsMemory' /\ CleanEnd'
  BY <1>1, <1>2, <1>3 DEF RecordIsMemory, CleanEnd
<1> QED
  BY <1>7, <1>8, <1>9, <1>10, <1>11, <1>12, <1>13 DEF IInv, Memory

-----------------------------------------------------------------------------
(* The steps that leave the directory as it is, or write what is apart     *)
(* from the stages.                                                        *)

LEMMA SetupWriteStep ==
  ASSUME IInv, SetupWrite
  PROVE  IInv'
<1> USE DEF dir, place, state, evals, faults, Transaction, Evaluating,
    Recovering, Ending, Closing, SetupWrite
<1>1. Tidy'
  BY KeptTidy DEF IInv, Tidy, DirTypes
<1>2. RunTypes'
  BY Constants DEF IInv, Memory, RunTypes, Authorized
<1>3. FlagTypes' /\ CountTypes'
  BY DEF IInv, Memory, FlagTypes, CountTypes
<1>4. Progress'
  BY DEF IInv, Memory, Progress, Held, Bare
<1>5. Expiry'
  BY DEF IInv, Memory, Expiry
<1>6. Remembered'
  BY DEF IInv, Memory, Remembered, Progress
<1>7. Authorized'
  BY Constants, MemoryFacts DEF IInv, Tidy, Memory, Authorized, Bare
<1>8. Judged'
  BY DEF IInv, Memory, Judged, Remembered
<1>9. RecordIsMemory'
  BY DEF IInv, Memory, RecordIsMemory
<1>10. CleanEnd'
  BY DEF CleanEnd
<1> QED
  BY <1>1, <1>2, <1>3, <1>4, <1>5, <1>6, <1>7, <1>8, <1>9, <1>10 DEF IInv,
     Memory

LEMMA SetupCutStep ==
  ASSUME IInv, SetupCut
  PROVE  IInv'
<1> USE DEF dir, place, state, evals, faults, Transaction, Evaluating,
    Recovering, Ending, Closing, SetupCut, Cut
<1>1. Tidy'
  BY KeptTidy DEF IInv, Tidy, DirTypes
<1>2. RunTypes'
  BY Constants, FaultFacts DEF IInv, Memory, RunTypes, Authorized,
     FailedStatuses
<1>3. FlagTypes' /\ CountTypes'
  BY FaultFacts DEF IInv, Memory, FlagTypes
<1>4. Progress'
  BY FaultFacts DEF IInv, Memory, Progress
<1>5. Expiry'
  BY FaultFacts DEF IInv, Memory, Expiry
<1>6. Remembered'
  BY FaultFacts DEF IInv, Memory, Remembered, Progress
<1>7. Authorized'
  BY FaultFacts DEF IInv, Memory, Authorized, Bare
<1>8. Judged'
  BY FaultFacts DEF IInv, Memory, Judged, Remembered
<1>9. RecordIsMemory'
  BY DEF IInv, Memory, RecordIsMemory
<1>10. CleanEnd'
  BY FaultFacts DEF IInv, Memory, CleanEnd
<1> QED
  BY <1>1, <1>2, <1>3, <1>4, <1>5, <1>6, <1>7, <1>8, <1>9, <1>10 DEF IInv,
     Memory

LEMMA PreflightStep ==
  ASSUME IInv, Preflight
  PROVE  IInv'
<1> USE DEF dir, place, state, evals, faults, Transaction, Evaluating,
    Recovering, Ending, Closing, Preflight
<1>1. Tidy'
  BY KeptTidy DEF IInv, Tidy, DirTypes
<1>2. RunTypes'
  BY DEF IInv, Memory, RunTypes, FailedStatuses
<1>3. FlagTypes' /\ CountTypes'
  BY DEF IInv, Memory, FlagTypes, CountTypes
<1>4. Progress'
  BY DEF IInv, Memory, Progress, Held, Bare
<1>5. Expiry'
  BY DEF IInv, Memory, Expiry
<1>6. Remembered'
  BY DEF IInv, Memory, Remembered, Progress
<1>7. Authorized'
  BY DEF IInv, Memory, Authorized, Bare
<1>8. Judged'
  BY DEF IInv, Memory, Judged, Remembered
<1>9. RecordIsMemory'
  BY DEF IInv, Memory, RecordIsMemory
<1>10. CleanEnd'
  BY MemoryFacts DEF IInv, Tidy, Memory, CleanEnd, Judged, Progress,
     Authorized, Bare
<1> QED
  BY <1>1, <1>2, <1>3, <1>4, <1>5, <1>6, <1>7, <1>8, <1>9, <1>10 DEF IInv,
     Memory

LEMMA InvokeStep ==
  ASSUME IInv, NEW v \in Verdicts, Invoke(v)
  PROVE  IInv'
<1> USE DEF dir, place, state, evals, faults, Transaction, Evaluating,
    Recovering, Ending, Closing, Invoke
<1>1. Tidy'
  BY KeptTidy DEF IInv, Tidy, DirTypes
<1>2. RunTypes'
  BY DEF IInv, Memory, RunTypes
<1>3. FlagTypes' /\ CountTypes'
  BY DEF IInv, Memory, FlagTypes, CountTypes
<1>4. Progress'
  BY DEF IInv, Memory, Progress, Held, Bare
<1>5. Expiry'
  BY DEF IInv, Memory, Expiry
<1>6. Remembered'
  BY DEF IInv, Memory, Remembered, Sealed, Promoted, Held
<1>7. Authorized'
  BY DEF IInv, Memory, Authorized, Bare
<1>8. Judged'
  BY DEF IInv, Memory, Judged, Remembered
<1>9. RecordIsMemory'
  BY DEF IInv, Memory, RecordIsMemory
<1>10. CleanEnd'
  BY DEF CleanEnd
<1> QED
  BY <1>1, <1>2, <1>3, <1>4, <1>5, <1>6, <1>7, <1>8, <1>9, <1>10 DEF IInv,
     Memory

LEMMA ExpireStep ==
  ASSUME IInv, Expire
  PROVE  IInv'
<1> USE DEF dir, place, state, evals, faults, Transaction, Evaluating,
    Recovering, Ending, Closing, Expire
<1>1. Tidy'
  BY KeptTidy DEF IInv, Tidy, DirTypes
<1>2. RunTypes'
  BY DEF IInv, Memory, RunTypes
<1>3. FlagTypes' /\ CountTypes'
  BY DEF IInv, Memory, FlagTypes, CountTypes
<1>4. Progress'
  BY DEF Progress
<1>5. Expiry'
  BY DEF IInv, Memory, Expiry, Progress, Sealed, Held
<1>6. Remembered'
  BY DEF IInv, Memory, Remembered, Sealed, Promoted, Held
<1>7. Authorized'
  BY DEF IInv, Memory, Authorized, Bare
<1>8. Judged'
  BY <1>1, Constants, MemoryFacts DEF IInv, Tidy, Memory, Judged, Remembered,
     Progress, Sealed, Promoted, Held, Bare
<1>9. RecordIsMemory'
  BY DEF IInv, Memory, RecordIsMemory
<1>10. CleanEnd'
  BY <1>1, Constants, MemoryFacts DEF IInv, Tidy, Memory, CleanEnd, Judged,
     Remembered, Progress, Expiry, Authorized, CountTypes, FailedStatuses,
     Sealed, Promoted, Held, Bare
<1> QED
  BY <1>1, <1>2, <1>3, <1>4, <1>5, <1>6, <1>7, <1>8, <1>9, <1>10 DEF IInv,
     Memory

LEMMA StartEvaluationStep ==
  ASSUME IInv, StartEvaluation
  PROVE  IInv'
<1> USE DEF dir, place, state, evals, faults, Transaction, Evaluating,
    Recovering, Ending, Closing, StartEvaluation
<1>1. Tidy'
  BY KeptTidy DEF IInv, Tidy, DirTypes
<1>2. RunTypes'
  BY DEF IInv, Memory, RunTypes
<1>3. FlagTypes' /\ CountTypes'
  BY DEF IInv, Memory, FlagTypes, CountTypes
<1>4. Progress'
  BY DEF IInv, Memory, Progress, Sealed, Promoted, Held
<1>5. Expiry'
  BY DEF IInv, Memory, Expiry
<1>6. Remembered'
  BY DEF IInv, Memory, Remembered, Sealed, Promoted, Held
<1>7. Authorized'
  BY MemoryFacts DEF IInv, Tidy, Memory, Authorized
<1>8. Judged'
  BY DEF IInv, Memory, Judged, Remembered, Progress, Sealed, Promoted, Held
<1>9. RecordIsMemory'
  BY DEF IInv, Memory, RecordIsMemory
<1>10. CleanEnd'
  BY DEF CleanEnd
<1> QED
  BY <1>1, <1>2, <1>3, <1>4, <1>5, <1>6, <1>7, <1>8, <1>9, <1>10 DEF IInv,
     Memory

LEMMA JudgeStep ==
  ASSUME IInv, Judge
  PROVE  IInv'
<1> USE DEF dir, place, state, evals, faults, Transaction, Evaluating,
    Recovering, Ending, Closing, Judge
<1>1. Tidy'
  BY KeptTidy DEF IInv, Tidy, DirTypes
<1>2. RunTypes'
  BY DEF IInv, Memory, RunTypes, FailedStatuses
<1>3. FlagTypes' /\ CountTypes'
  BY <1>1, Constants, MemoryFacts DEF IInv, Tidy, Memory, FlagTypes,
     CountTypes
<1>4. Progress'
  BY DEF IInv, Memory, Progress, Sealed, Promoted, Held
<1>5. Expiry'
  BY DEF IInv, Memory, Expiry
<1>6. Remembered'
  BY DEF IInv, Memory, Remembered, Sealed, Promoted, Held
<1>7. Authorized'
  BY DEF IInv, Memory, Authorized, Bare
<1>8. Judged'
  BY DEF IInv, Memory, Judged, Sealed, Promoted, Held
<1>9. RecordIsMemory'
  BY DEF IInv, Memory, RecordIsMemory
<1>10. CleanEnd'
  BY DEF CleanEnd
<1> QED
  BY <1>1, <1>2, <1>3, <1>4, <1>5, <1>6, <1>7, <1>8, <1>9, <1>10 DEF IInv,
     Memory

LEMMA RecordEvaluationStep ==
  ASSUME IInv, RecordEvaluation
  PROVE  IInv'
<1> USE DEF dir, place, state, evals, faults, Transaction, Evaluating,
    Recovering, Ending, Closing, RecordEvaluation, Verdict
<1>1. Tidy'
  BY KeptTidy DEF IInv, Tidy, DirTypes
<1>2. RunTypes'
  BY DEF IInv, Memory, RunTypes
<1>3. FlagTypes' /\ CountTypes'
  BY DEF IInv, Memory, FlagTypes, CountTypes
<1>4. Progress'
  BY DEF Progress
<1>5. Expiry'
  BY DEF Expiry
<1>6. Remembered'
  BY DEF IInv, Memory, Remembered, Sealed, Promoted, Held
<1>7. Authorized'
  BY DEF IInv, Memory, Authorized, Bare
<1>8. Judged'
  BY DEF IInv, Memory, Judged, Decided, Sealed, Promoted, Held
<1>9. RecordIsMemory'
  BY DEF IInv, Memory, RecordIsMemory
<1>10. CleanEnd'
  BY DEF IInv, Memory, CleanEnd, Judged, Authorized, Sealed
<1> QED
  BY <1>1, <1>2, <1>3, <1>4, <1>5, <1>6, <1>7, <1>8, <1>9, <1>10 DEF IInv,
     Memory

LEMMA WriteTerminalStep ==
  ASSUME IInv, WriteTerminal
  PROVE  IInv'
<1> USE DEF dir, place, state, evals, faults, Transaction, Evaluating,
    Recovering, Ending, Closing, WriteTerminal, TerminalRecord
<1>1. Tidy'
  BY KeptTidy DEF IInv, Tidy, DirTypes
<1>2. RunTypes'
  BY DEF IInv, Memory, RunTypes
<1>3. FlagTypes' /\ CountTypes'
  BY DEF IInv, Memory, FlagTypes, CountTypes
<1>4. Progress'
  BY DEF Progress
<1>5. Expiry'
  BY DEF Expiry
<1>6. Remembered'
  BY DEF IInv, Memory, Remembered, Sealed, Promoted, Held, Bare
<1>7. Authorized'
  BY DEF IInv, Memory, Authorized, Bare
<1>8. Judged'
  BY <1>1, Constants, MemoryFacts DEF IInv, Tidy, Memory, Judged, Remembered,
     Progress, Sealed, Promoted, Held, Bare
<1>9. RecordIsMemory'
  BY DEF RecordIsMemory
<1>10. CleanEnd'
  BY <1>1, Constants, MemoryFacts DEF IInv, Tidy, Memory, CleanEnd, Judged,
     Remembered, Progress, Expiry, Authorized, CountTypes, FailedStatuses,
     Sealed, Promoted, Held, Bare
<1> QED
  BY <1>1, <1>2, <1>3, <1>4, <1>5, <1>6, <1>7, <1>8, <1>9, <1>10 DEF IInv,
     Memory

LEMMA LeaveStep ==
  ASSUME IInv, Leave
  PROVE  IInv'
<1> USE DEF dir, place, state, evals, faults, Transaction, Evaluating,
    Recovering, Ending, Closing, Leave
<1>1. Tidy'
  BY KeptTidy DEF IInv, Tidy, DirTypes
<1>2. RunTypes'
  BY DEF IInv, Memory, RunTypes
<1>3. FlagTypes' /\ CountTypes'
  BY DEF IInv, Memory, FlagTypes, CountTypes
<1>4. Progress'
  BY DEF Progress
<1>5. Expiry'
  BY DEF Expiry
<1>6. Remembered'
  BY DEF IInv, Memory, Remembered, Sealed, Promoted, Held, Bare
<1>7. Authorized'
  BY DEF IInv, Memory, Authorized, Bare
<1>8. Judged'
  BY DEF IInv, Memory, Judged, Sealed, Promoted, Held
<1>9. RecordIsMemory'
  BY DEF IInv, Memory, RecordIsMemory
<1>10. CleanEnd'
  BY DEF IInv, Memory, CleanEnd
<1> QED
  BY <1>1, <1>2, <1>3, <1>4, <1>5, <1>6, <1>7, <1>8, <1>9, <1>10 DEF IInv,
     Memory

\* The recovery may find a failed stage's result, or a decided evaluation.
LEMMA LeaveCutStep ==
  ASSUME IInv, LeaveCut
  PROVE  IInv'
<1> USE DEF Evaluating, Recovering, Ending, Closing
<1>1. /\ pc = "leaving" /\ pc' = "reconciling"
      /\ interrupts < MaxInterrupts /\ interrupts' = interrupts + 1
      /\ status' \in {status, "succeeded"}
      /\ evalCommitted => status' = status
      /\ UNCHANGED <<frozen, manifest, staged, files, listed, evidence, seal,
                     record, st, attempt, verdict, results, evaluation, outcome,
                     evalError, evalStarted, evalCommitted, exceptions, expired>>
  BY DEF LeaveCut, dir, place, evals
<1>2. CountTypes' /\ interrupts' > 0
  BY <1>1, RunAssumption DEF IInv, Memory, CountTypes
<1>3. Tidy'
  BY <1>1, KeptTidy DEF IInv, Tidy, DirTypes
<1>4. RunTypes'
  BY <1>1 DEF IInv, Memory, RunTypes
<1>5. FlagTypes'
  BY <1>1, Zenon DEF IInv, Memory, FlagTypes
<1>6. Progress' /\ Expiry'
  BY <1>1 DEF Progress, Expiry
<1>7. Remembered'
  BY <1>1 DEF IInv, Memory, Remembered, Sealed, Promoted, Held, Bare
<1>8. Authorized'
  BY <1>1 DEF IInv, Memory, Authorized, Bare
<1>9. Judged'
  <2>1. evalCommitted => Decided'
    BY <1>1 DEF IInv, Memory, Judged, Decided, Verdict
  <2> QED
    BY <1>1, <2>1 DEF IInv, Memory, Judged, Sealed, Promoted, Held
<1>10. RecordIsMemory' /\ CleanEnd'
  BY <1>1, <1>2 DEF IInv, Memory, RecordIsMemory, CleanEnd
<1> QED
  BY <1>2, <1>3, <1>4, <1>5, <1>6, <1>7, <1>8, <1>9, <1>10 DEF IInv, Memory

LEMMA StutterStep ==
  ASSUME IInv, UNCHANGED vars
  PROVE  IInv'
<1> USE DEF dir, place, state, evals, faults, Transaction, Evaluating,
    Recovering, Ending, Closing, vars
<1>1. Tidy'
  BY KeptTidy DEF IInv, Tidy, DirTypes
<1>2. RunTypes'
  BY DEF IInv, Memory, RunTypes
<1>3. FlagTypes' /\ CountTypes'
  BY DEF IInv, Memory, FlagTypes, CountTypes
<1>4. Progress'
  BY DEF IInv, Memory, Progress, Sealed, Promoted, Held, Bare
<1>5. Expiry'
  BY DEF IInv, Memory, Expiry, Held
<1>6. Remembered'
  BY DEF IInv, Memory, Remembered, Sealed, Promoted, Held, Bare
<1>7. Authorized'
  BY DEF IInv, Memory, Authorized, Bare
<1>8. Judged'
  BY <1>1, Constants, MemoryFacts DEF IInv, Tidy, Memory, Judged, Decided,
     Verdict, Remembered,
     Progress, Sealed, Promoted, Held, Bare
<1>9. RecordIsMemory'
  BY DEF IInv, Memory, RecordIsMemory, TerminalRecord
<1>10. CleanEnd'
  BY <1>1, Constants, MemoryFacts DEF IInv, Tidy, Memory, CleanEnd, Judged,
     Remembered, Progress, Expiry, Authorized, CountTypes, FailedStatuses,
     Sealed, Promoted, Held, Bare
<1> QED
  BY <1>1, <1>2, <1>3, <1>4, <1>5, <1>6, <1>7, <1>8, <1>9, <1>10 DEF IInv,
     Memory

\* A fault while the run is finished, in the shape the definitions give it.
LEMMA LateFaultFacts ==
  ASSUME CountTypes,
         \/ interrupts < MaxInterrupts /\ interrupts' = interrupts + 1
            /\ UNCHANGED exceptions
         \/ exceptions < MaxExceptions /\ exceptions' = exceptions + 1
            /\ UNCHANGED interrupts
  PROVE  /\ CountTypes'
         /\ interrupts > 0 => exceptions' > 0 \/ interrupts' > 1
         /\ exceptions' = 0 /\ interrupts' <= 1 => exceptions = 0 /\ interrupts <= 1
<1>1. /\ interrupts \in Nat /\ exceptions \in Nat
      /\ MaxInterrupts \in Nat /\ MaxExceptions \in Nat
  BY RunAssumption DEF CountTypes
<1>2. CASE interrupts < MaxInterrupts /\ interrupts' = interrupts + 1
           /\ UNCHANGED exceptions
  BY <1>1, <1>2 DEF CountTypes
<1>3. CASE exceptions < MaxExceptions /\ exceptions' = exceptions + 1
           /\ UNCHANGED interrupts
  BY <1>1, <1>3 DEF CountTypes
<1> QED
  BY <1>2, <1>3

LEMMA EvaluationCutStep ==
  ASSUME IInv, EvaluationCut
  PROVE  IInv'
<1> USE DEF Evaluating, Recovering, Ending, Closing
<1>1. /\ pc \in Evaluating /\ (Interrupt \/ Exception)
      /\ pc # "recording_evaluation" => evalStarted' = TRUE
      /\ pc = "recording_evaluation" => evalStarted' = evalStarted
      /\ evaluation' \in {evaluation, Verdict}
      /\ UNCHANGED <<frozen, manifest, staged, files, listed, evidence, seal,
                     record, st, attempt, verdict, results, outcome, evalError,
                     evalCommitted, expired>>
  <2>1. CASE pc = "recording_evaluation"
    BY <2>1 DEF EvaluationCut, Cut, dir, place
  <2>2. CASE pc # "recording_evaluation"
    BY <2>2, Zenon DEF EvaluationCut, dir, place
  <2> QED
    BY <2>1, <2>2
<1>2. /\ CountTypes'
      /\ \/ pc' = "reconciling" /\ status' = status /\ interrupts' > 0
         \/ pc' = "terminal" /\ status' = "infrastructure_failure" /\ exceptions' > 0
  <2>1. pc \notin Transaction
    BY <1>1 DEF Transaction
  <2> QED
    BY <1>1, <2>1, FaultFacts DEF IInv, Memory
<1>3. /\ st = NStages /\ Sealed(st) /\ Len(results) = st /\ frozen = Frozen
      /\ evaluation = "none" /\ ~evalCommitted /\ expired = {} /\ record = NoRecord
      /\ status \in {"succeeded", "failed_evaluation"} /\ evalStarted'
      /\ outcome \in {"none", "passed", "rejected"}
  <2>1. /\ st = NStages /\ Sealed(st) /\ Len(results) = st /\ expired = {}
    BY <1>1 DEF IInv, Memory, Progress, Expiry, Remembered
  <2>2. frozen = Frozen /\ record = NoRecord
    BY <1>1 DEF IInv, Memory, Authorized, RecordIsMemory
  <2> QED
    BY <1>1, <2>1, <2>2 DEF IInv, Memory, Judged, RunTypes
<1>4. Tidy'
  BY <1>1, KeptTidy DEF IInv, Tidy, DirTypes
<1>5. RunTypes'
  <2>1. evaluation' \in {"none", "passed", "rejected", "error"}
    BY <1>1, <1>3 DEF Verdict
  <2> QED
    BY <1>1, <1>2, <2>1 DEF IInv, Memory, RunTypes, FailedStatuses
<1>6. FlagTypes'
  <2>1. evalStarted' \in BOOLEAN
    BY <1>1, Zenon DEF IInv, Memory, FlagTypes
  <2> QED
    BY <1>1, <2>1, Zenon DEF IInv, Memory, FlagTypes
<1>7. Progress' /\ Expiry'
  BY <1>1, <1>2, <1>3 DEF Progress, Expiry
<1>8. Sealed(st)'
  BY <1>1, <1>3 DEF Sealed, Promoted, Held
<1>9. Remembered'
  <2>1. \A i \in 1..Len(results) :
          /\ results[i].status = "succeeded" /\ Sealed(i) /\ seal[i] = results[i].attempt
    BY <1>1 DEF IInv, Memory, Remembered
  <2>2. \A i \in 1..Len(results) : Sealed(i)'
    BY <1>1, <2>1 DEF Sealed, Promoted, Held
  <2> QED
    BY <1>1, <1>2, <1>3, <2>1, <2>2 DEF Remembered
<1>10. Authorized'
  BY <1>1, <1>2, <1>3, Constants DEF Authorized
<1>11. Judged'
  BY <1>1, <1>2, <1>3, <1>8 DEF Judged
<1>12. RecordIsMemory'
  BY <1>1, <1>2, <1>3 DEF RecordIsMemory
<1>13. CleanEnd'
  BY <1>2 DEF CleanEnd, CountTypes
<1> QED
  BY <1>2, <1>4, <1>5, <1>6, <1>7, <1>9, <1>10, <1>11, <1>12, <1>13
     DEF IInv, Memory

\* The recovery can tell a complete run from the memory it has restored.
LEMMA CompleteFacts ==
  ASSUME IInv, pc = "finalizing"
  PROVE  evalStarted \/ Complete(results) <=> st = NStages /\ seal[st] > 0
<1>1. /\ st \in Nat /\ st \in Stage /\ st <= NStages /\ Len(results) \in Nat
  BY MemoryFacts DEF IInv, Tidy, Memory
<1>2. /\ Len(results) \in {st - 1, st} /\ (seal[st] > 0 => Len(results) = st)
      /\ \A i \in 1..Len(results) :
           \/ results[i].status = "succeeded" /\ Sealed(i)
           \/ results[i].status # "succeeded" /\ i = st /\ seal[i] = 0
  BY DEF IInv, Memory, Remembered, Bare
<1>3. evalStarted => st = NStages /\ seal[st] > 0
  BY DEF IInv, Memory, Judged, Sealed
<1>4. Complete(results) => st = NStages /\ seal[st] > 0
  BY <1>1, <1>2, Constants DEF Complete, Sealed
<1>5. st = NStages /\ seal[st] > 0 => Complete(results)
  BY <1>1, <1>2, Constants DEF Complete, Stage
<1> QED
  BY <1>3, <1>4, <1>5

\* An evaluation that was committed before the interrupt stands.
LEMMA DecidedStep ==
  ASSUME IInv, pc = "finalizing", pc' = "terminal", evalCommitted,
         UNCHANGED <<frozen, manifest, staged, files, listed, evidence, seal,
                     record, st, attempt, verdict, status, results, evaluation,
                     outcome, evalError, evalStarted, evalCommitted, interrupts,
                     exceptions, expired>>
  PROVE  IInv'
<1> USE DEF Evaluating, Recovering, Ending, Closing
<1>1. /\ Decided /\ st = NStages /\ seal[st] > 0 /\ Len(results) = st
      /\ record = NoRecord /\ ~(frozen < Frozen)
  BY DEF IInv, Memory, Judged, Decided, Sealed, RecordIsMemory, Authorized
<1>2. Tidy'
  BY KeptTidy DEF IInv, Tidy, DirTypes
<1>3. RunTypes'
  BY DEF IInv, Memory, RunTypes
<1>4. FlagTypes' /\ CountTypes'
  BY Zenon DEF IInv, Memory, FlagTypes, CountTypes
<1>5. Progress' /\ Expiry'
  BY DEF Progress, Expiry
<1>6. Remembered'
  BY DEF IInv, Memory, Remembered, Sealed, Promoted, Held, Bare
<1>7. Authorized'
  BY DEF IInv, Memory, Authorized, Bare
<1>8. Judged'
  BY <1>1 DEF IInv, Memory, Judged, Decided, Verdict, Sealed, Promoted, Held
<1>9. RecordIsMemory' /\ CleanEnd'
  BY <1>1 DEF RecordIsMemory, CleanEnd, Decided, Verdict
<1> QED
  BY <1>2, <1>3, <1>4, <1>5, <1>6, <1>7, <1>8, <1>9 DEF IInv, Memory

\* Of any other run the recovery says that it failed.
LEMMA UndecidedStep ==
  ASSUME IInv, Finalize, ~evalCommitted
  PROVE  IInv'
<1> USE DEF Evaluating, Recovering, Ending, Closing
<1> DEFINE whole == st = NStages /\ seal[st] > 0
<1>1. /\ pc = "finalizing" /\ pc' = "terminal"
      /\ UNCHANGED <<frozen, staged, files, listed, evidence, seal, record, st,
                     attempt, verdict, results, interrupts, exceptions, expired>>
  BY DEF Finalize, place, faults
<1>2. /\ ~evalCommitted /\ record = NoRecord
      /\ seal[st] > 0 => Len(results) = st
      /\ ~evalStarted => outcome = "none" /\ ~evalError /\ evaluation = "none"
  BY <1>1 DEF IInv, Memory, Judged, RecordIsMemory, Remembered
<1>3. \/ /\ whole /\ status' = "failed_evaluation" /\ evalError' = TRUE
         /\ outcome' = "none" /\ evaluation' = "error" /\ evalCommitted' = TRUE
         /\ UNCHANGED <<manifest, evalStarted>>
      \/ /\ ~whole /\ status' = "infrastructure_failure" /\ manifest' = TRUE
         /\ ~evalStarted
         /\ UNCHANGED <<evaluation, outcome, evalError, evalStarted, evalCommitted>>
  BY <1>1, <1>2, CompleteFacts, Zenon DEF Finalize, evals
<1>4. frozen < Frozen => ~whole
  BY DEF IInv, Memory, Authorized, Bare
<1> HIDE DEF whole
<1>5. Tidy'
  BY <1>1, <1>3, KeptTidy DEF IInv, Tidy, DirTypes
<1>6. RunTypes'
  BY <1>1, <1>3 DEF IInv, Memory, RunTypes, FailedStatuses
<1>7. FlagTypes' /\ CountTypes'
  <2>1. evalStarted' = evalStarted /\ evalError' \in BOOLEAN /\ evalCommitted' \in BOOLEAN
    BY <1>3, Zenon DEF IInv, Memory, FlagTypes
  <2>2. FlagTypes'
    BY <2>1, Zenon DEF IInv, Memory, FlagTypes
  <2> QED
    BY <1>1, <2>2 DEF IInv, Memory, CountTypes
<1>8. Progress' /\ Expiry'
  BY <1>1 DEF Progress, Expiry
<1>9. Remembered'
  BY <1>1 DEF IInv, Memory, Remembered, Sealed, Promoted, Held, Bare
<1>10. Authorized'
  BY <1>1, <1>3 DEF IInv, Memory, Authorized, Bare
<1>11. Judged'
  BY <1>1, <1>3 DEF IInv, Memory, Judged, Sealed, Promoted, Held
<1>12. RecordIsMemory'
  BY <1>1, <1>2 DEF RecordIsMemory
<1>13. CleanEnd'
  <2>1. CASE whole
    BY <1>1, <1>2, <1>3, <1>4, <2>1, Zenon DEF CleanEnd, whole
  <2>2. CASE ~whole
    BY <1>1, <1>2, <1>3, <2>2 DEF CleanEnd, whole
  <2> QED
    BY <2>1, <2>2
<1> QED
  BY <1>5, <1>6, <1>7, <1>8, <1>9, <1>10, <1>11, <1>12, <1>13 DEF IInv, Memory

LEMMA FinalizeStep ==
  ASSUME IInv, Finalize
  PROVE  IInv'
<1>1. pc = "finalizing" /\ pc' = "terminal"
  BY DEF Finalize
<1>2. CASE evalCommitted
  BY <1>1, <1>2, DecidedStep DEF Finalize, place, evals, faults
<1>3. CASE ~evalCommitted
  BY <1>3, UndecidedStep
<1> QED
  BY <1>2, <1>3

LEMMA FinalizeCutStep ==
  ASSUME IInv, FinalizeCut
  PROVE  IInv'
<1> USE DEF Evaluating, Recovering, Ending, Closing
<1>1. /\ pc = "finalizing" /\ pc' = "terminal" /\ SecondFault
      /\ UNCHANGED <<frozen, manifest, staged, files, listed, evidence, seal,
                     record, st, attempt, verdict, results, evalStarted,
                     evalCommitted, expired>>
  BY DEF FinalizeCut, SecondFault, dir, place
<1>2. \/ /\ status' = "failed_evaluation" /\ evalError' = TRUE
         /\ outcome' = "none" /\ evaluation' \in {evaluation, "error"}
      \/ /\ status' = "infrastructure_failure"
         /\ UNCHANGED <<evalError, outcome, evaluation>>
  BY Zenon DEF FinalizeCut
<1>3. ~evalCommitted /\ record = NoRecord /\ interrupts > 0
  BY <1>1 DEF FinalizeCut, IInv, Memory, RecordIsMemory, CleanEnd
<1>4. CountTypes' /\ (exceptions' > 0 \/ interrupts' > 1)
  BY <1>1, <1>3, LateFaultFacts DEF IInv, Memory, SecondFault
<1>5. Tidy'
  BY <1>1, KeptTidy DEF IInv, Tidy, DirTypes
<1>6. RunTypes'
  BY <1>1, <1>2 DEF IInv, Memory, RunTypes, FailedStatuses
<1>7. FlagTypes'
  <2>1. evalError' \in BOOLEAN
    BY <1>2, Zenon DEF IInv, Memory, FlagTypes
  <2> QED
    BY <1>1, <2>1, Zenon DEF IInv, Memory, FlagTypes
<1>8. Progress' /\ Expiry'
  BY <1>1 DEF Progress, Expiry
<1>9. Remembered'
  BY <1>1 DEF IInv, Memory, Remembered, Sealed, Promoted, Held, Bare
<1>10. Authorized'
  BY <1>1 DEF IInv, Memory, Authorized, Bare
<1>11. Judged'
  BY <1>1, <1>2 DEF IInv, Memory, Judged, Sealed, Promoted, Held
<1>12. RecordIsMemory'
  BY <1>1, <1>3 DEF RecordIsMemory
<1>13. CleanEnd'
  BY <1>1, <1>4 DEF CleanEnd, CountTypes
<1> QED
  BY <1>4, <1>5, <1>6, <1>7, <1>8, <1>9, <1>10, <1>11, <1>12, <1>13
     DEF IInv, Memory

LEMMA WriteTerminalCutStep ==
  ASSUME IInv, WriteTerminalCut
  PROVE  IInv'
<1> USE DEF Evaluating, Recovering, Ending, Closing
<1>1. /\ pc = "terminal" /\ pc' = "done"
      /\ record' \in {NoRecord, TerminalRecord}
      /\ UNCHANGED <<frozen, manifest, staged, files, listed, evidence, seal,
                     st, attempt, verdict, status, results, evaluation, outcome,
                     evalError, evalStarted, evalCommitted, expired>>
  BY DEF WriteTerminalCut, dir, place, state, evals
<1>2. /\ CountTypes'
      /\ exceptions' = 0 /\ interrupts' <= 1 => exceptions = 0 /\ interrupts <= 1
  <2>1. \/ interrupts < MaxInterrupts /\ interrupts' = interrupts + 1
            /\ UNCHANGED exceptions
        \/ exceptions < MaxExceptions /\ exceptions' = exceptions + 1
            /\ UNCHANGED interrupts
    BY Zenon DEF WriteTerminalCut
  <2> QED
    BY <2>1, LateFaultFacts DEF IInv, Memory
<1>3. Tidy'
  BY <1>1, KeptTidy DEF IInv, Tidy, DirTypes
<1>4. RunTypes'
  BY <1>1 DEF IInv, Memory, RunTypes
<1>5. FlagTypes'
  BY <1>1, Zenon DEF IInv, Memory, FlagTypes
<1>6. Progress' /\ Expiry'
  BY <1>1 DEF Progress, Expiry
<1>7. Remembered'
  BY <1>1 DEF IInv, Memory, Remembered, Sealed, Promoted, Held, Bare
<1>8. Authorized'
  BY <1>1 DEF IInv, Memory, Authorized, Bare
<1>9. Judged'
  BY <1>1 DEF IInv, Memory, Judged, Sealed, Promoted, Held
<1>10. RecordIsMemory'
  BY <1>1 DEF RecordIsMemory, TerminalRecord, NoRecord
<1>11. CleanEnd'
  BY <1>1, <1>2 DEF IInv, Memory, CleanEnd
<1> QED
  BY <1>2, <1>3, <1>4, <1>5, <1>6, <1>7, <1>8, <1>9, <1>10, <1>11
     DEF IInv, Memory

\* Taking over the first j valid seals, and undoing the stage after the last.
LEMMA TakeOverTidy ==
  ASSUME IInv, pc = "reconciling", NEW j \in 0..SealedPrefix,
         NEW k \in 0..Undoes, results' = TakenOver(j),
         IF j = SealedPrefix /\ j < NStages THEN AbortUncommitted(j + 1, k)
         ELSE UNCHANGED <<staged, seal, files, listed, manifest>>,
         UNCHANGED <<evidence, st>>
  PROVE  /\ Tidy'
         /\ results' \in Seq(Result) /\ Len(results') <= NStages
         /\ Len(results') \in {st - 1, st}
         /\ Len(results') >= Len(results)
         /\ Len(results') > Len(results) => seal[st] > 0
         /\ \A i \in 1..Len(results') :
              \/ results'[i].status = "succeeded" /\ Sealed(i)'
                 /\ seal'[i] = results'[i].attempt
              \/ results'[i].status # "succeeded" /\ i = st /\ Bare(i)'
                 /\ Held(i, results[i].attempt)'
         /\ seal[st] > 0 => Sealed(st)'
         /\ j = SealedPrefix /\ k = Undoes /\ seal'[st] > 0 => Len(results') = st
         /\ Bare(st) => Bare(st)'
<1>1. /\ st \in Nat /\ st \in Stage /\ st > 0 /\ st <= NStages
      /\ Len(results) \in Nat
  BY MemoryFacts DEF IInv, Tidy, Memory
<1>2. /\ SealedPrefix = IF seal[st] > 0 THEN st ELSE st - 1
      /\ j \in Nat /\ j <= SealedPrefix
  BY <1>1, PrefixFacts
<1>3. /\ results' \in Seq(Result)
      /\ Len(results') = IF j > Len(results) THEN j ELSE Len(results)
      /\ Len(results') \in {st - 1, st}
      /\ Len(results') > Len(results) => seal[st] > 0
      /\ \A i \in 1..Len(results') :
           \/ results'[i].status = "succeeded" /\ Sealed(i)
              /\ seal[i] = results'[i].attempt
           \/ results'[i].status # "succeeded" /\ i = st /\ Bare(i)
              /\ Held(i, results'[i].attempt)
  BY TakenFacts
<1>8. \A i \in 1..Len(results') : Held(i, results'[i].attempt) =>
        Held(i, results[i].attempt)'
  BY DEF Held
<1>4. Len(results') >= Len(results) /\ Len(results') <= NStages
  <2> DEFINE n == Len(results)
             m == Len(results')
  <2>1. n \in Nat /\ j \in Nat /\ m = IF j > n THEN j ELSE n
    BY <1>1, <1>2, <1>3
  <2>2. m \in {st - 1, st}
    BY <1>3
  <2> HIDE DEF n, m
  <2>3. m >= n /\ m <= NStages
    BY <1>1, <2>1, <2>2, Constants
  <2> QED
    BY <2>3 DEF n, m
<1>5. \A i \in 1..Len(results') : Sealed(i) => i <= SealedPrefix
  BY <1>1, <1>2, <1>3 DEF Sealed
<1>6. CASE ~(j = SealedPrefix /\ j < NStages)
  <2>1. UNCHANGED <<staged, seal, files, listed, manifest>>
    BY <1>6
  <2>2. Tidy'
    BY <2>1, KeptTidy DEF IInv, Tidy, DirTypes
  <2>3. \A s \in Stage : Sealed(s) => Sealed(s)' /\ seal'[s] = seal[s]
    BY <2>1 DEF Sealed, Promoted, Held
  <2>4. \A i \in 1..Len(results') : i \in Stage
    BY <1>1, <1>3, <1>4, Constants
  <2>5. seal[st] > 0 => Sealed(st)
    BY <1>1, SealFacts DEF IInv, Tidy, Memory, RunTypes
  <2>6. j = SealedPrefix /\ seal'[st] > 0 => Len(results') = st
    BY <1>1, <1>2, <1>3, <1>4, <2>1
  <2>7. Bare(st) => Bare(st)'
    BY <2>1 DEF Bare
  <2> QED
    BY <1>1, <1>3, <1>4, <1>8, <2>2, <2>3, <2>4, <2>5, <2>6, <2>7
<1>7. CASE j = SealedPrefix /\ j < NStages
  <2> DEFINE s == j + 1
  <2>1. s \in Stage /\ s \in Nat /\ s >= st /\ (s = st <=> ~(seal[st] > 0))
    BY <1>1, <1>2, <1>7, Constants
  <2>2. AbortUncommitted(s, k)
    BY <1>7
  <2>3. \A i \in 1..Len(results') : i \in Stage /\ (Sealed(i) => i < s)
    BY <1>1, <1>3, <1>4, <1>5, <1>7, <2>1, Constants
  <2>4. files[s] \subseteq Outputs[s]
    BY <1>1, <2>1 DEF IInv, Tidy, Current, Ahead, Bare
  <2> HIDE DEF s
  <2>5. /\ Tidy'
        /\ s = st /\ k = Undoes => seal'[st] = 0
    BY <2>1, <2>2, AbortTidy DEF IInv, Memory
  <2>6. /\ \A t \in Stage : t # s =>
             /\ staged'[t] = staged[t] /\ files'[t] = files[t]
             /\ listed'[t] = listed[t] /\ seal'[t] = seal[t]
        /\ staged'[s] \subseteq staged[s] /\ files'[s] \subseteq files[s]
        /\ listed'[s] \subseteq listed[s] /\ (seal'[s] = 0 \/ seal'[s] = seal[s])
    BY <2>1, <2>2, <2>4, AbortFacts DEF IInv, Tidy
  <2>7. \A t \in Stage : t # s /\ Sealed(t) => Sealed(t)' /\ seal'[t] = seal[t]
    BY <2>6 DEF Sealed, Promoted, Held
  <2>8. \A i \in 1..Len(results') : Sealed(i) => Sealed(i)' /\ seal'[i] = seal[i]
    BY <1>3, <2>1, <2>3, <2>7, Constants
  <2>9. seal[st] > 0 => Sealed(st)'
    BY <1>1, <2>1, <2>7, SealFacts
  <2>10. k = Undoes /\ seal'[st] > 0 => Len(results') = st
    BY <1>1, <1>2, <1>3, <1>4, <1>7, <2>1, <2>5
  <2>11. Bare(st) => Bare(st)'
    BY <1>1, <2>1, <2>6 DEF Bare
  <2> QED
    BY <1>1, <1>3, <1>4, <1>8, <2>5, <2>8, <2>9, <2>10, <2>11
<1> QED
  BY <1>6, <1>7

\* What the recovery's first step keeps of the run's authority and evaluation.
LEMMA RecoveryKeeps ==
  ASSUME IInv, pc = "reconciling",
         UNCHANGED <<frozen, evidence, st, evalStarted>>,
         results' \in Seq(Result), Len(results') \in {st - 1, st},
         Len(results') >= Len(results),
         Len(results') > Len(results) => seal[st] > 0,
         seal[st] > 0 => Sealed(st)', Bare(st) => Bare(st)'
  PROVE  /\ frozen < Frozen => /\ st = 1 /\ Bare(st)' /\ evidence'[st] = <<>>
                               /\ results' = <<>> /\ ~evalStarted
         /\ evalStarted => st = NStages /\ Sealed(st)' /\ Len(results') = NStages
<1>1. /\ st \in Nat /\ Len(results) \in Nat /\ st <= NStages
  BY MemoryFacts DEF IInv, Tidy, Memory
<1>2. frozen < Frozen => /\ st = 1 /\ Bare(st) /\ evidence[st] = <<>>
                         /\ results = <<>> /\ ~evalStarted
  BY DEF IInv, Memory, Authorized
<1>3. evalStarted => st = NStages /\ seal[st] > 0 /\ Len(results) = NStages
  BY DEF IInv, Memory, Judged, Sealed
<1>4. frozen < Frozen => Len(results') = 0
  BY <1>1, <1>2 DEF Bare
<1>5. frozen < Frozen => results' = <<>>
  BY <1>4, EmptySeq
<1> QED
  BY <1>1, <1>2, <1>3, <1>5

LEMMA ReconcileStep ==
  ASSUME IInv, Reconcile
  PROVE  IInv'
<1> USE DEF Evaluating, Recovering, Ending, Closing
<1>1. /\ pc = "reconciling" /\ pc' = "finalizing"
      /\ results' = TakenOver(SealedPrefix)
      /\ IF SealedPrefix < NStages THEN AbortUncommitted(SealedPrefix + 1, Undoes)
         ELSE UNCHANGED <<staged, seal, files, listed, manifest>>
      /\ UNCHANGED <<frozen, evidence, record, st, attempt, verdict, status,
                     evaluation, outcome, evalError, evalStarted, evalCommitted,
                     interrupts, exceptions, expired>>
  BY DEF Reconcile, place, evals, faults
<1>2. SealedPrefix \in 0..SealedPrefix /\ Undoes \in 0..Undoes
  BY PrefixFacts, Constants
<1>3. /\ Tidy'
      /\ results' \in Seq(Result) /\ Len(results') <= NStages
      /\ Len(results') \in {st - 1, st} /\ Len(results') >= Len(results)
      /\ Len(results') > Len(results) => seal[st] > 0
      /\ \A i \in 1..Len(results') :
           \/ results'[i].status = "succeeded" /\ Sealed(i)'
              /\ seal'[i] = results'[i].attempt
           \/ results'[i].status # "succeeded" /\ i = st /\ Bare(i)'
              /\ Held(i, results[i].attempt)'
      /\ seal[st] > 0 => Sealed(st)'
      /\ seal'[st] > 0 => Len(results') = st
      /\ Bare(st) => Bare(st)'
  BY <1>1, <1>2, TakeOverTidy
<1>4. /\ frozen < Frozen => /\ st = 1 /\ Bare(st)' /\ evidence'[st] = <<>>
                            /\ results' = <<>> /\ ~evalStarted
      /\ evalStarted => st = NStages /\ Sealed(st)' /\ Len(results') = NStages
  BY <1>1, <1>3, RecoveryKeeps
<1>5. RunTypes' /\ FlagTypes' /\ CountTypes'
  <2>1. RunTypes'
    BY <1>1, <1>3 DEF IInv, Memory, RunTypes
  <2> QED
    BY <1>1, <2>1, Zenon DEF IInv, Memory, FlagTypes, CountTypes
<1>6. Progress' /\ Expiry'
  BY <1>1 DEF Progress, Expiry
<1>7. Remembered'
  BY <1>1, <1>3 DEF Remembered
<1>8. Authorized'
  BY <1>1, <1>4 DEF Authorized, Bare
<1>9. Judged'
  BY <1>1, <1>4 DEF IInv, Memory, Judged, Decided, Verdict, Sealed, Promoted,
                    Held
<1>10. RecordIsMemory' /\ CleanEnd'
  BY <1>1 DEF IInv, Memory, RecordIsMemory, CleanEnd
<1> QED
  BY <1>3, <1>5, <1>6, <1>7, <1>8, <1>9, <1>10 DEF IInv, Memory

LEMMA ReconcileCutStep ==
  ASSUME IInv, ReconcileCut
  PROVE  IInv'
<1> USE DEF Evaluating, Recovering, Ending, Closing
<1>1. PICK j \in 0..SealedPrefix, k \in 0..Undoes :
        /\ results' = TakenOver(j)
        /\ IF j = SealedPrefix /\ j < NStages THEN AbortUncommitted(j + 1, k)
           ELSE UNCHANGED <<staged, seal, files, listed, manifest>>
  BY DEF ReconcileCut
<1>2. /\ pc = "reconciling" /\ pc' = "terminal" /\ SecondFault /\ FallBack
      /\ UNCHANGED <<frozen, evidence, record, st, attempt, verdict, evaluation,
                     outcome, evalStarted, evalCommitted, expired>>
  BY DEF ReconcileCut, SecondFault, place
<1>3. /\ Tidy'
      /\ results' \in Seq(Result) /\ Len(results') <= NStages
      /\ Len(results') \in {st - 1, st} /\ Len(results') >= Len(results)
      /\ Len(results') > Len(results) => seal[st] > 0
      /\ \A i \in 1..Len(results') :
           \/ results'[i].status = "succeeded" /\ Sealed(i)'
              /\ seal'[i] = results'[i].attempt
           \/ results'[i].status # "succeeded" /\ i = st /\ Bare(i)'
              /\ Held(i, results[i].attempt)'
      /\ seal[st] > 0 => Sealed(st)'
      /\ Bare(st) => Bare(st)'
  BY <1>1, <1>2, TakeOverTidy
<1>4. /\ frozen < Frozen => /\ st = 1 /\ Bare(st)' /\ evidence'[st] = <<>>
                            /\ results' = <<>> /\ ~evalStarted
      /\ evalStarted => st = NStages /\ Sealed(st)' /\ Len(results') = NStages
  BY <1>2, <1>3, RecoveryKeeps
<1>5. /\ record = NoRecord /\ interrupts > 0
      /\ evalCommitted => Decided
      /\ status \in FailedStatuses \cup {"succeeded"}
  BY <1>2 DEF IInv, Memory, Judged, RecordIsMemory, CleanEnd, RunTypes
<1>6. CountTypes' /\ (exceptions' > 0 \/ interrupts' > 1)
  BY <1>2, <1>5, LateFaultFacts DEF IInv, Memory, SecondFault
<1>7. /\ status' \in FailedStatuses \cup {"succeeded"}
      /\ status' = "succeeded" => evalCommitted /\ UNCHANGED <<status, evalError>>
      /\ evalError' \in BOOLEAN
  <2>1. evalError \in BOOLEAN
    BY DEF IInv, Memory, FlagTypes
  <2>2. \/ (evalCommitted \/ status # "succeeded") /\ UNCHANGED <<status, evalError>>
        \/ status' = "failed_evaluation" /\ evalError' = TRUE
        \/ status' = "infrastructure_failure" /\ UNCHANGED evalError
    BY <1>2, Zenon DEF FallBack
  <2> QED
    BY <1>5, <2>1, <2>2 DEF FailedStatuses
<1>8. RunTypes'
  BY <1>2, <1>3, <1>7 DEF IInv, Memory, RunTypes, FailedStatuses
<1>9. FlagTypes'
  BY <1>2, <1>7, Zenon DEF IInv, Memory, FlagTypes
<1>10. Progress' /\ Expiry'
  BY <1>2 DEF Progress, Expiry
<1>11. Remembered'
  BY <1>2, <1>3 DEF Remembered
<1>12. Authorized'
  BY <1>2, <1>4 DEF Authorized, Bare
<1>13. Judged'
  <2>1. status' = "succeeded" => /\ outcome' = "passed" /\ evaluation' = "passed"
                                 /\ ~evalError' /\ evalStarted'
    BY <1>2, <1>5, <1>7 DEF Decided, Verdict
  <2> QED
    BY <1>2, <1>4, <2>1 DEF IInv, Memory, Judged, Sealed, Promoted, Held
<1>14. RecordIsMemory' /\ CleanEnd'
  BY <1>2, <1>5, <1>6 DEF RecordIsMemory, CleanEnd, CountTypes
<1> QED
  BY <1>3, <1>6, <1>8, <1>9, <1>10, <1>11, <1>12, <1>13, <1>14 DEF IInv, Memory

-----------------------------------------------------------------------------
(* The invariant.                                                          *)

LEMMA InitInv == Init => IInv
<1> SUFFICES ASSUME Init PROVE IInv
  OBVIOUS
<1> USE DEF Init, Evaluating, Recovering, Ending, Closing
<1>1. 1 \in Stage
  BY Constants
<1>2. <<>> \in Seq(Evidence) /\ <<>> \in Seq(Result)
  BY EmptySeq
<1>3. Len(<<>>) = 0
  BY EmptySeq
<1>4. \A s \in Stage : Bare(s) /\ evidence[s] = <<>>
  BY DEF Bare
<1>5. Tidy
  <2>1. DirTypes /\ ManifestBegun
    <3>1. /\ manifest \in BOOLEAN /\ staged \in [Stage -> SUBSET Name]
          /\ files \in [Stage -> SUBSET Name] /\ listed \in [Stage -> SUBSET Name]
      OBVIOUS
    <3>2. evidence \in [Stage -> Seq(Evidence)]
      BY <1>2
    <3>3. seal \in [Stage -> 0..MaxAttempts]
      BY Constants
    <3> QED
      BY <1>4, <3>1, <3>2, <3>3 DEF DirTypes, ManifestBegun, Bare
  <2>2. Settled /\ Ahead
    BY <1>4, Constants DEF Settled, Ahead
  <2>3. Current
    BY <1>1, <1>3, <1>4, Constants DEF Current, Bare, Frayed
  <2> QED
    BY <2>1, <2>2, <2>3 DEF Tidy
<1>6. RunTypes
  BY <1>1, <1>2, <1>3, Constants DEF RunTypes, Verdicts
<1>7. FlagTypes /\ CountTypes
  <2>1. FlagTypes
    BY Zenon DEF FlagTypes
  <2>2. CountTypes
    BY RunAssumption DEF CountTypes
  <2> QED
    BY <2>1, <2>2
<1>8. Progress /\ Expiry
  <2>1. Bare(st) /\ Held(st, attempt - 1)
    BY <1>1, <1>3, <1>4 DEF Held
  <2> QED
    BY <2>1 DEF Progress, Expiry
<1>9. Remembered /\ Authorized
  BY <1>1, <1>3, <1>4 DEF Remembered, Authorized, Frozen
<1>10. Judged /\ RecordIsMemory /\ CleanEnd
  BY DEF Judged, RecordIsMemory, CleanEnd
<1> QED
  BY <1>5, <1>6, <1>7, <1>8, <1>9, <1>10 DEF IInv, Memory

LEMMA StepInv == IInv /\ [Next]_vars => IInv'
<1> SUFFICES ASSUME IInv, [Next]_vars PROVE IInv'
  OBVIOUS
<1>1. CASE SetupWrite \/ Preflight
  BY <1>1, SetupWriteStep, PreflightStep
<1>2. CASE Attempts
  BY <1>2, InvokeStep, RecordAttemptStep DEF Attempts
<1>3. CASE Commit
  BY <1>3, StageArtifactStep, PromoteStep, BindStep, SealStageStep, ConfirmStep
     DEF Commit
<1>4. CASE Undo
  BY <1>4, ExpireStep, RollBackStep, RecordLateStep DEF Undo
<1>5. CASE Evaluate
  BY <1>5, StartEvaluationStep, JudgeStep, RecordEvaluationStep DEF Evaluate
<1>6. CASE Conclude
  BY <1>6, LeaveStep, ReconcileStep, FinalizeStep, WriteTerminalStep DEF Conclude
<1>7. CASE Faults
  BY <1>7, SetupCutStep, InvokeCutStep, RecordCutStep, StageCutStep,
     PromoteCutStep, BindCutStep, SealCutStep, ConfirmCutStep, RollBackCutStep,
     RecordLateCutStep, EvaluationCutStep, LeaveCutStep, ReconcileCutStep,
     FinalizeCutStep, WriteTerminalCutStep DEF Faults
<1>8. CASE Terminated \/ UNCHANGED vars
  BY <1>8, StutterStep DEF Terminated
<1> QED
  BY <1>1, <1>2, <1>3, <1>4, <1>5, <1>6, <1>7, <1>8 DEF Next

\* The inductive invariant holds in every reachable state, those after a fault
\* or a second fault included.
THEOREM Invariance == Spec => []IInv
BY InitInv, StepInv, PTL DEF Spec

-----------------------------------------------------------------------------
(* The safety properties.                                                  *)

\* Types and ranges hold for every number of stages, attempts and faults.
THEOREM Types == Spec => []TypeOK
<1>1. IInv => TypeOK
  BY TypeParts DEF IInv, Tidy, Memory
<1> QED
  BY <1>1, Invariance, PTL

\* What the record says, if there is one, is what the runner knew.
LEMMA RecordFactsAtEnd ==
  ASSUME IInv
  PROVE  \/ record = NoRecord /\ record.stages = <<>> /\ record.status = "none"
         \/ /\ pc = "done" /\ record = TerminalRecord /\ record.stages = results
            /\ record.status = status /\ record.outcome = outcome
            /\ record.error = evalError /\ (record.authority <=> frozen = Frozen)
<1>1. NoRecord.stages = <<>> /\ NoRecord.status = "none"
  BY DEF NoRecord
<1>2. /\ TerminalRecord.stages = results /\ TerminalRecord.status = status
      /\ TerminalRecord.outcome = outcome /\ TerminalRecord.error = evalError
      /\ (TerminalRecord.authority <=> frozen = Frozen)
  BY Zenon DEF TerminalRecord
<1>3. record = NoRecord \/ (pc = "done" /\ record = TerminalRecord)
  BY Zenon DEF IInv, Memory, RecordIsMemory
<1> QED
  BY <1>1, <1>2, <1>3, Zenon

\* A stage the record calls failed has no artifact, no manifest line and no
\* seal left, whatever cut the rollback short (abort_uncommitted_stage).
THEOREM FailureLeavesNothing == Spec => []FailedStageLeavesNothing
<1>1. ASSUME IInv PROVE FailedStageLeavesNothing
  <2>1. CASE record.stages = <<>>
    BY <2>1, EmptySeq DEF FailedStageLeavesNothing
  <2>2. CASE record.stages = results
    <3>1. DOMAIN results = 1..Len(results)
      BY <1>1, MemoryFacts DEF IInv, Tidy, Memory
    <3>2. \A i \in 1..Len(results) : results[i].status # "succeeded" => Bare(i)
      BY <1>1 DEF IInv, Memory, Remembered
    <3> QED
      BY <2>2, <3>1, <3>2 DEF FailedStageLeavesNothing, Bare
  <2> QED
    BY <1>1, <2>1, <2>2, RecordFactsAtEnd
<1> QED
  BY <1>1, Invariance, PTL

LEMMA HereFrozen ==
  ASSUME seal[st] = 0,
         \A s \in Stage : s # st => /\ seal'[s] = seal[s] /\ listed'[s] = listed[s]
                                    /\ files'[s] = files[s]
                                    /\ evidence'[s] = evidence[s]
  PROVE  SealedUnchanged
BY DEF SealedUnchanged

LEMMA AbortFrozen ==
  ASSUME DirTypes, NEW s \in Stage, NEW k \in 0..Undoes, AbortUncommitted(s, k),
         files[s] \subseteq Outputs[s], UNCHANGED evidence
  PROVE  SealedUnchanged
<1>1. /\ \A t \in Stage : t # s => /\ files'[t] = files[t] /\ listed'[t] = listed[t]
                                   /\ seal'[t] = seal[t]
      /\ seal'[s] = 0 \/ (seal'[s] = seal[s] /\ files'[s] = files[s]
                          /\ listed'[s] = listed[s])
  BY AbortFacts
<1> QED
  BY <1>1 DEF SealedUnchanged

LEMMA RecordFrozen ==
  ASSUME DirTypes, NEW raw \in BOOLEAN, NEW k \in 0..Writes, st \in Stage,
         RecordInvocation(st, raw, k), seal[st] = 0, UNCHANGED <<files, listed, seal>>
  PROVE  SealedUnchanged
<1>1. \A t \in Stage : t # st => evidence'[t] = evidence[t]
  BY RecordFacts
<1> QED
  BY <1>1, HereFrozen

\* Once a stage is sealed, its artifacts, manifest lines and evidence do not
\* change while the seal stands: the rollback removes the seal before the rest.
THEOREM SealsHold == Spec => SealedStagesFrozen
<1>1. ASSUME IInv, [Next]_vars PROVE SealedUnchanged
  <2>1. /\ DirTypes /\ st \in Stage /\ st \in Nat /\ files[st] \subseteq Outputs[st]
        /\ \A s \in Stage : s > st => files[s] = {}
    BY <1>1, MemoryFacts DEF IInv, Tidy, Memory, Current, Ahead, Bare
  <2>2. Writes \in 0..Writes /\ Undoes \in 0..Undoes /\ TRUE \in BOOLEAN
    BY Constants
  <2>3. CASE UNCHANGED <<files, listed, evidence, seal>>
    BY <2>3 DEF SealedUnchanged
  <2>4. CASE RecordAttempt \/ RecordCut
    <3>1. PICK raw \in BOOLEAN, k \in 0..Writes : RecordInvocation(st, raw, k)
      BY <2>2, <2>4 DEF RecordAttempt, RecordCut, Raws
    <3>2. seal[st] = 0 /\ UNCHANGED <<files, listed, seal>>
      BY <1>1, <2>4 DEF RecordAttempt, RecordCut, IInv, Memory, Progress, Bare
    <3> QED
      BY <2>1, <3>1, <3>2, RecordFrozen
  <2>5. CASE Bind \/ BindCut \/ RecordLate \/ RecordLateCut
    <3>1. PICK k \in 0..Writes : RecordInvocation(st, TRUE, k)
      BY <2>2, <2>5 DEF Bind, BindCut, RecordLate, RecordLateCut
    <3>2. seal[st] = 0 /\ UNCHANGED <<files, listed, seal>>
      BY <1>1, <2>5 DEF Bind, BindCut, RecordLate, RecordLateCut, IInv, Memory,
                        Progress, Bare
    <3> QED
      BY <2>1, <2>2, <3>1, <3>2, RecordFrozen
  <2>6. CASE Promote \/ PromoteCut
    <3>1. seal[st] = 0 /\ UNCHANGED <<seal, evidence>>
      BY <1>1, <2>6 DEF Promote, PromoteCut, IInv, Memory, Progress
    <3>2. \A s \in Stage : s # st => files'[s] = files[s] /\ listed'[s] = listed[s]
      BY <2>1, <2>6 DEF Promote, PromoteCut, DirTypes
    <3> QED
      BY <3>1, <3>2, HereFrozen
  <2>7. CASE SealStage \/ SealCut
    <3>1. seal[st] = 0 /\ UNCHANGED <<files, listed, evidence>>
      BY <1>1, <2>7 DEF SealStage, SealCut, IInv, Memory, Progress
    <3>2. \A s \in Stage : s # st => seal'[s] = seal[s]
      BY <2>1, <2>7 DEF SealStage, SealCut, DirTypes
    <3> QED
      BY <3>1, <3>2, HereFrozen
  <2>8. CASE RollBack \/ RollBackCut
    <3>1. PICK k \in 0..Undoes : AbortUncommitted(st, k)
      BY <2>2, <2>8 DEF RollBack, RollBackCut
    <3>2. UNCHANGED evidence
      BY <2>8 DEF RollBack, RollBackCut
    <3> QED
      BY <2>1, <3>1, <3>2, AbortFrozen
  <2>9. CASE Reconcile \/ ReconcileCut
    <3>1. SealedPrefix \in 0..NStages /\ SealedPrefix >= st - 1
      BY <1>1, <2>1, PrefixFacts
    <3>2. \/ UNCHANGED <<seal, files, listed>>
          \/ \E k \in 0..Undoes : SealedPrefix < NStages
                                  /\ AbortUncommitted(SealedPrefix + 1, k)
      BY <2>2, <2>9 DEF Reconcile, ReconcileCut
    <3>3. UNCHANGED evidence
      BY <2>9 DEF Reconcile, ReconcileCut
    <3>4. CASE UNCHANGED <<seal, files, listed>>
      BY <3>3, <3>4 DEF SealedUnchanged
    <3>5. ASSUME NEW k \in 0..Undoes, SealedPrefix < NStages,
                 AbortUncommitted(SealedPrefix + 1, k)
          PROVE  SealedUnchanged
      <4>1. SealedPrefix + 1 \in Stage /\ files[SealedPrefix + 1]
              \subseteq Outputs[SealedPrefix + 1]
        BY <2>1, <3>1, <3>5, Constants
      <4> QED
        BY <2>1, <3>3, <3>5, <4>1, AbortFrozen
    <3> QED
      BY <3>2, <3>4, <3>5
  <2>10. CASE UNCHANGED vars \/ Terminated
    BY <2>3, <2>10 DEF vars, Terminated
  <2>11. CASE \/ SetupWrite \/ Preflight \/ (\E v \in Verdicts : Invoke(v))
              \/ (\E n \in Name : StageArtifact(n)) \/ Confirm \/ Expire
    BY <2>3, <2>11 DEF dir, SetupWrite, Preflight, Invoke, StageArtifact, Confirm,
                       Expire
  <2>12. CASE \/ StartEvaluation \/ Judge \/ RecordEvaluation \/ Finalize
              \/ WriteTerminal \/ Leave
    BY <2>3, <2>12 DEF dir, StartEvaluation, Judge, RecordEvaluation, Finalize,
                       WriteTerminal, Leave
  <2>13. CASE \/ SetupCut \/ InvokeCut \/ StageCut \/ ConfirmCut \/ EvaluationCut
              \/ LeaveCut \/ FinalizeCut \/ WriteTerminalCut
    BY <2>3, <2>13 DEF dir, SetupCut, InvokeCut, StageCut, ConfirmCut,
                       EvaluationCut, LeaveCut, FinalizeCut, WriteTerminalCut
  <2> QED
    BY <1>1, <2>4, <2>5, <2>6, <2>7, <2>8, <2>9, <2>10, <2>11, <2>12, <2>13
       DEF Next, Attempts, Commit, Undo, Evaluate, Conclude, Faults
<1> QED
  BY <1>1, Invariance, PTL DEF Spec, SealedStagesFrozen

-----------------------------------------------------------------------------
(* What the verifier finds.                                                *)

\* The attempts with metadata are numbered without a gap, as far as the stage
\* got; after the current stage there are none.
LEMMA MetasFacts ==
  ASSUME IInv, NEW s \in Stage
  PROVE  /\ \A n \in Nat : Held(s, n) => Metas(s) = 1..n
         /\ s > st => Metas(s) = {}
         /\ EvidenceMatches => Metas(s) = 1..Cardinality(Metas(s))
<1>1. /\ Len(evidence[s]) \in Nat /\ DOMAIN evidence[s] = 1..Len(evidence[s])
      /\ \A a \in 1..Len(evidence[s]) : evidence[s][a] \in Evidence
  BY EvidenceType DEF IInv, Tidy
<1>2. \A n \in Nat : Held(s, n) => Metas(s) = 1..n
  BY <1>1 DEF Held, Full, Metas
<1>3. s > st => Metas(s) = {}
  <2>1. s > st => evidence[s] = <<>>
    BY DEF IInv, Tidy, Ahead
  <2>2. Len(<<>>) = 0
    BY EmptySeq
  <2> QED
    BY <1>1, <2>1, <2>2 DEF Metas
<1>4. ASSUME EvidenceMatches PROVE \E m \in Nat : Metas(s) = 1..m
  <2>1. CASE s > st
    <3>1. Metas(s) = 1..0
      BY <1>3, <2>1
    <3> QED
      BY <3>1
  <2>2. CASE s < st
    <3>1. Held(s, seal[s]) /\ seal[s] \in Nat
      BY <2>2, MemoryFacts DEF IInv, Tidy, Memory, Settled, Sealed
    <3> QED
      BY <1>2, <3>1
  <2>3. CASE s = st
    <3> DEFINE n == Len(evidence[s])
    <3>1. n \in Nat /\ n <= MaxAttempts /\ \A a \in 1..(n - 1) : Full(evidence[s][a])
      BY <1>1, <2>3 DEF IInv, Tidy, Current, Frayed
    <3>2. n > 0 => evidence[s][n].meta \in {"absent", "listed"}
      BY <1>1, <1>4, <3>1, Constants DEF EvidenceMatches, Evidence
    <3>3. Metas(s) = {a \in 1..n : evidence[s][a].meta = "listed"}
      BY <1>1 DEF Metas
    <3> HIDE DEF n
    <3>4. CASE n > 0 /\ evidence[s][n].meta = "absent"
      <4>1. Metas(s) = 1..(n - 1)
        BY <3>1, <3>3, <3>4 DEF Full
      <4> QED
        BY <3>1, <3>4, <4>1
    <3>5. CASE n > 0 /\ evidence[s][n].meta = "listed"
      <4>1. Metas(s) = 1..n
        BY <3>1, <3>3, <3>5 DEF Full
      <4> QED
        BY <3>1, <4>1
    <3>6. CASE n = 0
      <4>1. Metas(s) = 1..n
        BY <3>3, <3>6
      <4> QED
        BY <3>1, <4>1
    <3> QED
      BY <3>1, <3>2, <3>4, <3>5, <3>6
  <2> QED
    BY <2>1, <2>2, <2>3, MemoryFacts, Constants DEF IInv, Tidy, Memory
<1>5. ASSUME NEW m \in Nat, Metas(s) = 1..m PROVE Cardinality(Metas(s)) = m
  BY <1>5, FS_Interval
<1> QED
  BY <1>2, <1>3, <1>4, <1>5

\* _assert_invocation_attempt_topology accepts whatever a run leaves, if no
\* evidence file was cut off from its manifest line.
LEMMA TopologyHolds ==
  ASSUME IInv, record # NoRecord, EvidenceMatches
  PROVE  AttemptTopology
<1>1. record.stages = results /\ pc = "done"
  BY RecordFactsAtEnd
<1> DEFINE n == Len(results)
<1>2. /\ n \in Nat /\ n \in {st - 1, st} /\ st \in Nat /\ DOMAIN results = 1..n
  BY MemoryFacts DEF IInv, Tidy, Memory, Remembered
<1>3. \A i \in 1..n : Held(i, results[i].attempt) /\ results[i].attempt \in Nat
  BY MemoryFacts DEF IInv, Tidy, Memory, Remembered, Sealed
<1>4. \A i \in 1..n : results[i].status # "succeeded" => i = st
  BY DEF IInv, Memory, Remembered
<1> SUFFICES ASSUME NEW s \in Stage
             PROVE  IF s <= n THEN Metas(s) = 1..results[s].attempt
                    ELSE IF MayHaveInvocations(s)
                    THEN Metas(s) = 1..Cardinality(Metas(s))
                    ELSE Metas(s) = {}
  BY <1>1 DEF AttemptTopology
<1>5. s \in Nat /\ s > 0
  BY Constants
<1>6. MayHaveInvocations(s) <=>
        s <= n \/ (s = n + 1 /\ (n = 0 \/ results[n].status = "succeeded"))
  BY <1>1 DEF MayHaveInvocations
<1> HIDE DEF n
<1>7. CASE s <= n
  <2>1. Metas(s) = 1..results[s].attempt
    BY <1>3, <1>2, <1>5, <1>7, MetasFacts
  <2> QED
    BY <1>7, <2>1
<1>8. CASE ~(s <= n) /\ MayHaveInvocations(s)
  <2>1. Metas(s) = 1..Cardinality(Metas(s))
    BY MetasFacts
  <2> QED
    BY <1>8, <2>1
<1>9. CASE ~(s <= n) /\ ~MayHaveInvocations(s)
  <2>1. s = n + 1 => n > 0 /\ results[n].status # "succeeded"
    BY <1>2, <1>6, <1>9
  <2>2. s = n + 1 => n = st
    BY <1>2, <1>4, <2>1
  <2>3. s > st
    BY <1>2, <1>5, <1>9, <2>2
  <2>4. Metas(s) = {}
    BY <2>3, MetasFacts
  <2> QED
    BY <1>9, <2>4
<1> QED
  BY <1>7, <1>8, <1>9

\* verify_run_integrity accepts whatever any number of faults leave behind, as
\* long as no evidence file was cut off from its manifest line.
THEOREM PartialVerifies == Spec => []PartialEvidenceVerifies
<1>1. ASSUME IInv, EvidenceMatches PROVE RunIntegrity
  <2>1. record # NoRecord => AttemptTopology
    BY <1>1, TopologyHolds
  <2>2. \A s \in SealedStages : SealHolds(s)
    BY <1>1, SealFacts DEF SealedStages
  <2>3. SealedStages \cap (DOMAIN record.stages \ SucceededIn(record.stages)) = {}
    <3>1. CASE record.stages = <<>>
      BY <3>1, EmptySeq
    <3>2. CASE record.stages = results
      <4>1. DOMAIN results = 1..Len(results)
        BY <1>1, MemoryFacts DEF IInv, Tidy, Memory
      <4>2. \A i \in 1..Len(results) : results[i].status # "succeeded" => Bare(i)
        BY <1>1 DEF IInv, Memory, Remembered
      <4> QED
        BY <3>2, <4>1, <4>2 DEF SealedStages, SucceededIn, Bare
    <3> QED
      BY <1>1, <3>1, <3>2, RecordFactsAtEnd
  <2> QED
    BY <1>1, <2>1, <2>2, <2>3 DEF RunIntegrity
<1>2. IInv => PartialEvidenceVerifies
  BY <1>1 DEF PartialEvidenceVerifies
<1> QED
  BY <1>2, Invariance, PTL

\* The stages the verifier finds sealed are those the record calls succeeded,
\* once the last of them is remembered.
LEMMA CoherentStages ==
  ASSUME IInv, record # NoRecord, seal[st] > 0 => Len(results) = st
  PROVE  StageCoherence
<1>1. record.stages = results
  BY RecordFactsAtEnd
<1>2. /\ Len(results) \in Nat /\ Len(results) \in {st - 1, st} /\ st \in Nat
      /\ DOMAIN results = 1..Len(results) /\ \A i \in 1..Len(results) : i \in Stage
  BY MemoryFacts DEF IInv, Tidy, Memory, Remembered
<1>3. \A i \in 1..Len(results) :
        \/ results[i].status = "succeeded" /\ Sealed(i)
        \/ results[i].status # "succeeded" /\ Bare(i)
  BY DEF IInv, Memory, Remembered
<1>4. \A s \in Stage : seal[s] > 0 => s \in 1..Len(results)
  <2> DEFINE n == Len(results)
  <2>1. n \in Nat /\ st \in Nat /\ n \in {st - 1, st} /\ (seal[st] > 0 => n = st)
    BY <1>2
  <2> HIDE DEF n
  <2>2. \A s \in Stage : s \in Nat /\ s > 0 /\ (s > st => seal[s] = 0)
    BY SealFacts, Constants
  <2>3. ASSUME NEW s \in Stage, seal[s] > 0 PROVE s \in 1..n
    <3>1. ~(s > st)
      BY <2>2, <2>3
    <3>2. CASE s = st
      BY <2>1, <2>2, <2>3, <3>2
    <3>3. CASE s # st
      <4>1. s \in Nat /\ s > 0 /\ s < st
        BY <2>1, <2>2, <3>1, <3>3
      <4> QED
        BY <2>1, <4>1
    <3> QED
      BY <3>2, <3>3
  <2> QED
    BY <2>3 DEF n
<1>5. SealedStages = SucceededIn(results)
  <2>1. \A i \in 1..Len(results) : results[i].status = "succeeded" <=> seal[i] > 0
    BY <1>3 DEF Sealed, Bare
  <2>2. SealedStages \subseteq SucceededIn(results)
    BY <1>2, <1>4, <2>1 DEF SealedStages, SucceededIn
  <2>3. SucceededIn(results) \subseteq SealedStages
    BY <1>2, <2>1 DEF SealedStages, SucceededIn
  <2> QED
    BY <2>2, <2>3
<1>6. \A s \in SealedStages : Outputs[s] \subseteq files[s]
  BY SealFacts DEF SealedStages, Sealed, Promoted
<1> QED
  BY <1>1, <1>5, <1>6 DEF StageCoherence

LEMMA WholeRun ==
  ASSUME IInv
  PROVE  (\A s \in Stage : SealHolds(s)) <=> st = NStages /\ seal[st] > 0
<1>1. st \in Stage /\ st \in Nat /\ st <= NStages
  BY MemoryFacts DEF IInv, Tidy, Memory
<1>2. \A s \in Stage : s \in Nat /\ s <= NStages /\ NStages \in Stage
  BY Constants
<1>3. /\ \A s \in Stage : SealHolds(s) <=> seal[s] > 0
      /\ \A s \in Stage : s < st => seal[s] > 0
      /\ \A s \in Stage : s > st => seal[s] = 0
  BY SealFacts
<1>4. ASSUME st = NStages, seal[st] > 0, NEW s \in Stage PROVE SealHolds(s)
  BY <1>1, <1>2, <1>3, <1>4
<1>5. ASSUME \A s \in Stage : SealHolds(s) PROVE st = NStages /\ seal[st] > 0
  <2>1. NStages \in Stage /\ st \in Stage
    BY <1>1, <1>2
  <2>2. seal[NStages] > 0 /\ seal[st] > 0
    BY <1>3, <1>5, <2>1
  <2>3. ~(NStages > st)
    BY <1>3, <2>1, <2>2
  <2> QED
    BY <1>1, <2>2, <2>3, Constants
<1> QED
  BY <1>4, <1>5

\* Whatever went wrong and however often, a record that says succeeded stands
\* on a complete, sealed and evaluated run that verify_terminal_run accepts.
THEOREM SuccessProven == Spec => []SuccessIsProven
<1>1. ASSUME IInv, record.status = "succeeded" PROVE Verifies
  <2>1. /\ record # NoRecord /\ pc = "done" /\ record.stages = results
        /\ status = "succeeded" /\ record.outcome = outcome
        /\ (record.authority <=> frozen = Frozen)
    <3>1. NoRecord.status # "succeeded"
      BY DEF NoRecord
    <3> QED
      BY <1>1, <3>1, RecordFactsAtEnd
  <2>2. /\ outcome = "passed" /\ evaluation = "passed" /\ evalStarted
    BY <1>1, <2>1 DEF IInv, Memory, Judged, Ending
  <2>3. st = NStages /\ Sealed(st) /\ Len(results) = st /\ seal[st] > 0
    BY <1>1, <2>2 DEF IInv, Memory, Judged, Sealed
  <2>4. frozen = Frozen
    <3>1. frozen \in 0..Frozen /\ ~(frozen < Frozen)
      BY <1>1, <2>2 DEF IInv, Memory, Authorized, RunTypes
    <3> QED
      BY <3>1, Constants
  <2>5. manifest
    BY <1>1, <2>3, MemoryFacts, Constants
       DEF IInv, Tidy, Memory, ManifestBegun, Sealed, Promoted
  <2>6. EvidenceMatches
    <3>1. \A s \in Stage : Sealed(s)
      BY <1>1, <2>3, SealFacts, MemoryFacts, Constants
         DEF IInv, Tidy, Memory, Settled
    <3> QED
      BY <1>1, <3>1, EvidenceType
         DEF IInv, Tidy, EvidenceMatches, Sealed, Held, Full
  <2>7. AttemptTopology
    BY <1>1, <2>1, <2>6, TopologyHolds
  <2>8. StageCoherence
    BY <1>1, <2>1, <2>3, CoherentStages
  <2>9. EvaluationCoherence
    BY <1>1, <2>1, <2>2 DEF EvaluationCoherence
  <2>10. StatusTopology
    BY <1>1, <2>3, WholeRun DEF StatusTopology
  <2>11. \A s \in SealedStages : SealHolds(s)
    BY <1>1, SealFacts DEF SealedStages
  <2> QED
    BY <2>1, <2>4, <2>5, <2>6, <2>7, <2>8, <2>9, <2>10, <2>11 DEF Verifies
<1>2. IInv => SuccessIsProven
  BY <1>1 DEF SuccessIsProven
<1> QED
  BY <1>2, Invariance, PTL

\* A run that met no exception and at most one interrupt, wherever it fell,
\* leaves a record verify_terminal_run accepts, unless the interrupt split an
\* evidence file from its manifest line or came before the manifest.
THEOREM CleanVerifies == Spec => []CleanRunVerifies
<1>1. ASSUME IInv, record # NoRecord, exceptions = 0, interrupts <= 1, manifest,
             EvidenceMatches
      PROVE  Verifies
  <2>1. /\ pc = "done" /\ record.stages = results /\ record.status = status
        /\ record.outcome = outcome /\ record.error = evalError
        /\ (record.authority <=> frozen = Frozen)
    BY <1>1, RecordFactsAtEnd
  <2>2. /\ seal[st] > 0 => Len(results) = st
        /\ status \in {"succeeded", "failed_evaluation"} <=>
             st = NStages /\ seal[st] > 0
        /\ status = "failed_evaluation" =>
             \/ evaluation = "rejected" /\ outcome = "rejected" /\ ~evalError
             \/ evaluation = "error" /\ outcome = "none" /\ evalError
        /\ status \notin {"succeeded", "failed_evaluation"} => outcome = "none"
        /\ frozen < Frozen => /\ status = "infrastructure_failure"
                              /\ ~evalError /\ evaluation = "none"
    BY <1>1, <2>1 DEF IInv, Memory, CleanEnd, Ending
  <2>3. status = "succeeded" => outcome = "passed" /\ evaluation = "passed"
    BY <1>1, <2>1 DEF IInv, Memory, Judged, Ending
  <2>4. CASE frozen < Frozen
    <3>1. /\ st = 1 /\ Bare(st) /\ evidence[st] = <<>> /\ results = <<>>
      BY <1>1, <2>4 DEF IInv, Memory, Authorized
    <3>2. \A s \in Stage : Bare(s) /\ evidence[s] = <<>>
      BY <1>1, <3>1, Constants DEF IInv, Tidy, Ahead, Stage
    <3>3. SealedStages = {}
      BY <3>2 DEF SealedStages, Bare
    <3>4. SucceededIn(record.stages) = {}
      BY <2>1, <3>1, EmptySeq DEF SucceededIn
    <3>5. SetupFailure
      BY <2>1, <2>2, <2>4, <3>2, <3>3, <3>4 DEF SetupFailure, Bare
    <3>6. ~record.authority
      BY <2>1, <2>4, Constants
    <3> QED
      BY <1>1, <3>5, <3>6 DEF Verifies
  <2>5. CASE ~(frozen < Frozen)
    <3>1. frozen = Frozen
      BY <1>1, <2>5, Constants DEF IInv, Memory, RunTypes
    <3>2. AttemptTopology /\ StageCoherence
      BY <1>1, <2>2, TopologyHolds, CoherentStages
    <3>3. EvaluationCoherence
      BY <2>1, <2>2, <2>3 DEF EvaluationCoherence
    <3>4. StatusTopology
      BY <1>1, <2>1, <2>2, WholeRun DEF StatusTopology
    <3>5. \A s \in SealedStages : SealHolds(s)
      BY <1>1, SealFacts DEF SealedStages
    <3> QED
      BY <1>1, <2>1, <3>1, <3>2, <3>3, <3>4, <3>5 DEF Verifies
  <2> QED
    BY <2>4, <2>5
<1>2. IInv => CleanRunVerifies
  BY <1>1 DEF CleanRunVerifies
<1> QED
  BY <1>2, Invariance, PTL
=============================================================================
