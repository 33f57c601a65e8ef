----------------------- MODULE WorkerCollectorProofs ------------------------
(***************************************************************************)
(* Proofs about WorkerCollector, for every deadline, allowance, quantum,   *)
(* ceiling and bound.                                                      *)
(*                                                                         *)
(* None of the properties is inductive.  What the result says rests on     *)
(* what the loop knew when it was left: that a pipe once seen at its end   *)
(* stays there, that up to the first abort the collector holds exactly the *)
(* bytes it read, and that a reply that was not latched had a reason not   *)
(* to be, which nothing afterwards takes away.                             *)
(***************************************************************************)
EXTENDS WorkerCollector, TLAPS

-----------------------------------------------------------------------------
(* The inductive invariant.                                                *)

Looping == pc \in {"arbitrate", "io", "latch"}
Over    == pc \in {"closing", "returning", "done"}

\* The kernel closed what the worker held, and only a worker that is gone is
\* reaped.
GoneForGood ==
  /\ Gone => \A p \in Pipe : "worker" \notin holders[p]
  /\ reaped => Gone

\* A pipe seen at its end has no writer left and nothing unread.
EndsAreFinal == \A p \in eof : holders[p] = {} /\ consumed[p] = sent[p]

\* Before the first abort every byte that was read is held, within the ceilings.
HeldIsRead ==
  abortReason = "none" =>
    /\ Looping => \A p \in Pipe : counts[p] = consumed[p]
    /\ counts["stdout"] <= StreamLimit /\ counts["stderr"] <= StreamLimit
    /\ Observed <= DiagnosticLimit

\* A latched reply is all that a worker accepted in time ever wrote.
LatchedIsWhole ==
  latched # NoBytes =>
    /\ Over
    /\ reaped /\ eof = Pipe /\ worker = "exited" /\ abortReason = "none"
    /\ latched = sent["protocol"]

\* What kept a reply from being latched still does when the result is built.
UnlatchedHasReason ==
  /\ pc = "waiting" => abortReason # "none"
  /\ Over /\ latched = NoBytes => ~Acceptable

\* Only faults make a cleanup fail, and without them the loop is left because
\* everything is over or because the allowance is spent.
LeftForReason ==
  faults = 0 =>
    /\ ~cleanupError /\ ~interruption /\ pc # "waiting"
    /\ Over \/ pc = "latch" =>
         (reaped /\ eof = Pipe) \/ (cleaning /\ allowance <= 0)

\* The result stays what the collector's state says: nothing it was built from
\* changes afterwards.
ResultStands ==
  IF pc = "done"
  THEN /\ result.failure = Failure
       /\ result.protocol = IF Failure = "none" THEN latched ELSE NoBytes
  ELSE result = [failure |-> "pending", protocol |-> NoBytes]

\* TypeOK in three parts, for the provers.
FlagsOK ==
  /\ reaped \in BOOLEAN /\ stdinOpen \in BOOLEAN /\ cleaning \in BOOLEAN
  /\ cleanupError \in BOOLEAN /\ interruption \in BOOLEAN

BytesOK ==
  /\ sent \in [Pipe -> 0..MaxBytes]
  /\ consumed \in [Pipe -> Nat] /\ counts \in [Pipe -> Nat]
  /\ \A p \in Pipe : counts[p] <= consumed[p] /\ consumed[p] <= sent[p]
  /\ counts["protocol"] <= ProtocolLimit
  /\ \A p \in Stream : counts[p] <= StreamLimit + 1
  /\ Observed <= DiagnosticLimit + 1
  /\ eof \subseteq Pipe

RestOK ==
  /\ worker \in {"running", "exited", "failed"}
  /\ holders \in [Pipe -> SUBSET {"worker", "descendant"}]
  /\ left \in 0..Deadline /\ allowance \in -1..Allowance
  /\ pc \in {"arbitrate", "io", "latch", "waiting", "closing", "returning",
             "done"}
  /\ abortReason \in AbortReasons \cup {"none"}
  /\ latched \in 0..ProtocolLimit \cup {NoBytes}
  /\ result \in [failure : AbortReasons \cup
                   {"pending", "none", "cleanup_uncertain", "worker_exit"},
                 protocol : 0..ProtocolLimit \cup {NoBytes}]
  /\ faults \in 0..MaxFaults

IInv ==
  /\ FlagsOK /\ BytesOK /\ RestOK
  /\ GoneForGood /\ EndsAreFinal /\ HeldIsRead /\ LatchedIsWhole
  /\ UnlatchedHasReason /\ LeftForReason /\ ResultStands

LEMMA TypeParts == TypeOK <=> FlagsOK /\ BytesOK /\ RestOK
BY DEF TypeOK, FlagsOK, BytesOK, RestOK

-----------------------------------------------------------------------------
(* Every step preserves it.                                                *)

\* A pipe someone still writes to was not seen at its end.
LEMMA EmitStep ==
  ASSUME IInv, NEW p \in Pipe, Emit(p)
  PROVE  IInv'
<1> USE CollectorAssumption DEF Pipe, Stream, process, clock, Gone, vars,
    Observed, Emit
<1>1. FlagsOK' /\ BytesOK' /\ RestOK'
  BY DEF IInv, FlagsOK, BytesOK, RestOK
<1>2. EndsAreFinal'
  BY DEF IInv, EndsAreFinal
<1>3. LatchedIsWhole'
  BY DEF IInv, LatchedIsWhole, EndsAreFinal
<1>4. GoneForGood' /\ HeldIsRead' /\ UnlatchedHasReason'
      /\ LeftForReason' /\ ResultStands'
  BY DEF IInv, GoneForGood, HeldIsRead, Looping, UnlatchedHasReason, Over,
      Acceptable, LeftForReason, ResultStands, Failure, Complete
<1> QED
  BY <1>1, <1>2, <1>3, <1>4 DEF IInv

LEMMA DropStep ==
  ASSUME IInv, NEW h \in {"worker", "descendant"}, Drop(h)
  PROVE  IInv'
<1> USE CollectorAssumption DEF Pipe, Stream, process, clock, Gone, vars,
    Observed, Drop
<1>1. FlagsOK' /\ BytesOK' /\ RestOK'
  BY DEF IInv, FlagsOK, BytesOK, RestOK
<1>2. GoneForGood'
  BY DEF IInv, GoneForGood
<1>3. EndsAreFinal'
  BY DEF IInv, FlagsOK, BytesOK, RestOK, GoneForGood, EndsAreFinal
<1>4. HeldIsRead' /\ LatchedIsWhole' /\ UnlatchedHasReason'
      /\ LeftForReason' /\ ResultStands'
  BY DEF IInv, HeldIsRead, Looping, LatchedIsWhole, Over, Acceptable,
      UnlatchedHasReason, LeftForReason, ResultStands, Failure, Complete
<1> QED
  BY <1>1, <1>2, <1>3, <1>4 DEF IInv

LEMMA ForkStep ==
  ASSUME IInv, NEW ps \in SUBSET Pipe, Fork(ps)
  PROVE  IInv'
<1> USE CollectorAssumption DEF Pipe, Stream, process, clock, Gone, vars,
    Observed, Fork
<1>1. FlagsOK' /\ BytesOK' /\ RestOK'
  BY DEF IInv, FlagsOK, BytesOK, RestOK
<1>2. GoneForGood'
  BY DEF IInv, GoneForGood
<1>3. EndsAreFinal'
  BY DEF IInv, BytesOK, RestOK, EndsAreFinal
<1>4. HeldIsRead' /\ LatchedIsWhole' /\ UnlatchedHasReason'
      /\ LeftForReason' /\ ResultStands'
  BY DEF IInv, HeldIsRead, Looping, LatchedIsWhole, Over, Acceptable,
      UnlatchedHasReason, LeftForReason, ResultStands, Failure, Complete
<1> QED
  BY <1>1, <1>2, <1>3, <1>4 DEF IInv

\* The worker's end changes what a reaped worker is believed to be only while
\* it is not reaped.
LEMMA EndStep ==
  ASSUME IInv, NEW how \in {"exited", "failed"}, End(how)
  PROVE  IInv'
<1> USE CollectorAssumption DEF Pipe, Stream, process, clock, Gone, vars,
    Observed, End
<1>1. FlagsOK' /\ BytesOK' /\ RestOK'
  BY DEF IInv, FlagsOK, BytesOK, RestOK
<1>2. GoneForGood'
  BY DEF IInv, GoneForGood
<1>3. EndsAreFinal'
  BY DEF IInv, BytesOK, EndsAreFinal
<1>4. LatchedIsWhole'
  BY DEF IInv, LatchedIsWhole
<1>5. UnlatchedHasReason'
  BY DEF IInv, UnlatchedHasReason, GoneForGood, Acceptable
<1>6. ResultStands'
  BY DEF IInv, ResultStands, Failure, Complete, GoneForGood
<1>7. HeldIsRead' /\ LeftForReason'
  BY DEF IInv, HeldIsRead, Looping, LeftForReason, Over
<1> QED
  BY <1>1, <1>2, <1>3, <1>4, <1>5, <1>6, <1>7 DEF IInv

\* Time runs on; a spent allowance stays spent.
LEMMA TickStep ==
  ASSUME IInv, Tick
  PROVE  IInv'
<1> USE CollectorAssumption DEF Pipe, Stream, process, clock, Gone, vars,
    Observed, Tick
<1>1. FlagsOK' /\ BytesOK' /\ RestOK'
  BY DEF IInv, FlagsOK, BytesOK, RestOK
<1>2. LeftForReason'
  BY DEF IInv, RestOK, LeftForReason, Over
<1>3. ResultStands'
  BY DEF IInv, ResultStands
<1>4. GoneForGood' /\ EndsAreFinal' /\ HeldIsRead' /\ LatchedIsWhole'
      /\ UnlatchedHasReason'
  BY DEF IInv, GoneForGood, EndsAreFinal, HeldIsRead, Looping, LatchedIsWhole,
      Over, Acceptable, UnlatchedHasReason
<1> QED
  BY <1>1, <1>2, <1>3, <1>4 DEF IInv

LEMMA ProceedStep ==
  ASSUME IInv, Proceed
  PROVE  IInv'
<1> USE CollectorAssumption DEF Pipe, Stream, process, clock, Gone, vars,
    Observed, Proceed, NextTurn
<1>1. FlagsOK' /\ BytesOK' /\ RestOK'
  BY DEF IInv, FlagsOK, BytesOK, RestOK
<1>2. HeldIsRead'
  BY DEF IInv, HeldIsRead, Looping
<1>3. LatchedIsWhole'
  BY DEF IInv, LatchedIsWhole, Over
<1>4. UnlatchedHasReason'
  BY DEF IInv, UnlatchedHasReason, Over
<1>5. LeftForReason'
  BY DEF IInv, LeftForReason, Over
<1>6. ResultStands'
  BY DEF IInv, ResultStands
<1>7. GoneForGood' /\ EndsAreFinal'
  BY DEF IInv, GoneForGood, EndsAreFinal
<1> QED
  BY <1>1, <1>2, <1>3, <1>4, <1>5, <1>6, <1>7 DEF IInv

LEMMA IdleStep ==
  ASSUME IInv, Idle
  PROVE  IInv'
<1> USE CollectorAssumption DEF Pipe, Stream, process, clock, Gone, vars,
    Observed, Idle
<1>1. FlagsOK' /\ BytesOK' /\ RestOK'
  BY DEF IInv, FlagsOK, BytesOK, RestOK
<1>2. HeldIsRead'
  BY DEF IInv, HeldIsRead, Looping
<1>3. LatchedIsWhole'
  BY DEF IInv, LatchedIsWhole, Over
<1>4. UnlatchedHasReason'
  BY DEF IInv, UnlatchedHasReason, Over
<1>5. LeftForReason'
  BY DEF IInv, LeftForReason, Over
<1>6. ResultStands'
  BY DEF IInv, ResultStands
<1>7. GoneForGood' /\ EndsAreFinal'
  BY DEF IInv, GoneForGood, EndsAreFinal
<1> QED
  BY <1>1, <1>2, <1>3, <1>4, <1>5, <1>6, <1>7 DEF IInv

LEMMA ObserveExitStep ==
  ASSUME IInv, NEW f \in CleanupFaults, ObserveExit(f)
  PROVE  IInv'
<1> USE CollectorAssumption DEF Pipe, Stream, process, clock, Gone, vars,
    Observed, ObserveExit, CleanUp, Meets, NextTurn, FirstReason, Dropped
<1>1. FlagsOK'
  BY DEF IInv, FlagsOK
<1>2. BytesOK'
  BY DEF IInv, BytesOK
<1>3. RestOK'
  BY DEF IInv, RestOK, AbortReasons
<1>4. GoneForGood'
  BY DEF IInv, GoneForGood
<1>5. HeldIsRead'
  BY DEF IInv, HeldIsRead, Looping
<1>6. LatchedIsWhole'
  BY DEF IInv, LatchedIsWhole
<1>7. UnlatchedHasReason'
  BY DEF IInv, UnlatchedHasReason, Over
<1>8. LeftForReason'
  BY DEF IInv, FlagsOK, RestOK, LeftForReason, Over
<1>9. ResultStands'
  BY DEF IInv, ResultStands
<1>10. EndsAreFinal'
  BY DEF IInv, EndsAreFinal
<1> QED
  BY <1>1, <1>2, <1>3, <1>4, <1>5, <1>6, <1>7, <1>8, <1>9, <1>10 DEF IInv

LEMMA AbortStep ==
  ASSUME IInv, NEW f \in CleanupFaults, Abort(f)
  PROVE  IInv'
<1> USE CollectorAssumption DEF Pipe, Stream, process, clock, Gone, vars,
    Observed, Abort, CleanUp, Meets, NextTurn, Dropped
<1>1. FlagsOK'
  BY DEF IInv, FlagsOK
<1>2. BytesOK'
  BY DEF IInv, BytesOK
<1>3. RestOK'
  BY DEF IInv, RestOK, AbortReasons
<1>4. HeldIsRead'
  BY DEF IInv, HeldIsRead
<1>5. LatchedIsWhole'
  BY DEF IInv, LatchedIsWhole, Over
<1>6. UnlatchedHasReason'
  BY DEF IInv, UnlatchedHasReason, Over
<1>7. LeftForReason'
  BY DEF IInv, FlagsOK, RestOK, LeftForReason, Over
<1>8. ResultStands'
  BY DEF IInv, ResultStands
<1>9. GoneForGood' /\ EndsAreFinal'
  BY DEF IInv, GoneForGood, EndsAreFinal
<1> QED
  BY <1>1, <1>2, <1>3, <1>4, <1>5, <1>6, <1>7, <1>8, <1>9 DEF IInv

LEMMA CloseStdinStep ==
  ASSUME IInv, NEW f \in CleanupFaults, CloseStdin(f)
  PROVE  IInv'
<1> USE CollectorAssumption DEF Pipe, Stream, process, clock, Gone, vars,
    Observed, CloseStdin, Meets
<1>1. FlagsOK'
  BY DEF IInv, FlagsOK
<1>2. BytesOK'
  BY DEF IInv, BytesOK
<1>3. RestOK'
  BY DEF IInv, RestOK
<1>4. HeldIsRead'
  BY DEF IInv, HeldIsRead, Looping
<1>5. LatchedIsWhole'
  BY DEF IInv, LatchedIsWhole, Over
<1>6. UnlatchedHasReason'
  BY DEF IInv, UnlatchedHasReason, Over
<1>7. LeftForReason'
  BY DEF IInv, FlagsOK, RestOK, LeftForReason, Over
<1>8. ResultStands'
  BY DEF IInv, ResultStands
<1>9. GoneForGood' /\ EndsAreFinal'
  BY DEF IInv, GoneForGood, EndsAreFinal
<1> QED
  BY <1>1, <1>2, <1>3, <1>4, <1>5, <1>6, <1>7, <1>8, <1>9 DEF IInv

LEMMA ObserveFailsStep ==
  ASSUME IInv, NEW f \in CleanupFaults, NEW i \in BOOLEAN, ObserveFails(i, f)
  PROVE  IInv'
<1> USE CollectorAssumption DEF Pipe, Stream, process, clock, Gone, vars,
    Observed, ObserveFails, FirstReason, Dropped
<1>1. FlagsOK'
  BY DEF IInv, FlagsOK
<1>2. BytesOK'
  BY DEF IInv, BytesOK
<1>3. RestOK'
  BY DEF IInv, RestOK, AbortReasons
<1>4. HeldIsRead'
  BY DEF IInv, HeldIsRead
<1>5. LatchedIsWhole'
  BY DEF IInv, LatchedIsWhole
<1>6. UnlatchedHasReason'
  BY DEF IInv, UnlatchedHasReason, Over
<1>7. LeftForReason'
  BY DEF IInv, RestOK, LeftForReason
<1>8. ResultStands'
  BY DEF IInv, ResultStands
<1>9. GoneForGood' /\ EndsAreFinal'
  BY DEF IInv, GoneForGood, EndsAreFinal
<1> QED
  BY <1>1, <1>2, <1>3, <1>4, <1>5, <1>6, <1>7, <1>8, <1>9 DEF IInv

LEMMA ReadEndStep ==
  ASSUME IInv, NEW p \in Pipe, ReadEnd(p)
  PROVE  IInv'
<1> USE CollectorAssumption DEF Pipe, Stream, process, clock, Gone, vars,
    Observed, ReadEnd
<1>1. FlagsOK' /\ BytesOK' /\ RestOK'
  BY DEF IInv, FlagsOK, BytesOK, RestOK
<1>2. EndsAreFinal'
  BY DEF IInv, EndsAreFinal
<1>3. HeldIsRead'
  BY DEF IInv, HeldIsRead, Looping
<1>4. LatchedIsWhole'
  BY DEF IInv, LatchedIsWhole
<1>5. UnlatchedHasReason'
  BY DEF IInv, UnlatchedHasReason, Over
<1>6. LeftForReason'
  BY DEF IInv, LeftForReason, Over
<1>7. ResultStands'
  BY DEF IInv, ResultStands
<1>8. GoneForGood'
  BY DEF IInv, GoneForGood
<1> QED
  BY <1>1, <1>2, <1>3, <1>4, <1>5, <1>6, <1>7, <1>8 DEF IInv

LEMMA ReadStep ==
  ASSUME IInv, NEW p \in Pipe, NEW k \in 1..Quantum, Read(p, k)
  PROVE  IInv'
<1> USE CollectorAssumption DEF Pipe, Stream, process, clock, Gone, vars,
    Observed, Read, ReadSize, Least, Exceeds
<1>1. FlagsOK' /\ BytesOK' /\ RestOK'
  BY DEF IInv, FlagsOK, BytesOK, RestOK
<1>2. EndsAreFinal'
  BY DEF IInv, RestOK, EndsAreFinal
<1>3. HeldIsRead'
  BY DEF IInv, BytesOK, HeldIsRead, Looping
<1>4. LatchedIsWhole'
  BY DEF IInv, LatchedIsWhole
<1>5. UnlatchedHasReason'
  BY DEF IInv, UnlatchedHasReason, Over
<1>6. LeftForReason'
  BY DEF IInv, LeftForReason, Over
<1>7. ResultStands'
  BY DEF IInv, ResultStands
<1>8. GoneForGood'
  BY DEF IInv, GoneForGood
<1> QED
  BY <1>1, <1>2, <1>3, <1>4, <1>5, <1>6, <1>7, <1>8 DEF IInv

LEMMA ReadExcessStep ==
  ASSUME IInv, NEW p \in Pipe, NEW k \in 1..Quantum, NEW f \in CleanupFaults,
      ReadExcess(p, k, f)
  PROVE  IInv'
<1> USE CollectorAssumption DEF Pipe, Stream, process, clock, Gone, vars,
    Observed, ReadExcess, CleanUp, Meets, Dropped, ReadSize, Least, Exceeds
<1>1. FlagsOK'
  BY DEF IInv, FlagsOK
<1>2. BytesOK'
  BY DEF IInv, BytesOK
<1>3. RestOK'
  BY DEF IInv, RestOK, AbortReasons
<1>4. EndsAreFinal'
  BY DEF IInv, EndsAreFinal
<1>5. HeldIsRead'
  BY DEF IInv, HeldIsRead
<1>6. LatchedIsWhole'
  BY DEF IInv, LatchedIsWhole
<1>7. UnlatchedHasReason'
  BY DEF IInv, UnlatchedHasReason, Over
<1>8. LeftForReason'
  BY DEF IInv, FlagsOK, RestOK, LeftForReason, Over
<1>9. ResultStands'
  BY DEF IInv, ResultStands
<1>10. GoneForGood'
  BY DEF IInv, GoneForGood
<1> QED
  BY <1>1, <1>2, <1>3, <1>4, <1>5, <1>6, <1>7, <1>8, <1>9, <1>10 DEF IInv

\* What is latched is what was read, and that is all there will ever be.
LEMMA LatchStep ==
  ASSUME IInv, Latch
  PROVE  IInv'
<1> USE CollectorAssumption DEF Pipe, Stream, process, clock, Gone, vars,
    Observed, Latch, Dropped, Acceptable
<1>1. FlagsOK' /\ BytesOK' /\ RestOK'
  BY DEF IInv, FlagsOK, BytesOK, RestOK, AbortReasons
<1>2. HeldIsRead'
  BY DEF IInv, HeldIsRead, Looping
<1>3. LatchedIsWhole'
  BY DEF IInv, LatchedIsWhole, EndsAreFinal, HeldIsRead, Looping, Over
<1>4. UnlatchedHasReason'
  BY DEF IInv, BytesOK, RestOK, UnlatchedHasReason, NoBytes
<1>5. LeftForReason'
  BY DEF IInv, LeftForReason
<1>6. ResultStands'
  BY DEF IInv, ResultStands
<1>7. GoneForGood' /\ EndsAreFinal'
  BY DEF IInv, GoneForGood, EndsAreFinal
<1> QED
  BY <1>1, <1>2, <1>3, <1>4, <1>5, <1>6, <1>7 DEF IInv

\* The result says what the collector's state says at this moment.
LEMMA ReturnStep ==
  ASSUME IInv, Return
  PROVE  IInv'
<1> USE CollectorAssumption DEF Pipe, Stream, process, clock, Gone, vars,
    Observed, Return, Failure, Complete
<1>1. FlagsOK' /\ BytesOK' /\ RestOK'
  BY DEF IInv, FlagsOK, BytesOK, RestOK, AbortReasons
<1>2. HeldIsRead'
  BY DEF IInv, HeldIsRead, Looping
<1>3. LatchedIsWhole'
  BY DEF IInv, LatchedIsWhole, Over
<1>4. UnlatchedHasReason'
  BY DEF IInv, UnlatchedHasReason, Over, Acceptable
<1>5. LeftForReason'
  BY DEF IInv, LeftForReason, Over
<1>6. ResultStands'
  BY DEF IInv, ResultStands
<1>7. GoneForGood' /\ EndsAreFinal'
  BY DEF IInv, GoneForGood, EndsAreFinal
<1> QED
  BY <1>1, <1>2, <1>3, <1>4, <1>5, <1>6, <1>7 DEF IInv

\* A worker seen to exit by the bounded wait belongs to an aborted collection.
LEMMA AwaitExitStep ==
  ASSUME IInv, AwaitExit
  PROVE  IInv'
<1> USE CollectorAssumption DEF Pipe, Stream, process, clock, Gone, vars,
    Observed, AwaitExit
<1>1. FlagsOK' /\ BytesOK' /\ RestOK'
  BY DEF IInv, FlagsOK, BytesOK, RestOK
<1>2. GoneForGood'
  BY DEF IInv, GoneForGood
<1>3. HeldIsRead'
  BY DEF IInv, HeldIsRead, Looping
<1>4. LatchedIsWhole'
  BY DEF IInv, LatchedIsWhole, Over
<1>5. UnlatchedHasReason'
  BY DEF IInv, UnlatchedHasReason, Acceptable
<1>6. LeftForReason'
  BY DEF IInv, LeftForReason
<1>7. ResultStands'
  BY DEF IInv, ResultStands
<1>8. EndsAreFinal'
  BY DEF IInv, EndsAreFinal
<1> QED
  BY <1>1, <1>2, <1>3, <1>4, <1>5, <1>6, <1>7, <1>8 DEF IInv

LEMMA StopWaitingStep ==
  ASSUME IInv, StopWaiting
  PROVE  IInv'
<1> USE CollectorAssumption DEF Pipe, Stream, process, clock, Gone, vars,
    Observed
<1>1. /\ pc = "waiting" /\ pc' = "closing"
      /\ UNCHANGED <<process, clock, consumed, counts, eof, reaped, stdinOpen,
                     abortReason, cleaning, cleanupError, latched, result>>
  BY DEF StopWaiting
<1>2. faults' = faults \/ (faults < MaxFaults /\ faults' = faults + 1)
  BY Zenon DEF StopWaiting
<1>3. interruption' \in BOOLEAN
  BY Zenon DEF IInv, FlagsOK, StopWaiting
<1>4. FlagsOK' /\ BytesOK'
  BY <1>1, <1>3 DEF IInv, FlagsOK, BytesOK
<1>5. RestOK'
  BY <1>1, <1>2 DEF IInv, RestOK
<1>6. GoneForGood' /\ EndsAreFinal'
  BY <1>1 DEF IInv, GoneForGood, EndsAreFinal
<1>7. HeldIsRead' /\ LatchedIsWhole'
  BY <1>1 DEF IInv, HeldIsRead, LatchedIsWhole, Looping, Over
<1>8. UnlatchedHasReason'
  BY <1>1 DEF IInv, UnlatchedHasReason, Acceptable
<1>9. LeftForReason'
  <2>1. faults > 0 /\ faults' > 0
    BY <1>1, <1>2 DEF IInv, RestOK, LeftForReason
  <2> QED
    BY <2>1 DEF LeftForReason
<1>10. ResultStands'
  BY <1>1 DEF IInv, ResultStands
<1> QED
  BY <1>4, <1>5, <1>6, <1>7, <1>8, <1>9, <1>10 DEF IInv

LEMMA CloseAllStep ==
  ASSUME IInv, NEW f \in CleanupFaults, CloseAll(f)
  PROVE  IInv'
<1> USE CollectorAssumption DEF Pipe, Stream, process, clock, Gone, vars,
    Observed, CloseAll, Meets
<1>1. FlagsOK'
  BY DEF IInv, FlagsOK
<1>2. BytesOK'
  BY DEF IInv, BytesOK
<1>3. RestOK'
  BY DEF IInv, RestOK
<1>4. HeldIsRead'
  BY DEF IInv, HeldIsRead, Looping
<1>5. LatchedIsWhole'
  BY DEF IInv, LatchedIsWhole, Over
<1>6. UnlatchedHasReason'
  BY DEF IInv, FlagsOK, UnlatchedHasReason, Over, Acceptable
<1>7. LeftForReason'
  BY DEF IInv, FlagsOK, RestOK, LeftForReason, Over
<1>8. ResultStands'
  BY DEF IInv, ResultStands
<1>9. GoneForGood' /\ EndsAreFinal'
  BY DEF IInv, GoneForGood, EndsAreFinal
<1> QED
  BY <1>1, <1>2, <1>3, <1>4, <1>5, <1>6, <1>7, <1>8, <1>9 DEF IInv

\* Whatever escapes the loop has aborted the collection.
LEMMA EscapeStep ==
  ASSUME IInv, NEW f \in CleanupFaults, NEW i \in BOOLEAN, Escape(i, f)
  PROVE  IInv'
<1> USE CollectorAssumption DEF Pipe, Stream, process, clock, Gone, vars,
    Observed, Escape, FirstReason, Dropped
<1>1. FlagsOK'
  BY DEF IInv, FlagsOK
<1>2. BytesOK'
  BY DEF IInv, BytesOK
<1>3. RestOK'
  BY DEF IInv, RestOK, AbortReasons
<1>4. HeldIsRead'
  BY DEF IInv, HeldIsRead
<1>5. LatchedIsWhole'
  BY DEF IInv, LatchedIsWhole, Over
<1>6. UnlatchedHasReason'
  BY DEF IInv, UnlatchedHasReason, Acceptable
<1>7. LeftForReason'
  BY DEF IInv, RestOK, LeftForReason
<1>8. ResultStands'
  BY DEF IInv, ResultStands
<1>9. GoneForGood' /\ EndsAreFinal'
  BY DEF IInv, GoneForGood, EndsAreFinal
<1> QED
  BY <1>1, <1>2, <1>3, <1>4, <1>5, <1>6, <1>7, <1>8, <1>9 DEF IInv

LEMMA StutterStep ==
  ASSUME IInv, UNCHANGED vars
  PROVE  IInv'
<1> USE CollectorAssumption DEF Pipe, Stream, process, clock, Gone, vars,
    Observed
<1>1. FlagsOK' /\ BytesOK' /\ RestOK'
  BY DEF IInv, FlagsOK, BytesOK, RestOK
<1>2. GoneForGood' /\ EndsAreFinal' /\ HeldIsRead' /\ LatchedIsWhole'
      /\ UnlatchedHasReason' /\ LeftForReason' /\ ResultStands'
  BY DEF IInv, GoneForGood, EndsAreFinal, HeldIsRead, Looping, LatchedIsWhole,
      Over, Acceptable, UnlatchedHasReason, LeftForReason, ResultStands,
      Failure, Complete
<1> QED
  BY <1>1, <1>2 DEF IInv

LEMMA InitInv == Init => IInv
<1> SUFFICES ASSUME Init PROVE IInv
  OBVIOUS
<1> USE CollectorAssumption DEF Init, Pipe, Stream, NoBytes
<1>1. FlagsOK /\ BytesOK
  <2>1. FlagsOK
    BY DEF FlagsOK
  <2>2. BytesOK
    BY DEF BytesOK, Observed
  <2> QED
    BY <2>1, <2>2
<1>2. RestOK
  <2>1. result \in [failure : AbortReasons \cup
                     {"pending", "none", "cleanup_uncertain", "worker_exit"},
                   protocol : 0..ProtocolLimit \cup {NoBytes}]
    BY Zenon
  <2> QED
    BY <2>1 DEF RestOK
<1>3. GoneForGood /\ EndsAreFinal /\ HeldIsRead
  BY DEF GoneForGood, Gone, EndsAreFinal, HeldIsRead, Observed
<1>4. LatchedIsWhole /\ UnlatchedHasReason /\ LeftForReason /\ ResultStands
  BY DEF LatchedIsWhole, UnlatchedHasReason, LeftForReason, ResultStands, Over
<1> QED
  BY <1>1, <1>2, <1>3, <1>4 DEF IInv

LEMMA StepInv == IInv /\ [Next]_vars => IInv'
<1> SUFFICES ASSUME IInv, [Next]_vars PROVE IInv'
  OBVIOUS
<1>1. CASE Worker
  BY <1>1, EmitStep, DropStep, ForkStep, EndStep DEF Worker
<1>2. CASE Turn
  BY <1>2, ProceedStep, IdleStep, ObserveExitStep, AbortStep, CloseStdinStep,
     ObserveFailsStep DEF Turn
<1>3. CASE Transfer
  BY <1>3, ReadEndStep, ReadStep, ReadExcessStep DEF Transfer
<1>4. CASE Finish
  BY <1>4, LatchStep, ReturnStep, AwaitExitStep, StopWaitingStep, CloseAllStep,
     EscapeStep DEF Finish
<1>5. CASE Terminated \/ UNCHANGED vars
  BY <1>5, StutterStep DEF Terminated
<1> QED
  BY <1>1, <1>2, <1>3, <1>4, <1>5, TickStep DEF Next, Collector

\* The inductive invariant holds in every reachable state of a collection.
THEOREM Invariance == Spec => []IInv
BY InitInv, StepInv, PTL DEF Spec

-----------------------------------------------------------------------------
(* The safety properties.                                                  *)

\* Types and ranges hold for every ceiling: whatever the worker writes, the
\* collector never holds more of a pipe than its ceiling and the one byte that
\* shows the excess (remaining_observation and append_stream).
THEOREM Types == Spec => []TypeOK
<1>1. IInv => TypeOK
  BY TypeParts DEF IInv
<1> QED
  BY <1>1, Invariance, PTL

\* A reply that is handed on is everything that was or ever will be written to
\* the protocol pipe, by a worker that exited with code 0, and a collection
\* without failure has one (the latch of accepted).
THEOREM Accepted == Spec => []AcceptedIsWhole
<1>1. ASSUME IInv PROVE AcceptedIsWhole
  <2>1. CASE pc # "done"
    BY <1>1, <2>1 DEF IInv, ResultStands, AcceptedIsWhole
  <2>2. CASE pc = "done"
    <3>1. /\ result.failure = Failure
          /\ result.protocol = IF Failure = "none" THEN latched ELSE NoBytes
      BY <1>1, <2>2 DEF IInv, ResultStands
    <3>2. latched # NoBytes =>
            /\ worker = "exited" /\ holders["protocol"] = {}
            /\ latched = sent["protocol"]
      BY <1>1 DEF IInv, LatchedIsWhole, EndsAreFinal, Pipe
    <3>3. Failure = "none" => Acceptable
      BY DEF Failure, Complete, Acceptable
    <3>4. Failure = "none" => latched # NoBytes
      BY <1>1, <2>2, <3>3 DEF IInv, UnlatchedHasReason, Over
    <3> QED
      BY <3>1, <3>2, <3>4 DEF AcceptedIsWhole
  <2> QED
    BY <2>1, <2>2
<1> QED
  BY <1>1, Invariance, PTL

\* A reply latched in time is not lost to the deadline while descriptors are
\* closed: no failure is left but a failed close, an interrupt or a spent
\* allowance.
THEOREM Latches == Spec => []LatchStands
<1>1. ASSUME IInv PROVE LatchStands
  <2> SUFFICES ASSUME pc = "done", latched # NoBytes, ~cleanupError,
                      ~interruption, abortReason = "none", allowance >= 0
               PROVE  result.failure = "none"
    BY DEF LatchStands
  <2>1. result.failure = Failure
    BY <1>1 DEF IInv, ResultStands
  <2>2. reaped /\ eof = Pipe /\ worker = "exited"
    BY <1>1 DEF IInv, LatchedIsWhole
  <2>3. ~(allowance < 0)
    BY <1>1, CollectorAssumption DEF IInv, RestOK
  <2> QED
    BY <2>1, <2>2, <2>3 DEF Failure, Complete
<1> QED
  BY <1>1, Invariance, PTL

\* Without faults the cleanup is called uncertain only when the whole allowance
\* is spent (the loop's two ways out, and cleanup_complete).
THEOREM Patient == Spec => []UncertainIsPatient
<1>1. ASSUME IInv PROVE UncertainIsPatient
  <2> SUFFICES ASSUME result.failure = "cleanup_uncertain", faults = 0
               PROVE  cleaning /\ allowance <= 0
    BY DEF UncertainIsPatient
  <2>1. pc = "done"
    BY <1>1 DEF IInv, ResultStands
  <2>2. Failure = "cleanup_uncertain"
    BY <1>1, <2>1 DEF IInv, ResultStands
  <2>3. ~Complete
    <3>1. abortReason # "cleanup_uncertain"
      BY <1>1 DEF IInv, RestOK, AbortReasons
    <3> QED
      BY <2>2, <3>1 DEF Failure
  <2>4. /\ ~cleanupError
        /\ (reaped /\ eof = Pipe) \/ (cleaning /\ allowance <= 0)
    BY <1>1, <2>1 DEF IInv, LeftForReason, Over
  <2>5. allowance < 0 => allowance <= 0
    BY <1>1, CollectorAssumption DEF IInv, RestOK
  <2> QED
    BY <2>3, <2>4, <2>5 DEF Complete
<1> QED
  BY <1>1, Invariance, PTL

-----------------------------------------------------------------------------
(* What no step does, and what the collection promises.                    *)

\* The actions a reason to abort can meet: those that might change it.
LEMMA FirstAbortStep ==
  ASSUME IInv, [Next]_vars, abortReason # "none"
  PROVE  /\ abortReason' = abortReason
         /\ \A p \in Stream : counts'[p] = counts[p]
<1> USE DEF vars, process, clock, Stream, Pipe
<1> counts \in [Pipe -> Nat]
  BY DEF IInv, BytesOK
<1>1. CASE Worker \/ Tick \/ Terminated \/ UNCHANGED vars
  BY <1>1 DEF Worker, Emit, Drop, Fork, End, Tick, Terminated
<1>2. CASE Turn
  BY <1>2 DEF Turn, Proceed, Idle, ObserveExit, Abort, CloseStdin, ObserveFails,
              FirstReason, Dropped
<1>3. CASE Transfer
  BY <1>3 DEF Transfer, ReadEnd, Read, ReadExcess
<1>4. CASE Finish
  BY <1>4 DEF Finish, Latch, Return, AwaitExit, StopWaiting, CloseAll, Escape,
              FirstReason, Dropped, Acceptable
<1> QED
  BY <1>1, <1>2, <1>3, <1>4 DEF Next, Collector

\* The first reason to abort stands, and what was observed of the streams
\* freezes with it (abort, append_stream, remaining_observation).
THEOREM FirstAborts == Spec => FirstAbortStands
<1>1. IInv /\ [Next]_vars =>
        [abortReason # "none" =>
           /\ abortReason' = abortReason
           /\ \A p \in Stream : counts'[p] = counts[p]]_vars
  BY FirstAbortStep
<1> QED
  BY <1>1, Invariance, PTL DEF Spec, FirstAbortStands

\* Once the worker and its descendants are gone and all is read, it stays so.
LEMMA QuietStays ==
  ASSUME IInv, [Next]_vars, Quiet
  PROVE  Quiet'
<1> USE CollectorAssumption DEF vars, process, clock, Quiet, Gone
<1>1. CASE Worker \/ Tick \/ Terminated \/ UNCHANGED vars
  BY <1>1 DEF IInv, RestOK, Worker, Emit, Drop, Fork, End, Tick, Terminated
<1>2. CASE Turn
  BY <1>2 DEF Turn, Proceed, Idle, ObserveExit, Abort, CloseStdin, ObserveFails
<1>3. CASE Transfer
  BY <1>3 DEF IInv, BytesOK, Transfer, ReadEnd, Read, ReadExcess
<1>4. CASE Finish
  BY <1>4 DEF Finish, Latch, Return, AwaitExit, StopWaiting, CloseAll, Escape
<1> QED
  BY <1>1, <1>2, <1>3, <1>4 DEF Next, Collector

\* Only Return gives a result.
LEMMA ResultKept ==
  ASSUME [Next]_vars, ~Return
  PROVE  result' = result
<1> USE DEF vars
<1>1. CASE Worker \/ Tick \/ Terminated \/ UNCHANGED vars
  BY <1>1 DEF Worker, Emit, Drop, Fork, End, Tick, Terminated
<1>2. CASE Turn
  BY <1>2 DEF Turn, Proceed, Idle, ObserveExit, Abort, CloseStdin, ObserveFails
<1>3. CASE Transfer
  BY <1>3 DEF Transfer, ReadEnd, Read, ReadExcess
<1>4. CASE Finish
  BY <1>4 DEF Finish, Latch, AwaitExit, StopWaiting, CloseAll, Escape
<1> QED
  BY <1>1, <1>2, <1>3, <1>4 DEF Next, Collector

\* Once the collector has returned, what it noted of interrupts stands.
LEMMA NoteKept ==
  ASSUME [Next]_vars, pc = "done"
  PROVE  interruption' = interruption
<1> USE DEF vars
<1>1. CASE Worker \/ Tick \/ Terminated \/ UNCHANGED vars
  BY <1>1 DEF Worker, Emit, Drop, Fork, End, Tick, Terminated
<1>2. CASE Turn
  BY <1>2 DEF Turn, Proceed, Idle, ObserveExit, Abort, CloseStdin, ObserveFails
<1>3. CASE Transfer
  BY <1>3 DEF Transfer, ReadEnd, Read, ReadExcess
<1>4. CASE Finish
  BY <1>4 DEF Finish, Latch, Return, AwaitExit, StopWaiting, CloseAll, Escape
<1> QED
  BY <1>1, <1>2, <1>3, <1>4 DEF Next, Collector

\* The collector implements Collection, whatever the worker does: one verdict,
\* never withdrawn, and only uncertain ones unless the worker is quiet.  Return
\* is the abstract Conclude, and the step that makes the worker quiet, whichever
\* that is, is Quieten; all others stutter.
THEOREM Implements == Spec => ImplementsCollection
<1>1. Init => Abstract!Init
  BY DEF Init, Abstract!Init, Quiet, Gone, Conclusion
<1>2. IInv /\ [Next]_vars => [Abstract!Next]_<<Quiet, Conclusion>>
  <2> SUFFICES ASSUME IInv, [Next]_vars
               PROVE  Abstract!Next \/ UNCHANGED <<Quiet, Conclusion>>
    OBVIOUS
  <2>1. CASE Return
    <3>1. /\ pc = "returning" /\ result' = [failure |-> Failure, protocol |->
               IF Failure = "none" THEN latched ELSE NoBytes]
          /\ UNCHANGED <<worker, holders, sent, consumed>>
      BY <2>1 DEF Return, process
    <3>2. Conclusion = "pending"
      BY <3>1 DEF IInv, ResultStands, Conclusion
    <3>3. result'.failure = Failure
      BY <3>1
    <3>4. Failure \in AbortReasons \cup {"none", "cleanup_uncertain", "worker_exit"}
      <4>1. abortReason \in AbortReasons \cup {"none"}
        BY DEF IInv, RestOK
      <4>2. Failure \in {"cleanup_uncertain", "interrupted", abortReason,
                        "worker_exit", "none"}
        BY DEF Failure
      <4> QED
        BY <4>1, <4>2 DEF AbortReasons
    <3>5. Conclusion' \in Abstract!Verdicts
      BY <3>3, <3>4 DEF Conclusion, Abstract!Verdicts, Abstract!Unattested,
                        AbortReasons
    <3>6. Quiet' = Quiet
      BY <3>1 DEF Quiet, Gone
    <3>7. Conclusion' \notin Abstract!Unattested => Quiet
      <4>1. Conclusion' \notin Abstract!Unattested => Complete
        BY <3>3 DEF Conclusion, Failure, Abstract!Unattested
      <4> QED
        BY <4>1 DEF IInv, Complete, GoneForGood, EndsAreFinal, Quiet
    <3> QED
      BY <3>2, <3>5, <3>6, <3>7 DEF Abstract!Next, Abstract!Conclude
  <2>2. CASE ~Return
    <3>1. Conclusion' = Conclusion
      <4>1. result' = result
        BY <2>2, ResultKept
      <4>2. pc # "done" => result.failure = "pending"
        BY DEF IInv, ResultStands
      <4>3. pc = "done" => interruption' = interruption
        BY NoteKept
      <4> QED
        BY <4>1, <4>2, <4>3 DEF Conclusion
    <3>2. Quiet => Quiet'
      BY QuietStays
    <3>3. Quiet \in BOOLEAN /\ Quiet' \in BOOLEAN
      BY DEF Quiet
    <3> QED
      BY <3>1, <3>2, <3>3, Zenon DEF Abstract!Next, Abstract!Quieten
  <2> QED
    BY <2>1, <2>2
<1> QED
  BY <1>1, <1>2, Invariance, PTL DEF Spec, ImplementsCollection, Abstract!Spec
=============================================================================
