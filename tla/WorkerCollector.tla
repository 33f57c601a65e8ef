--------------------------- MODULE WorkerCollector --------------------------
(***************************************************************************)
(* _collect_openai_worker (executor.py): one thread that drains the three  *)
(* output pipes of a provider worker, against a communication deadline,    *)
(* byte ceilings, interrupts and I/O errors, and then decides whether the  *)
(* worker is certainly gone.  The worker writes what it likes, may leave a *)
(* descendant with its pipes, exits or hangs; SIGKILL is only a request    *)
(* here, because the worker may die at any moment anyway.                  *)
(*                                                                         *)
(* Time is kept as two countdowns, to the communication deadline and to    *)
(* the end of the cleanup allowance.  A clock sample and the decisions it  *)
(* feeds are one step.  Bytes are counted, not represented.                *)
(***************************************************************************)
EXTENDS Integers, FiniteSets

CONSTANTS
  Deadline,         \* ticks from launch to the communication deadline
  Allowance,        \* _WORKER_CLEANUP_TIMEOUT_SECONDS, in ticks
  Quantum,          \* _WORKER_IO_QUANTUM_BYTES
  ProtocolLimit,    \* _MAX_WORKER_PROTOCOL_BYTES
  StreamLimit,      \* _MAX_WORKER_STDOUT_BYTES, _MAX_WORKER_STDERR_BYTES
  DiagnosticLimit,  \* _MAX_WORKER_DIAGNOSTIC_BYTES, both streams together
  MaxBytes,         \* bound: bytes written, to all pipes together
  MaxFaults         \* bound: exceptions and interrupts met by the collector

ASSUME CollectorAssumption ==
  /\ Deadline \in Nat \ {0} /\ Allowance \in Nat \ {0} /\ Quantum \in Nat \ {0}
  /\ ProtocolLimit \in Nat /\ StreamLimit \in Nat /\ DiagnosticLimit \in Nat
  /\ MaxBytes \in Nat /\ MaxFaults \in Nat

Stream == {"stdout", "stderr"}
Pipe   == Stream \cup {"protocol"}

NoBytes == -1   \* protocol bytes, when there is no accepted reply

VARIABLES
  worker,       \* "running", "exited" with code 0, or "failed"
  holders,      \* per pipe: processes with its write end
  sent,         \* per pipe: bytes ever written to it
  left,         \* ticks to the communication deadline
  allowance,    \* ticks to the cleanup deadline, -1 when it has passed
  \* the collector's locals
  pc,
  consumed,     \* per pipe: bytes read off it
  counts,       \* bytes held of the protocol, bytes observed of the streams
  eof,          \* pipes seen at end of file
  reaped,
  stdinOpen,
  abortReason,
  cleaning,     \* cleanup_deadline is set
  cleanupError, \* cleanup_error
  interruption, \* an interrupt was noted
  latched,      \* accepted
  result,       \* the _WorkerCollection: failure and protocol
  faults        \* history: faults met so far

process == <<worker, holders, sent>>
clock   == <<left, allowance>>
vars    == <<worker, holders, sent, left, allowance, pc, consumed, counts, eof,
             reaped, stdinOpen, abortReason, cleaning, cleanupError,
             interruption, latched, result, faults>>

Gone == worker # "running"

-----------------------------------------------------------------------------
(* The worker and what it leaves behind.                                   *)

Emit(p) ==
  /\ holders[p] # {}
  /\ sent["protocol"] + sent["stdout"] + sent["stderr"] < MaxBytes
  /\ sent' = [sent EXCEPT ![p] = @ + 1]
  /\ UNCHANGED <<worker, holders, clock, pc, consumed, counts, eof, reaped,
                 stdinOpen, abortReason, cleaning, cleanupError, interruption,
                 latched, result, faults>>

\* A descendant inherits some of the worker's pipes.
Fork(ps) ==
  /\ worker = "running" /\ \A p \in Pipe : "descendant" \notin holders[p]
  /\ \A p \in ps : "worker" \in holders[p]
  /\ holders' = [p \in Pipe |-> IF p \in ps THEN holders[p] \cup {"descendant"}
                                ELSE holders[p]]
  /\ UNCHANGED <<worker, sent, clock, pc, consumed, counts, eof, reaped,
                 stdinOpen, abortReason, cleaning, cleanupError, interruption,
                 latched, result, faults>>

\* Either closes its pipes, the worker perhaps long before it exits.
Drop(h) ==
  /\ \E p \in Pipe : h \in holders[p]
  /\ holders' = [p \in Pipe |-> holders[p] \ {h}]
  /\ UNCHANGED <<worker, sent, clock, pc, consumed, counts, eof, reaped,
                 stdinOpen, abortReason, cleaning, cleanupError, interruption,
                 latched, result, faults>>

\* Exit, crash or kill: the kernel closes the worker's descriptors.
End(how) ==
  /\ worker = "running"
  /\ worker' = how
  /\ holders' = [p \in Pipe |-> holders[p] \ {"worker"}]
  /\ UNCHANGED <<sent, clock, pc, consumed, counts, eof, reaped, stdinOpen,
                 abortReason, cleaning, cleanupError, interruption, latched,
                 result, faults>>

Tick ==
  /\ pc # "done"
  /\ left' = IF left > 0 THEN left - 1 ELSE 0
  /\ allowance' = IF cleaning /\ allowance >= 0 THEN allowance - 1
                  ELSE allowance
  /\ left > 0 \/ (cleaning /\ allowance >= 0)
  /\ UNCHANGED <<process, pc, consumed, counts, eof, reaped, stdinOpen,
                 abortReason, cleaning, cleanupError, interruption, latched,
                 result, faults>>

-----------------------------------------------------------------------------
(* The collector.                                                          *)

\* One fault of an operation: an error or an interrupt while an endpoint is
\* closed, or an interrupt of process.kill, whose errors are ignored.
CleanupFaults == {"none", "close_error", "close_interrupt", "kill_interrupt"}

Meets(f) == /\ f # "none" => faults < MaxFaults
            /\ faults' = IF f = "none" THEN faults ELSE faults + 1

\* start_cleanup and close_endpoint("stdin"), with what they may run into.
CleanUp(f, by) ==
  /\ Meets(f)
  /\ cleaning' = TRUE /\ stdinOpen' = FALSE
  /\ f \in {"close_error", "close_interrupt"} => stdinOpen
  /\ f = "kill_interrupt" => by = "abort" /\ ~reaped
  /\ cleanupError' = (cleanupError \/ f \in {"close_error", "close_interrupt"})
  /\ interruption' = (interruption \/ f \in {"close_interrupt", "kill_interrupt"})

\* Mutant: the latest reason stands.
LastReason(reason) == reason

\* abort: the first reason stands, and the protocol read so far is dropped.
FirstReason(reason) == IF abortReason = "none" THEN reason ELSE abortReason
Dropped == [counts EXCEPT !["protocol"] = 0]

\* Mutant: once the worker is reaped the pipes are drained without a limit.
NextTurnPatient == IF reaped' /\ eof = Pipe THEN "latch"
                   ELSE IF cleaning' /\ allowance <= 0 /\ ~reaped' THEN "latch"
                   ELSE "io"

\* Mutant: the communication deadline ends the cleanup as well.
NextTurnByDeadline == IF reaped' /\ eof = Pipe THEN "latch"
                      ELSE IF cleaning' /\ left = 0 THEN "latch" ELSE "io"

\* What follows a turn of arbitrate: leave the loop when everything is over or
\* the allowance has run out, else one I/O operation.
NextTurn == IF reaped' /\ eof = Pipe THEN "latch"
            ELSE IF cleaning' /\ allowance <= 0 THEN "latch" ELSE "io"

\* arbitrate, with nothing to report or only cleanup going on.
Proceed ==
  /\ pc = "arbitrate"
  /\ reaped \/ ~Gone
  /\ abortReason # "none" \/ left > 0
  /\ ~cleanupError \/ abortReason # "none"
  /\ UNCHANGED <<process, clock, consumed, counts, eof, reaped, stdinOpen,
                 abortReason, cleaning, cleanupError, interruption, latched,
                 result, faults>>
  /\ pc' = NextTurn

\* observe_exit reaps the worker; the deadline or a failed close still aborts.
ObserveExit(f) ==
  /\ pc = "arbitrate" /\ ~reaped /\ Gone
  /\ reaped' = TRUE
  /\ CleanUp(f, "exit")
  /\ LET reason == IF left = 0 THEN "deadline"
                   ELSE IF cleanupError' THEN "io_error" ELSE "none"
     IN  IF reason = "none" THEN UNCHANGED <<abortReason, counts>>
         ELSE abortReason' = FirstReason(reason) /\ counts' = Dropped
  /\ pc' = NextTurn
  /\ UNCHANGED <<process, clock, consumed, eof, latched, result>>

\* process.wait itself fails or is interrupted.
ObserveFails(interrupt, f) ==
  /\ pc = "arbitrate" /\ ~reaped
  /\ faults + (IF f = "none" THEN 1 ELSE 2) <= MaxFaults
  /\ faults' = faults + (IF f = "none" THEN 1 ELSE 2)
  /\ f \in {"close_error", "close_interrupt"} => stdinOpen
  /\ cleaning' = TRUE /\ stdinOpen' = FALSE
  /\ cleanupError' = (cleanupError \/ f \in {"close_error", "close_interrupt"})
  /\ interruption' = (interruption \/ interrupt
                        \/ f \in {"close_interrupt", "kill_interrupt"})
  /\ abortReason' = FirstReason("process_error")
  /\ counts' = Dropped
  /\ pc' = IF cleaning /\ allowance <= 0 THEN "latch" ELSE "io"
  /\ UNCHANGED <<process, clock, consumed, eof, reaped, latched, result>>

\* The deadline passes, or an endpoint could not be closed.
Abort(f) ==
  /\ pc = "arbitrate" /\ abortReason = "none"
  /\ reaped \/ ~Gone
  /\ left = 0 \/ cleanupError
  /\ CleanUp(f, "abort")
  /\ abortReason' = IF left = 0 THEN "deadline" ELSE "io_error"
  /\ counts' = Dropped
  /\ UNCHANGED reaped
  /\ pc' = NextTurn
  /\ UNCHANGED <<process, clock, consumed, eof, latched, result>>

\* select returns nothing of use, or part of the request is written.
Idle ==
  /\ pc = "io"
  /\ pc' = "arbitrate"
  /\ UNCHANGED <<process, clock, consumed, counts, eof, reaped, stdinOpen,
                 abortReason, cleaning, cleanupError, interruption, latched,
                 result, faults>>

\* The request is written, or the worker no longer reads it.
CloseStdin(f) ==
  /\ pc = "io" /\ stdinOpen /\ f # "kill_interrupt"
  /\ Meets(f)
  /\ stdinOpen' = FALSE
  /\ cleanupError' = (cleanupError \/ f # "none")
  /\ interruption' = (interruption \/ f = "close_interrupt")
  /\ pc' = "arbitrate"
  /\ UNCHANGED <<process, clock, consumed, counts, eof, reaped, abortReason,
                 cleaning, latched, result>>

Observed == counts["stdout"] + counts["stderr"]
Least(a, b) == IF a < b THEN a ELSE b

\* Bytes one read may return: one more than may be kept shows the excess.
ReadSize(p) ==
  IF abortReason # "none" THEN Quantum
  ELSE Least(Quantum, 1 + IF p = "protocol" THEN ProtocolLimit - counts[p]
                          ELSE Least(StreamLimit - counts[p],
                                     DiagnosticLimit - Observed))

\* Mutant: the byte that shows the excess is let through.
ExceedsOffByOne(p, k) ==
  IF p = "protocol"
  THEN IF counts[p] + k > ProtocolLimit + 1 THEN "protocol_limit" ELSE "none"
  ELSE IF counts[p] + k > StreamLimit THEN "stream_limit"
  ELSE IF Observed + k > DiagnosticLimit THEN "diagnostic_limit" ELSE "none"

Exceeds(p, k) ==
  IF p = "protocol"
  THEN IF counts[p] + k > ProtocolLimit THEN "protocol_limit" ELSE "none"
  ELSE IF counts[p] + k > StreamLimit THEN "stream_limit"
  ELSE IF Observed + k > DiagnosticLimit THEN "diagnostic_limit" ELSE "none"

\* os.read of k bytes: kept within the ceilings, discarded after an abort.
Read(p, k) ==
  /\ pc = "io" /\ p \notin eof
  /\ k <= ReadSize(p) /\ k <= sent[p] - consumed[p]
  /\ abortReason = "none" => Exceeds(p, k) = "none"
  /\ consumed' = [consumed EXCEPT ![p] = @ + k]
  /\ counts' = IF abortReason = "none" THEN [counts EXCEPT ![p] = @ + k]
               ELSE counts
  /\ pc' = "arbitrate"
  /\ UNCHANGED <<process, clock, eof, reaped, stdinOpen, abortReason, cleaning,
                 cleanupError, interruption, latched, result, faults>>

\* os.read beyond a ceiling: the stream's excess is counted, the protocol's is
\* not, and the collection is aborted.
ReadExcess(p, k, f) ==
  /\ pc = "io" /\ p \notin eof /\ abortReason = "none"
  /\ k <= ReadSize(p) /\ k <= sent[p] - consumed[p]
  /\ Exceeds(p, k) # "none"
  /\ consumed' = [consumed EXCEPT ![p] = @ + k]
  /\ counts' = IF p = "protocol" THEN Dropped
               ELSE [Dropped EXCEPT ![p] = @ + k]
  /\ abortReason' = Exceeds(p, k)
  /\ CleanUp(f, "abort")
  /\ pc' = "arbitrate"
  /\ UNCHANGED <<process, clock, eof, reaped, latched, result>>

\* Mutant: a pipe with nothing to read now is taken to be at its end.
ReadEndWhenEmpty(p) ==
  /\ pc = "io" /\ p \notin eof
  /\ consumed[p] = sent[p]
  /\ eof' = eof \cup {p}
  /\ pc' = "arbitrate"
  /\ UNCHANGED <<process, clock, consumed, counts, reaped, stdinOpen,
                 abortReason, cleaning, cleanupError, interruption, latched,
                 result, faults>>

\* os.read returns nothing: every write end is closed and all was read.
ReadEnd(p) ==
  /\ pc = "io" /\ p \notin eof
  /\ holders[p] = {} /\ consumed[p] = sent[p]
  /\ eof' = eof \cup {p}
  /\ pc' = "arbitrate"
  /\ UNCHANGED <<process, clock, consumed, counts, reaped, stdinOpen,
                 abortReason, cleaning, cleanupError, interruption, latched,
                 result, faults>>

\* An exception or interrupt escapes the loop: abort, then one bounded wait.
Escape(interrupt, f) ==
  /\ pc \in {"arbitrate", "io", "latch"}
  /\ faults + (IF f = "none" THEN 1 ELSE 2) <= MaxFaults
  /\ faults' = faults + (IF f = "none" THEN 1 ELSE 2)
  /\ f \in {"close_error", "close_interrupt"} => stdinOpen
  /\ f = "kill_interrupt" => ~reaped
  /\ cleaning' = TRUE /\ stdinOpen' = FALSE
  /\ cleanupError' = (cleanupError \/ f \in {"close_error", "close_interrupt"})
  /\ interruption' = (interruption \/ interrupt
                        \/ f \in {"close_interrupt", "kill_interrupt"})
  /\ abortReason' = FirstReason(IF interruption \/ interrupt THEN "interrupted"
                                ELSE "io_error")
  /\ counts' = Dropped
  /\ pc' = IF reaped THEN "closing" ELSE "waiting"
  /\ UNCHANGED <<process, clock, consumed, eof, reaped, latched, result>>

\* The wait sees the exit, runs out of the allowance, or is broken off.
AwaitExit ==
  /\ pc = "waiting" /\ Gone
  /\ reaped' = TRUE
  /\ pc' = "closing"
  /\ UNCHANGED <<process, clock, consumed, counts, eof, stdinOpen, abortReason,
                 cleaning, cleanupError, interruption, latched, result, faults>>

StopWaiting ==
  /\ pc = "waiting"
  /\ \/ allowance <= 0 /\ ~Gone /\ UNCHANGED <<interruption, faults>>
     \/ faults < MaxFaults /\ faults' = faults + 1
        /\ interruption' \in {interruption, TRUE}
  /\ pc' = "closing"
  /\ UNCHANGED <<process, clock, consumed, counts, eof, reaped, stdinOpen,
                 abortReason, cleaning, cleanupError, latched, result>>

\* Everything in order: the protocol is latched, if the deadline allows it now.
Acceptable ==
  /\ reaped /\ eof = Pipe /\ worker = "exited"
  /\ abortReason = "none" /\ ~cleanupError /\ ~interruption

Latch ==
  /\ pc = "latch"
  /\ latched' = IF Acceptable /\ left > 0 THEN counts["protocol"] ELSE NoBytes
  /\ abortReason' = IF Acceptable /\ left = 0 THEN "deadline" ELSE abortReason
  /\ counts' = Dropped
  /\ pc' = "closing"
  /\ UNCHANGED <<process, clock, consumed, eof, reaped, stdinOpen, cleaning,
                 cleanupError, interruption, result, faults>>

\* The remaining endpoints and the selector are closed.
CloseAll(f) ==
  /\ pc = "closing" /\ f # "kill_interrupt"
  /\ Meets(f)
  /\ stdinOpen' = FALSE
  /\ cleanupError' = (cleanupError \/ f # "none")
  /\ interruption' = (interruption \/ f = "close_interrupt")
  /\ pc' = "returning"
  /\ UNCHANGED <<process, clock, consumed, counts, eof, reaped, abortReason,
                 cleaning, latched, result>>

\* Mutant: a reaped worker is enough, whoever holds its pipes.
CompleteByReaping == reaped /\ ~cleanupError /\ ~(cleaning /\ allowance < 0)

\* cleanup_complete, the fact _run_openai_worker marks the worker reaped by.
Complete == reaped /\ eof = Pipe /\ ~cleanupError /\ ~(cleaning /\ allowance < 0)

\* Mutant: the deadline is consulted again when the result is built.
FailureByDeadline ==
  IF ~Complete THEN "cleanup_uncertain"
  ELSE IF interruption THEN "interrupted"
  ELSE IF abortReason # "none" THEN abortReason
  ELSE IF left = 0 THEN "deadline"
  ELSE IF worker # "exited" THEN "worker_exit"
  ELSE "none"

\* The result's failure, in order of precedence.
Failure ==
  IF ~Complete THEN "cleanup_uncertain"
  ELSE IF interruption THEN "interrupted"
  ELSE IF abortReason # "none" THEN abortReason
  ELSE IF worker # "exited" THEN "worker_exit"
  ELSE "none"

Return ==
  /\ pc = "returning"
  /\ result' = [failure |-> Failure,
                protocol |-> IF Failure = "none" THEN latched ELSE NoBytes]
  /\ pc' = "done"
  /\ UNCHANGED <<process, clock, consumed, counts, eof, reaped, stdinOpen,
                 abortReason, cleaning, cleanupError, interruption, latched,
                 faults>>

Terminated == pc = "done" /\ UNCHANGED vars

-----------------------------------------------------------------------------
Init ==
  /\ worker = "running"
  /\ holders = [p \in Pipe |-> {"worker"}]
  /\ sent = [p \in Pipe |-> 0]
  /\ left = Deadline /\ allowance = Allowance
  /\ pc = "arbitrate"
  /\ consumed = [p \in Pipe |-> 0] /\ counts = [p \in Pipe |-> 0]
  /\ eof = {} /\ reaped = FALSE /\ stdinOpen = TRUE
  /\ abortReason = "none" /\ cleaning = FALSE /\ cleanupError = FALSE
  /\ interruption = FALSE /\ latched = NoBytes
  /\ result = [failure |-> "pending", protocol |-> NoBytes] /\ faults = 0

Worker == \/ \E p \in Pipe : Emit(p)
          \/ Drop("worker") \/ Drop("descendant")
          \/ \E ps \in SUBSET Pipe : Fork(ps)
          \/ \E how \in {"exited", "failed"} : End(how)

Turn == \/ Proceed \/ Idle
        \/ \E f \in CleanupFaults :
             ObserveExit(f) \/ Abort(f) \/ CloseStdin(f)
        \/ \E f \in CleanupFaults, i \in BOOLEAN : ObserveFails(i, f)

Transfer == \E p \in Pipe :
  \/ ReadEnd(p)
  \/ \E k \in 1..Quantum :
       Read(p, k) \/ \E f \in CleanupFaults : ReadExcess(p, k, f)

Finish == \/ Latch \/ Return \/ AwaitExit \/ StopWaiting
          \/ \E f \in CleanupFaults : CloseAll(f)
          \/ \E f \in CleanupFaults, i \in BOOLEAN : Escape(i, f)

Collector == Turn \/ Transfer \/ Finish

Next == Worker \/ Tick \/ Collector \/ Terminated

Spec == Init /\ [][Next]_vars

\* The collector runs and the clock advances; nothing is asked of the worker.
FairSpec == Spec /\ WF_vars(Collector) /\ WF_vars(Tick)

-----------------------------------------------------------------------------
(* Properties.                                                             *)

AbortReasons == {"deadline", "io_error", "process_error", "interrupted",
                 "protocol_limit", "stream_limit", "diagnostic_limit"}

\* Types and ranges.  The collector never holds more of a pipe than its ceiling
\* and the one byte that shows the excess, whatever the worker writes.
TypeOK ==
  /\ worker \in {"running", "exited", "failed"}
  /\ holders \in [Pipe -> SUBSET {"worker", "descendant"}]
  /\ sent \in [Pipe -> 0..MaxBytes]
  /\ left \in 0..Deadline /\ allowance \in -1..Allowance
  /\ pc \in {"arbitrate", "io", "latch", "waiting", "closing", "returning",
             "done"}
  /\ consumed \in [Pipe -> Nat] /\ counts \in [Pipe -> Nat]
  /\ \A p \in Pipe : counts[p] <= consumed[p] /\ consumed[p] <= sent[p]
  /\ counts["protocol"] <= ProtocolLimit
  /\ \A p \in Stream : counts[p] <= StreamLimit + 1
  /\ Observed <= DiagnosticLimit + 1
  /\ eof \subseteq Pipe /\ reaped \in BOOLEAN /\ stdinOpen \in BOOLEAN
  /\ abortReason \in AbortReasons \cup {"none"}
  /\ cleaning \in BOOLEAN /\ cleanupError \in BOOLEAN /\ interruption \in BOOLEAN
  /\ latched \in 0..ProtocolLimit \cup {NoBytes}
  /\ result \in [failure : AbortReasons \cup
                   {"pending", "none", "cleanup_uncertain", "worker_exit"},
                 protocol : 0..ProtocolLimit \cup {NoBytes}]
  /\ faults \in 0..MaxFaults

\* A reply is handed on only whole: every byte that was or ever will be written
\* to the protocol pipe, from a worker that exited with code 0; and a collection
\* without failure always has one.
AcceptedIsWhole ==
  /\ result.protocol # NoBytes =>
       /\ worker = "exited" /\ holders["protocol"] = {}
       /\ result.protocol = sent["protocol"]
  /\ result.failure = "none" => result.protocol # NoBytes

\* The first abort reason stands and the observed counters freeze with it.
FirstAbortStands == [][abortReason # "none" =>
  /\ abortReason' = abortReason
  /\ \A p \in Stream : counts'[p] = counts[p]]_vars

\* A reply latched in time is not lost to the deadline while descriptors are
\* closed; only a failed close, an interrupt or the allowance can veto it.
LatchStands ==
  pc = "done" /\ latched # NoBytes /\ ~cleanupError /\ ~interruption
    /\ abortReason = "none" /\ allowance >= 0 => result.failure = "none"

\* Without faults the collector calls the cleanup uncertain only when the
\* whole allowance is spent.
UncertainIsPatient ==
  result.failure = "cleanup_uncertain" /\ faults = 0 => cleaning /\ allowance <= 0

\* The collector always returns, whatever the worker and its descendants do.
CollectorReturns == <>(pc = "done")

\* The verdict the wrapper draws from the result: a noted interrupt is raised
\* before the cleanup is looked at, without having been attested.
Conclusion ==
  CASE result.failure = "pending"           -> "pending"
    [] result.failure = "none"              -> "returned"
    [] result.failure = "deadline"          -> "timeout"
    [] result.failure = "interrupted"       -> "interrupted"
    [] result.failure = "cleanup_uncertain" ->
         IF interruption THEN "interrupted_uncertain" ELSE "uncertain"
    [] OTHER                                -> "infrastructure"

\* Nothing the worker started can write any more, and all it wrote was read.
Quiet == Gone /\ \A p \in Pipe : holders[p] = {} /\ consumed[p] = sent[p]

\* The collector implements Collection: one verdict, never withdrawn, and none
\* but the uncertain ones unless the worker is quiet, interrupts and all: the
\* fact that _WorkerReaping.mark_reaped attests.
Abstract == INSTANCE Collection WITH quiet <- Quiet, verdict <- Conclusion
ImplementsCollection == Abstract!Spec
=============================================================================
