-------------------------- MODULE AttemptLifecycle --------------------------
(***************************************************************************)
(* Local evidence of one provider attempt per stage: the append-only       *)
(* journal of attempt_lifecycle.py, the parent that reserves, permits and  *)
(* closes it (runner.py, executor.py), the worker process that appends to  *)
(* it around the single SDK call (worker.py, openai_adapter.py), and the   *)
(* storage under both.  A write is visible at once and durable only after  *)
(* an fsync; a write may be torn, an fsync may fail, each process may die  *)
(* at any point, a worker survives its parent, and a power loss keeps of   *)
(* the unsynchronised suffix whatever it likes.                            *)
(*                                                                         *)
(* A digest chain is abstracted to the sequence it authenticates: the head *)
(* digest of a journal is the journal's sequence of frames.                *)
(***************************************************************************)
EXTENDS Integers, Sequences

CONSTANT NStages   \* stages of the condition, executed in order

ASSUME NStagesAssumption == NStages \in Nat \ {0}

Stage == 1..NStages

VARIABLES
  frames,    \* per stage: the complete frames a reader sees in journal.jsonl
  torn,      \* per stage: the journal ends in an incomplete line
  synced,    \* per stage: how many frames an fsync has made durable
  closure,   \* per stage: closed.json
  pc,        \* where the parent is in the attempt of stage st
  st,        \* stage the parent executes
  granted,   \* AttemptJournal.permission_granted
  failed,    \* AttemptJournal.persistence_failed
  reaping,   \* _WorkerReaping.status
  reason,    \* the closure reason the parent is about to publish
  wpc,       \* where the worker is
  wstage,    \* stage whose journal descriptor the worker holds
  reply,     \* what the worker put on the protocol pipe
  calls,     \* per stage: SDK calls issued (external, never undone)
  accepted,  \* per stage: the outcome the runner accepted
  ioFault    \* history: a storage operation of the parent failed or was cut

disk   == <<frames, torn, synced, closure>>
flags  == <<granted, failed, reaping>>
worker == <<wpc, wstage, reply>>
vars   == <<frames, torn, synced, closure, pc, st, granted, failed, reaping,
            reason, wpc, wstage, reply, calls, accepted, ioFault>>

-----------------------------------------------------------------------------
(* The journal grammar.                                                    *)

Outcomes == {"outcome_success", "outcome_error"}

Events == {"attempt_prepared", "dispatch_permitted", "sdk_call_boundary",
           "sdk_return_observed", "sdk_exception_observed"} \cup Outcomes

\* _NEXT, with outcome_observed split by the kind of the outcome it carries:
\* a success cannot follow sdk_exception_observed.
Follows(e) ==
  CASE e = "attempt_prepared"       -> {"dispatch_permitted"}
    [] e = "dispatch_permitted"     -> {"sdk_call_boundary"}
    [] e = "sdk_call_boundary"      -> {"sdk_return_observed",
                                        "sdk_exception_observed"}
    [] e = "sdk_return_observed"    -> Outcomes
    [] e = "sdk_exception_observed" -> {"outcome_error"}
    [] OTHER                        -> {}

\* What _decode accepts of the complete frames of a journal.
Legal(fs) ==
  /\ Len(fs) \in 1..5
  /\ fs[1] = "attempt_prepared"
  /\ \A i \in 1..Len(fs) - 1 : fs[i + 1] \in Follows(fs[i])

Decodable(s) == ~torn[s] /\ Legal(frames[s])

LastFrame(s) == frames[s][Len(frames[s])]

Reasons == {"not_started", "returned", "timeout", "infrastructure",
            "interrupted"}

NoClosure == [state |-> "absent", durable |-> FALSE,
              reason |-> "none", head |-> <<>>]

Closed(s) == closure[s].state = "whole"

\* AttemptJournal.inspect of a reconstructed journal (a reader has no memory
\* of failed syncs): the journal decodes and the closure, if any, binds it.
Readable(s) ==
  /\ Decodable(s)
  /\ closure[s].state # "torn"
  /\ Closed(s) => /\ closure[s].head = frames[s]
                  /\ (closure[s].reason = "not_started") <=> (Len(frames[s]) = 1)

\* Mutant: a journal without an SDK boundary is taken for one never dispatched.
RetrySafetyByFrames(s) ==
  CASE ~Readable(s)         -> "rejected"
    [] Readable(s) /\ Len(frames[s]) < 3 -> "safe_not_dispatched"
    [] Readable(s) /\ Len(frames[s]) >= 3 /\ Closed(s)
         /\ LastFrame(s) = "outcome_success" -> "unsafe_response_observed"
    [] OTHER                -> "indeterminate"

\* The classification inspect returns.
RetrySafety(s) ==
  CASE ~Readable(s) -> "rejected"
    [] Readable(s) /\ Closed(s) /\ closure[s].reason = "not_started"
         -> "safe_not_dispatched"
    [] Readable(s) /\ Closed(s) /\ LastFrame(s) = "outcome_success"
         -> "unsafe_response_observed"
    [] OTHER -> "indeterminate"

-----------------------------------------------------------------------------
(* The parent: reservation.                                                *)

\* AttemptJournal.create: every existing journal must be closed, the role's
\* namespace must be new; the prepared frame is written ...
CreateWrite ==
  /\ pc = "ready"
  /\ \A s \in 1..st - 1 : Readable(s) /\ Closed(s)
  /\ frames[st] = <<>> /\ ~torn[st]
  /\ frames' = [frames EXCEPT ![st] = <<"attempt_prepared">>]
  /\ pc' = "creating"
  /\ UNCHANGED <<torn, synced, closure, st, flags, reason, worker, calls,
                 accepted, ioFault>>

\* ... or fails before the file exists, or is torn, or its fsync fails, or an
\* interrupt follows it before _execute_stage holds the journal object: what
\* was made of the namespace remains.
CreateFails ==
  /\ \/ pc = "ready" /\ torn' \in {torn, [torn EXCEPT ![st] = TRUE]}
     \/ pc \in {"creating", "prepared"} /\ UNCHANGED torn
  /\ pc' = "stopped"
  /\ ioFault' = TRUE
  /\ UNCHANGED <<frames, synced, closure, st, flags, reason, worker, calls,
                 accepted>>

\* ... and made durable with its directories.
CreateSync ==
  /\ pc = "creating"
  /\ synced' = [synced EXCEPT ![st] = Len(frames[st])]
  /\ pc' = "prepared"
  /\ granted' = FALSE /\ failed' = FALSE /\ reaping' = "unstarted"
  /\ UNCHANGED <<frames, torn, closure, st, reason, worker, calls, accepted,
                 ioFault>>

\* Mutant: _execute_stage has no finally that closes a prepared attempt.
StopWithoutClosing ==
  /\ pc = "prepared"
  /\ pc' = "stopped"
  /\ UNCHANGED <<disk, st, flags, reason, worker, calls, accepted, ioFault>>

\* The stage ends before launch (deadline, input budget, binding mismatch,
\* interrupt): the record, or _execute_stage's finally, closes not_started.
StopBeforeLaunch ==
  /\ pc = "prepared"
  /\ ~failed /\ ~granted /\ ~Closed(st)
  /\ Len(frames[st]) = 1
  /\ reason' = "not_started"
  /\ pc' = "closing"
  /\ UNCHANGED <<disk, st, flags, worker, calls, accepted, ioFault>>

(* The parent: permission.                                                 *)

PermitWrite ==
  /\ pc = "prepared"
  /\ ~failed /\ closure[st].state = "absent"
  /\ Decodable(st) /\ "dispatch_permitted" \in Follows(LastFrame(st))
  /\ frames' = [frames EXCEPT ![st] = Append(@, "dispatch_permitted")]
  /\ pc' = "permitting"
  /\ UNCHANGED <<torn, synced, closure, st, flags, reason, worker, calls,
                 accepted, ioFault>>

\* Any exception of the append, before, within or after the write.
PermitFails ==
  /\ \/ pc = "prepared" /\ torn' \in {torn, [torn EXCEPT ![st] = TRUE]}
     \/ pc = "permitting" /\ UNCHANGED torn
  /\ failed' = TRUE
  /\ pc' = "stopped"
  /\ ioFault' = TRUE
  /\ UNCHANGED <<frames, synced, closure, st, granted, reaping, reason, worker,
                 calls, accepted>>

\* ... and made durable: the permission is granted.
PermitSync ==
  /\ pc = "permitting"
  /\ synced' = [synced EXCEPT ![st] = Len(frames[st])]
  /\ granted' = TRUE
  /\ pc' = "permitted"
  /\ UNCHANGED <<frames, torn, closure, st, failed, reaping, reason, worker,
                 calls, accepted, ioFault>>

-----------------------------------------------------------------------------
(* The parent: launch and collection.                                      *)

\* An exception between permit and _spawn_worker leaves the attempt open.
HandoffFails ==
  /\ pc = "permitted"
  /\ pc' = "stopped"
  /\ UNCHANGED <<disk, st, flags, reason, worker, calls, accepted, ioFault>>

\* An exception inside _spawn_worker before mark_uncertain: no worker was
\* started, so the parent may attest quiescence and close.
SpawnRefused(r) ==
  /\ pc = "permitted" /\ reaping = "unstarted"
  /\ reason' = r
  /\ pc' = "closing"
  /\ UNCHANGED <<disk, st, flags, worker, calls, accepted, ioFault>>

\* mark_uncertain, then Popen hands the journal descriptor to the worker.
Launch ==
  /\ pc = "permitted"
  /\ reaping' = "uncertain"
  /\ wpc' = "validating" /\ wstage' = st /\ reply' = "none"
  /\ pc' = "collecting"
  /\ UNCHANGED <<disk, st, granted, failed, reason, calls, accepted, ioFault>>

\* Popen raises after mark_uncertain: nothing is attested, nothing closed.
LaunchFails ==
  /\ pc = "permitted"
  /\ reaping' = "uncertain"
  /\ pc' = "stopped"
  /\ UNCHANGED <<disk, st, granted, failed, reason, worker, calls, accepted,
                 ioFault>>

WorkerGone == wpc \in {"exited", "died"}

\* The collector saw the exit and every EOF before the deadline.
Collect ==
  /\ pc = "collecting" /\ WorkerGone
  /\ reaping' = "reaped"
  /\ reason' = IF wpc = "exited" THEN "returned" ELSE "infrastructure"
  /\ pc' = "closing"
  /\ UNCHANGED <<disk, st, granted, failed, worker, calls, accepted, ioFault>>

\* Deadline, byte limit, I/O error or interrupt: kill, then keep draining.
Abort(r) ==
  /\ pc = "collecting"
  /\ reason' = r
  /\ pc' = "draining"
  /\ UNCHANGED <<disk, st, flags, worker, calls, accepted, ioFault>>

Drain ==
  /\ pc = "draining" /\ WorkerGone
  /\ reaping' = "reaped"
  /\ pc' = "closing"
  /\ UNCHANGED <<disk, st, granted, failed, reason, worker, calls, accepted,
                 ioFault>>

\* Mutant: running out of the cleanup allowance counts as reaping.
GiveUpAttesting ==
  /\ pc = "draining"
  /\ pc' = "closing"
  /\ reaping' = "reaped"
  /\ UNCHANGED <<disk, st, granted, failed, reason, worker, calls, accepted,
                 ioFault>>

\* Mutant: after the kill the collector drains without an allowance.
GiveUpOnlyOnPipes ==
  /\ pc = "collecting" /\ WorkerGone
  /\ pc' = "stopped"
  /\ UNCHANGED <<disk, st, flags, reason, worker, calls, accepted, ioFault>>

\* The cleanup allowance ran out (cleanup_uncertain): the worker may live on,
\* or a descendant holds a pipe open; _WorkerExitUncertain, nothing closed.
GiveUp ==
  /\ pc = "draining" \/ (pc = "collecting" /\ WorkerGone)
  /\ pc' = "stopped"
  /\ UNCHANGED <<disk, st, flags, reason, worker, calls, accepted, ioFault>>

-----------------------------------------------------------------------------
(* The parent: AttemptJournal.close, always under may_attest.              *)

MayAttest == reaping \in {"unstarted", "reaped"}

\* Mutant: close trusts the frames it read instead of syncing them again.
CloseWithoutResync ==
  /\ pc = "closing" /\ MayAttest /\ ~failed
  /\ Decodable(st)
  /\ (reason = "not_started") <=> (Len(frames[st]) = 1)
  /\ pc' = "publishing"
  /\ UNCHANGED <<disk, st, flags, reason, worker, calls, accepted, ioFault>>

\* The journal decodes, the reason agrees with it, and it is synced again: a
\* worker may have written a whole frame and failed its own fsync.
CloseSync ==
  /\ pc = "closing" /\ MayAttest /\ ~failed
  /\ Decodable(st)
  /\ (reason = "not_started") <=> (Len(frames[st]) = 1)
  /\ synced' = [synced EXCEPT ![st] = Len(frames[st])]
  /\ pc' = "publishing"
  /\ UNCHANGED <<frames, torn, closure, st, flags, reason, worker, calls,
                 accepted, ioFault>>

\* A torn journal cannot be closed (IntegrityViolation, retried and raised).
CloseRefused ==
  /\ pc = "closing" /\ ~Decodable(st)
  /\ pc' = "stopped"
  /\ UNCHANGED <<disk, st, flags, reason, worker, calls, accepted, ioFault>>

\* closed.json is created exclusively and written ...
PublishWrite ==
  /\ pc = "publishing" /\ closure[st].state = "absent"
  /\ closure' = [closure EXCEPT ![st] =
                   [state |-> "whole", durable |-> FALSE,
                    reason |-> reason, head |-> frames[st]]]
  /\ pc' = "syncing_closure"
  /\ UNCHANGED <<frames, torn, synced, st, flags, reason, worker, calls,
                 accepted, ioFault>>

\* ... and synced with its directory: the attempt is closed.
PublishSync ==
  /\ pc = "syncing_closure"
  /\ closure' = [closure EXCEPT ![st] = [@ EXCEPT !.durable = TRUE]]
  /\ pc' = "closed"
  /\ UNCHANGED <<frames, torn, synced, st, flags, reason, worker, calls,
                 accepted, ioFault>>

\* closed.json cannot even be opened: nothing is marked failed, and after a
\* "returned" closure the OSError handler closes again as "infrastructure".
OpenClosureFails ==
  /\ pc \in {"closing", "publishing"}
  /\ IF reason = "returned"
     THEN reason' = "infrastructure" /\ pc' = "closing"
     ELSE pc' = "stopped" /\ UNCHANGED reason
  /\ ioFault' = TRUE
  /\ UNCHANGED <<disk, st, flags, worker, calls, accepted>>

\* An interrupt of the first, "returned" closure while closed.json does not
\* exist and nothing is marked failed: the handler closes as "interrupted".
\* Of any other closure no handler is left: it ends as OpenClosureFails does.
CloseInterrupted ==
  /\ pc \in {"closing", "publishing"} /\ reason = "returned"
  /\ reason' = "interrupted"
  /\ pc' = "closing"
  /\ UNCHANGED <<disk, st, flags, worker, calls, accepted, ioFault>>

\* A failed fsync of the journal, or a failed or interrupted write or fsync of
\* the closure: persistence_failed, and no handler closes a second time.
CloseFails ==
  /\ \/ pc \in {"closing", "syncing_closure"} /\ UNCHANGED closure
     \/ pc = "publishing"
        /\ closure' = [closure EXCEPT ![st] = [@ EXCEPT !.state = "torn"]]
  /\ failed' = TRUE
  /\ pc' = "stopped"
  /\ ioFault' = TRUE
  /\ UNCHANGED <<frames, torn, synced, st, granted, reaping, reason, worker,
                 calls, accepted>>

\* Mutant: an outcome on the protocol pipe is accepted without its evidence.
AcceptUnmatched ==
  /\ pc \in {"closing", "closed"} /\ reply \in Outcomes
  /\ accepted' = [accepted EXCEPT ![st] = reply]
  /\ pc' = "settled"
  /\ UNCHANGED <<disk, st, flags, reason, worker, calls, ioFault>>

\* The worker's reply parses and _assert_lifecycle_outcome finds the closed
\* journal carrying the same outcome.
Accept ==
  /\ pc = "closed" /\ reason = "returned" /\ reply \in Outcomes
  /\ ~failed /\ Readable(st) /\ Closed(st) /\ LastFrame(st) = reply
  /\ accepted' = [accepted EXCEPT ![st] = reply]
  /\ pc' = "settled"
  /\ UNCHANGED <<disk, st, flags, reason, worker, calls, ioFault>>

\* Mutant: the next stage starts whatever the outcome was.
PromoteAnything ==
  /\ pc = "settled"
  /\ IF st < NStages THEN st' = st + 1 /\ pc' = "ready"
                     ELSE st' = st     /\ pc' = "finished"
  /\ UNCHANGED <<disk, flags, reason, worker, calls, accepted, ioFault>>

\* A settled success is promoted and the next stage starts ...
Promote ==
  /\ pc = "settled" /\ accepted[st] = "outcome_success"
  /\ IF st < NStages THEN st' = st + 1 /\ pc' = "ready"
                     ELSE st' = st     /\ pc' = "finished"
  /\ UNCHANGED <<disk, flags, reason, worker, calls, accepted, ioFault>>

\* ... anything else ends the run: retries are disabled for this adapter, and
\* a success may still miss identity, budget, contract or the deadline.
StopAfterClose ==
  /\ \/ pc = "closed" /\ ~(reason = "returned" /\ reply \in Outcomes)
     \/ pc = "settled"
  /\ pc' = "stopped"
  /\ UNCHANGED <<disk, st, flags, reason, worker, calls, accepted, ioFault>>

-----------------------------------------------------------------------------
(* The worker: validate_worker_binding, then the transport's appends.      *)

WorkerActive == wpc \in {"validating", "writing", "cleared", "in_call",
                         "observed", "recorded", "replied"}

\* JournalWriter.append writes one legal frame; it is durable only after the
\* fsync.  Where the worker stands says which event it appends.
MayAppend(e) ==
  \/ wpc = "validating" /\ e = "sdk_call_boundary"
     /\ LastFrame(wstage) = "dispatch_permitted"
  \/ wpc = "in_call" /\ e \in {"sdk_return_observed", "sdk_exception_observed"}
  \/ wpc = "observed" /\ e \in Outcomes

WorkerWrite(e) ==
  /\ MayAppend(e)
  /\ Decodable(wstage) /\ e \in Follows(LastFrame(wstage))
  /\ frames' = [frames EXCEPT ![wstage] = Append(@, e)]
  /\ wpc' = "writing"
  /\ UNCHANGED <<torn, synced, closure, pc, st, flags, reason, wstage, reply,
                 calls, accepted, ioFault>>

WorkerSync ==
  /\ wpc = "writing"
  /\ synced' = [synced EXCEPT ![wstage] = Len(frames[wstage])]
  /\ wpc' = CASE LastFrame(wstage) = "sdk_call_boundary" -> "cleared"
              [] LastFrame(wstage) \in Outcomes          -> "recorded"
              [] OTHER                                   -> "observed"
  /\ UNCHANGED <<frames, torn, closure, pc, st, flags, reason, wstage, reply,
                 calls, accepted, ioFault>>

\* Mutant: the SDK is called while the boundary frame is still in flight.
SdkCallBeforeSync ==
  /\ wpc \in {"writing", "cleared"} /\ LastFrame(wstage) = "sdk_call_boundary"
  /\ calls' = [calls EXCEPT ![wstage] = @ + 1]
  /\ wpc' = "in_call"
  /\ UNCHANGED <<disk, pc, st, flags, reason, wstage, reply, accepted, ioFault>>

\* client.responses.create, only after the durable sdk_call_boundary.
SdkCall ==
  /\ wpc = "cleared"
  /\ calls' = [calls EXCEPT ![wstage] = @ + 1]
  /\ wpc' = "in_call"
  /\ UNCHANGED <<disk, pc, st, flags, reason, wstage, reply, accepted, ioFault>>

\* Refused binding or credential, failed append (whole, torn, unsynced or with
\* nothing written), failed translation or client cleanup: the worker replies ok=false.
WorkerFails ==
  /\ \/ wpc \in {"validating", "writing", "in_call", "observed"}
        /\ UNCHANGED torn
     \/ wpc \in {"validating", "in_call", "observed"}
        /\ torn' = [torn EXCEPT ![wstage] = TRUE]
  /\ reply' = "failed"
  /\ wpc' = "replied"
  /\ UNCHANGED <<frames, synced, closure, pc, st, flags, reason, wstage, calls,
                 accepted, ioFault>>

\* The outcome is emitted only after its frame is durable.
WorkerReply ==
  /\ wpc = "recorded"
  /\ reply' = LastFrame(wstage)
  /\ wpc' = "replied"
  /\ UNCHANGED <<disk, pc, st, flags, reason, wstage, calls, accepted, ioFault>>

WorkerExit ==
  /\ wpc = "replied"
  /\ wpc' = "exited"
  /\ UNCHANGED <<disk, pc, st, flags, reason, wstage, reply, calls, accepted,
                 ioFault>>

\* Killed by the collector or dead of its own, possibly inside a write.
WorkerDies ==
  /\ WorkerActive
  /\ torn' \in IF \E e \in Events : MayAppend(e)
               THEN {torn, [torn EXCEPT ![wstage] = TRUE]} ELSE {torn}
  /\ wpc' = "died"
  /\ UNCHANGED <<frames, synced, closure, pc, st, flags, reason, wstage, reply,
                 calls, accepted, ioFault>>

-----------------------------------------------------------------------------
(* Faults.                                                                 *)

ParentOver == pc \in {"stopped", "finished", "crashed"}

\* The parent is killed; its worker, in a session of its own, runs on.
ParentCrash ==
  /\ ~ParentOver
  /\ pc' = "crashed"
  /\ UNCHANGED <<disk, st, flags, reason, worker, calls, accepted, ioFault>>

\* What is left of a closure: whole and durable for good, or unsynced and at
\* the mercy of the storage.
ClosureAfter(c, fate) ==
  IF c.durable \/ c.state = "absent" \/ fate = "kept" THEN c
  ELSE IF fate = "gone" THEN NoClosure ELSE [c EXCEPT !.state = "torn"]

\* Every synced frame survives, and any prefix of the rest, the next line
\* perhaps torn.  A fsync that returned is assumed to have reached the device.
PowerLoss ==
  /\ pc # "crashed" \/ WorkerActive
  /\ \E keep \in [Stage -> 0..5], tear \in SUBSET Stage,
        fate \in [Stage -> {"kept", "gone", "torn"}] :
       /\ \A s \in Stage : keep[s] \in synced[s]..Len(frames[s])
       /\ frames' = [s \in Stage |-> SubSeq(frames[s], 1, keep[s])]
       /\ synced' = keep
       /\ torn' = [s \in Stage |-> s \in tear
                                   /\ (torn[s] \/ keep[s] < Len(frames[s]))]
       /\ closure' = [s \in Stage |-> ClosureAfter(closure[s], fate[s])]
  /\ pc' = "crashed"
  /\ wpc' = IF wpc = "off" THEN "off" ELSE "died"
  /\ UNCHANGED <<st, flags, reason, wstage, reply, calls, accepted, ioFault>>

Terminated == ParentOver /\ ~WorkerActive /\ UNCHANGED vars

-----------------------------------------------------------------------------
Init ==
  /\ frames = [s \in Stage |-> <<>>]
  /\ torn = [s \in Stage |-> FALSE]
  /\ synced = [s \in Stage |-> 0]
  /\ closure = [s \in Stage |-> NoClosure]
  /\ pc = "ready" /\ st = 1
  /\ granted = FALSE /\ failed = FALSE /\ reaping = "unstarted"
  /\ reason = "none"
  /\ wpc = "off" /\ wstage = 1 /\ reply = "none"
  /\ calls = [s \in Stage |-> 0]
  /\ accepted = [s \in Stage |-> "none"]
  /\ ioFault = FALSE

ParentReserve == CreateWrite \/ CreateFails \/ CreateSync \/ StopBeforeLaunch
ParentPermit  == PermitWrite \/ PermitFails \/ PermitSync
ParentLaunch  == \/ HandoffFails \/ Launch \/ LaunchFails
                 \/ \E r \in {"infrastructure", "interrupted"} : SpawnRefused(r)
ParentCollect == \/ Collect \/ Drain \/ GiveUp
                 \/ \E r \in {"timeout", "infrastructure", "interrupted"} : Abort(r)
ParentClose   == \/ CloseSync \/ CloseRefused \/ PublishWrite \/ PublishSync
                 \/ OpenClosureFails \/ CloseInterrupted \/ CloseFails
ParentSettle  == Accept \/ Promote \/ StopAfterClose

Parent == ParentReserve \/ ParentPermit \/ ParentLaunch \/ ParentCollect
          \/ ParentClose \/ ParentSettle

Worker == \/ \E e \in Events : WorkerWrite(e)
          \/ WorkerSync \/ SdkCall \/ WorkerFails \/ WorkerReply \/ WorkerExit
          \/ WorkerDies

Next == Parent \/ Worker \/ ParentCrash \/ PowerLoss \/ Terminated

Spec == Init /\ [][Next]_vars

\* The parent is sequential code with a deadline on its only unbounded wait;
\* nothing is assumed of the worker, of crashes or of storage.
FairSpec == Spec /\ WF_vars(Parent)

-----------------------------------------------------------------------------
(* Properties.                                                             *)

TypeOK ==
  /\ frames \in [Stage -> Seq(Events)]
  /\ torn \in [Stage -> BOOLEAN]
  /\ synced \in [Stage -> Nat]
  /\ closure \in [Stage -> [state : {"absent", "torn", "whole"},
                            durable : BOOLEAN, reason : Reasons \cup {"none"},
                            head : Seq(Events)]]
  /\ pc \in {"ready", "creating", "prepared", "permitting", "permitted",
             "collecting", "draining", "closing", "publishing",
             "syncing_closure", "closed", "settled", "stopped", "finished",
             "crashed"}
  /\ st \in Stage /\ wstage \in Stage
  /\ granted \in BOOLEAN /\ failed \in BOOLEAN /\ ioFault \in BOOLEAN
  /\ reaping \in {"unstarted", "uncertain", "reaped"}
  /\ reason \in Reasons \cup {"none"}
  /\ wpc \in {"off", "validating", "writing", "cleared", "in_call", "observed",
              "recorded", "replied", "exited", "died"}
  /\ reply \in Outcomes \cup {"none", "failed"}
  /\ calls \in [Stage -> 0..1]
  /\ accepted \in [Stage -> Outcomes \cup {"none"}]

\* An attempt a reader may call safe to retry was never dispatched and no
\* worker that could still dispatch it holds its journal (inspect,
\* safe_not_dispatched).
SafeNeverDispatched ==
  \A s \in Stage : RetrySafety(s) = "safe_not_dispatched" =>
     calls[s] = 0 /\ ~(WorkerActive /\ wstage = s)

\* Whatever storage loses, a dispatched attempt keeps its permission and its
\* SDK boundary: no crash makes a call look like one that was not made.
DispatchLeavesTrace ==
  \A s \in Stage : calls[s] > 0 =>
     synced[s] >= 3 /\ frames[s][3] = "sdk_call_boundary"

\* A published closure always binds the journal beside it, even after a power
\* loss: the closure never outlives the frames it attests.
ClosureBindsJournal ==
  \A s \in Stage : Closed(s) => Readable(s) /\ synced[s] = Len(frames[s])

\* Nothing is ever appended to, or lost from, a closed journal: a closure is
\* published only once no writer is left (may_attest).
ClosedUntouched == \A s \in Stage : Closed(s) => /\ frames'[s] = frames[s]
                                                 /\ torn'[s] = torn[s]
ClosedJournalFrozen == [][ClosedUntouched]_vars

\* The runner holds an outcome only if the durable, closed journal carries it
\* and exactly one SDK call stands behind it (_assert_lifecycle_outcome).
AcceptedIsEvidenced ==
  \A s \in Stage : accepted[s] # "none" =>
     /\ closure[s].durable /\ Closed(s) /\ closure[s].reason = "returned"
     /\ LastFrame(s) = accepted[s]
     /\ calls[s] = 1

\* A stage leaves evidence only after every earlier stage settled in success
\* (_verify_lifecycle_evidence: "lifecycle dispatch lacks prior success").
EvidenceInOrder ==
  \A s \in Stage : frames[s] # <<>> \/ torn[s] =>
     \A t \in 1..s - 1 : accepted[t] = "outcome_success"

\* A parent that stopped without storage faults leaves a prepared attempt open
\* only when it cannot know that its worker is gone, when the journal is torn,
\* or when the hand-over of a granted attempt failed before any launch.
OpenOnlyWhenUnprovable ==
  pc = "stopped" /\ ~ioFault /\ ~Closed(st) =>
     reaping = "uncertain" \/ torn[st] \/ (granted /\ reaping = "unstarted")

\* The parent always comes to rest, whatever the worker does or fails to do.
ParentSettles == <>ParentOver
=============================================================================
