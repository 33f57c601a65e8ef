----------------------- MODULE AttemptLifecycleProofs -----------------------
(***************************************************************************)
(* Proofs about AttemptLifecycle, for every number of stages.              *)
(***************************************************************************)
EXTENDS AttemptLifecycle, SequenceTheorems, TLAPS

(***************************************************************************)
(* The inductive invariant.  Beyond the typing it says how far a journal   *)
(* can be at each place of the parent and of the worker, and that a live   *)
(* worker holds the one journal that is still open.                        *)
(***************************************************************************)

Fresh(s) ==
  /\ frames[s] = <<>> /\ ~torn[s] /\ synced[s] = 0
  /\ closure[s] = NoClosure /\ calls[s] = 0 /\ accepted[s] = "none"

\* Stages not yet reached have no trace, stages passed were accepted.
Ordered ==
  /\ \A s \in Stage : s > st \/ (s = st /\ pc = "ready") => Fresh(s)
  /\ \A s \in Stage : s < st => accepted[s] = "outcome_success"

Lengths == \A s \in Stage : synced[s] <= Len(frames[s]) /\ Len(frames[s]) <= 5

\* What the journal of the current stage holds while the parent is there.
ParentAt ==
  /\ pc \in {"creating", "prepared", "permitting", "permitted", "collecting",
             "draining", "closing", "publishing"} => closure[st].state = "absent"
  /\ pc \in {"creating", "prepared"} => Len(frames[st]) = 1
  /\ pc \in {"permitting", "permitted"} => Len(frames[st]) = 2
  /\ pc = "permitted" => synced[st] = 2
  /\ pc \in {"creating", "prepared", "permitting", "permitted"} => calls[st] = 0
  /\ pc = "publishing" => /\ Decodable(st) /\ synced[st] = Len(frames[st])
                          /\ (reason = "not_started") <=> (Len(frames[st]) = 1)
  /\ pc \in {"syncing_closure", "closed"} =>
        Closed(st) /\ closure[st].reason = reason
  /\ pc = "closed" => closure[st].durable

\* A live worker holds the open journal of the current stage, and no parent
\* that attests quiescence coexists with it.
WorkerHolds ==
  WorkerActive => /\ wstage = st /\ closure[st].state = "absent"
                  /\ pc \in {"collecting", "draining", "stopped", "crashed"}

WorkerAt ==
  /\ wpc = "validating" => Len(frames[wstage]) = 2 /\ calls[wstage] = 0
  /\ wpc = "writing" =>
       \/ /\ Len(frames[wstage]) = 3 /\ calls[wstage] = 0
          /\ frames[wstage][3] = "sdk_call_boundary"
       \/ /\ Len(frames[wstage]) = 4 /\ calls[wstage] = 1
          /\ frames[wstage][4] \in {"sdk_return_observed",
                                    "sdk_exception_observed"}
       \/ /\ Len(frames[wstage]) = 5 /\ calls[wstage] = 1
          /\ frames[wstage][5] \in Outcomes
  /\ wpc = "cleared" => /\ Len(frames[wstage]) = 3 /\ synced[wstage] = 3
                        /\ frames[wstage][3] = "sdk_call_boundary"
                        /\ calls[wstage] = 0
  /\ wpc = "in_call" => Len(frames[wstage]) = 3 /\ calls[wstage] = 1
  /\ wpc = "observed" => Len(frames[wstage]) = 4 /\ calls[wstage] = 1
  /\ wpc = "recorded" => /\ Len(frames[wstage]) = 5
                         /\ frames[wstage][5] \in Outcomes

Traced ==
  \A s \in Stage :
    /\ calls[s] = 1 => synced[s] >= 3 /\ frames[s][3] = "sdk_call_boundary"
    /\ Len(frames[s]) >= 4 => calls[s] = 1

IInv == /\ TypeOK /\ Lengths /\ Ordered /\ ParentAt /\ WorkerHolds /\ WorkerAt
        /\ Traced /\ ClosureBindsJournal /\ AcceptedIsEvidenced

-----------------------------------------------------------------------------
(* Facts about the variables that every step needs.                        *)

LEMMA JournalLength ==
  ASSUME IInv, NEW s \in Stage
  PROVE  /\ frames[s] \in Seq(Events) /\ Len(frames[s]) \in Nat
         /\ synced[s] \in Nat /\ synced[s] <= Len(frames[s])
         /\ Len(frames[s]) <= 5
<1>1. frames[s] \in Seq(Events) /\ synced[s] \in Nat
  BY DEF IInv, TypeOK
<1>2. Len(frames[s]) \in Nat
  BY <1>1, LenProperties
<1>3. synced[s] <= Len(frames[s]) /\ Len(frames[s]) <= 5
  BY DEF IInv, Lengths
<1>4. QED
  BY <1>1, <1>2, <1>3

\* Appending one legal event to the journal of stage s.
LEMMA AppendFrame ==
  ASSUME IInv, NEW s \in Stage, NEW e \in Events,
         frames' = [frames EXCEPT ![s] = Append(@, e)]
  PROVE  /\ frames' \in [Stage -> Seq(Events)]
         /\ Len(frames'[s]) = Len(frames[s]) + 1
         /\ frames'[s][Len(frames[s]) + 1] = e
         /\ \A i \in 1..Len(frames[s]) : frames'[s][i] = frames[s][i]
         /\ \A t \in Stage \ {s} : frames'[t] = frames[t]
<1>1. frames \in [Stage -> Seq(Events)] /\ frames'[s] = Append(frames[s], e)
  BY DEF IInv, TypeOK
<1>2. frames[s] \in Seq(Events)
  BY <1>1
<1>3. /\ Append(frames[s], e) \in Seq(Events)
      /\ Len(Append(frames[s], e)) = Len(frames[s]) + 1
      /\ \A i \in 1..Len(frames[s]) : Append(frames[s], e)[i] = frames[s][i]
      /\ Append(frames[s], e)[Len(frames[s]) + 1] = e
  BY <1>2, AppendProperties
<1>4. QED
  BY <1>1, <1>3

\* An outcome cannot stand before position four of a legal journal.
LEMMA OutcomeLast ==
  ASSUME NEW fs \in Seq(Events), Legal(fs), fs[Len(fs)] \in Outcomes
  PROVE  Len(fs) >= 4
<1>1. Len(fs) \in Nat /\ 1 <= Len(fs) /\ fs[1] = "attempt_prepared"
  BY LenProperties DEF Legal
<1>2. ASSUME NEW i \in Nat, 1 <= i, i < Len(fs) PROVE fs[i + 1] \in Follows(fs[i])
  BY <1>1, <1>2 DEF Legal
<1>3. Len(fs) > 1 => fs[2] = "dispatch_permitted"
  BY <1>1, <1>2 DEF Follows
<1>4. Len(fs) > 2 => fs[3] = "sdk_call_boundary"
  BY <1>1, <1>2, <1>3 DEF Follows
<1>5. QED
  BY <1>1, <1>3, <1>4 DEF Outcomes

\* A step that leaves disk, calls and accepted outcomes alone.
LEMMA QuietDisk ==
  ASSUME IInv, UNCHANGED <<disk, calls, accepted>>
  PROVE  Lengths' /\ Traced' /\ ClosureBindsJournal' /\ AcceptedIsEvidenced'
BY DEF IInv, disk, Lengths, Traced, ClosureBindsJournal, AcceptedIsEvidenced,
       Closed, Readable, Decodable, LastFrame

\* What Lengths and Traced say of one stage.
Sound(s) ==
  /\ synced[s] <= Len(frames[s]) /\ Len(frames[s]) <= 5
  /\ calls[s] = 1 => synced[s] >= 3 /\ frames[s][3] = "sdk_call_boundary"
  /\ Len(frames[s]) >= 4 => calls[s] = 1

\* A step that touches the journal of one open stage x only.
LEMMA OneStage ==
  ASSUME IInv, NEW x \in Stage,
         \A s \in Stage \ {x} :
            /\ frames'[s] = frames[s] /\ torn'[s] = torn[s]
            /\ synced'[s] = synced[s] /\ closure'[s] = closure[s]
            /\ calls'[s] = calls[s],
         closure[x].state = "absent", closure'[x].state # "whole",
         accepted' = accepted, Sound(x)'
  PROVE  Lengths' /\ Traced' /\ ClosureBindsJournal' /\ AcceptedIsEvidenced'
<1>1. \A s \in Stage : Sound(s)'
  BY DEF IInv, Lengths, Traced, Sound
<1>2. Lengths' /\ Traced'
  BY <1>1 DEF Lengths, Traced, Sound
<1>3. ASSUME NEW s \in Stage, Closed(s)'
      PROVE  s # x /\ Closed(s) /\ Readable(s)' /\ (synced[s] = Len(frames[s]))'
  BY <1>3 DEF IInv, ClosureBindsJournal, Closed, Readable, Decodable
<1>4. ClosureBindsJournal'
  BY <1>3 DEF ClosureBindsJournal
<1>5. accepted[x] = "none"
  BY DEF IInv, AcceptedIsEvidenced, Closed
<1>6. AcceptedIsEvidenced'
  BY <1>5 DEF IInv, AcceptedIsEvidenced, Closed, LastFrame
<1>7. QED
  BY <1>2, <1>4, <1>6

LEMMA ReserveStep ==
  ASSUME IInv,
         \/ CreateWrite
         \/ CreateFails
         \/ CreateSync
         \/ StopBeforeLaunch
  PROVE  IInv'
<1> USE NStagesAssumption
<1>1. CASE CreateWrite
  <2>1. TypeOK'
    BY <1>1, JournalLength DEF IInv, TypeOK, flags, disk, worker, CreateWrite, Events, Reasons, NoClosure
  <2>2. Ordered'
    BY <1>1 DEF IInv, TypeOK, Ordered, Fresh, flags, disk, worker, CreateWrite
  <2>3. ParentAt'
    BY <1>1 DEF IInv, TypeOK, Ordered, Fresh, NoClosure, ParentAt, flags, disk, worker, CreateWrite
  <2>4. WorkerHolds' /\ WorkerAt'
    BY <1>1 DEF IInv, TypeOK, ParentAt, WorkerHolds, WorkerActive, WorkerAt, flags, disk, worker, CreateWrite
  <2>5. Sound(st)'
    BY <1>1 DEF IInv, TypeOK, Sound, Ordered, Fresh, flags, disk, worker, CreateWrite
  <2>6. closure[st].state = "absent" /\ closure'[st].state # "whole"
    BY <1>1 DEF IInv, TypeOK, Ordered, Fresh, NoClosure, flags, disk, worker, CreateWrite
  <2>7. Lengths' /\ Traced' /\ ClosureBindsJournal' /\ AcceptedIsEvidenced'
    BY <1>1, <2>5, <2>6, OneStage DEF IInv, TypeOK, flags, disk, worker, CreateWrite
  <2>8. QED
    BY <2>1, <2>2, <2>3, <2>4, <2>7 DEF IInv
<1>2. CASE CreateFails
  <2>1. TypeOK'
    BY <1>2 DEF IInv, TypeOK, Lengths, flags, disk, worker, CreateFails
  <2>2. Ordered'
    BY <1>2 DEF IInv, TypeOK, Ordered, Fresh, flags, disk, worker, CreateFails
  <2>3. ParentAt'
    BY <1>2 DEF IInv, TypeOK, ParentAt, Closed, Decodable, flags, disk, worker, CreateFails
  <2>4. WorkerHolds' /\ WorkerAt'
    BY <1>2 DEF IInv, TypeOK, ParentAt, WorkerHolds, WorkerActive, WorkerAt, flags, disk, worker, CreateFails
  <2>5. Sound(st)'
    BY <1>2 DEF IInv, TypeOK, Lengths, Traced, Sound, flags, disk, worker, CreateFails
  <2>6. closure[st].state = "absent" /\ closure'[st].state # "whole"
    BY <1>2 DEF IInv, TypeOK, ParentAt, Ordered, Fresh, NoClosure, flags, disk, worker, CreateFails
  <2>7. Lengths' /\ Traced' /\ ClosureBindsJournal' /\ AcceptedIsEvidenced'
    BY <1>2, <2>5, <2>6, OneStage DEF IInv, TypeOK, flags, disk, worker, CreateFails
  <2>8. QED
    BY <2>1, <2>2, <2>3, <2>4, <2>7 DEF IInv
<1>3. CASE CreateSync
  <2>1. TypeOK'
    BY <1>3, JournalLength DEF IInv, TypeOK, flags, disk, worker, CreateSync
  <2>2. Ordered'
    BY <1>3 DEF IInv, TypeOK, Ordered, Fresh, flags, disk, worker, CreateSync
  <2>3. ParentAt'
    BY <1>3 DEF IInv, TypeOK, ParentAt, Closed, Decodable, flags, disk, worker, CreateSync
  <2>4. WorkerHolds' /\ WorkerAt'
    BY <1>3 DEF IInv, TypeOK, ParentAt, WorkerHolds, WorkerActive, WorkerAt, flags, disk, worker, CreateSync
  <2>5. Sound(st)'
    BY <1>3, JournalLength DEF IInv, TypeOK, ParentAt, Traced, Sound, flags, disk, worker, CreateSync
  <2>6. closure[st].state = "absent" /\ closure'[st].state # "whole"
    BY <1>3 DEF IInv, TypeOK, ParentAt, flags, disk, worker, CreateSync
  <2>7. Lengths' /\ Traced' /\ ClosureBindsJournal' /\ AcceptedIsEvidenced'
    BY <1>3, <2>5, <2>6, OneStage DEF IInv, TypeOK, flags, disk, worker, CreateSync
  <2>8. QED
    BY <2>1, <2>2, <2>3, <2>4, <2>7 DEF IInv
<1>4. CASE StopBeforeLaunch
  <2>1. TypeOK'
    BY <1>4, JournalLength DEF IInv, TypeOK, flags, disk, worker, StopBeforeLaunch, Reasons
  <2>2. Ordered'
    BY <1>4 DEF IInv, TypeOK, Ordered, Fresh, flags, disk, worker, StopBeforeLaunch
  <2>3. ParentAt'
    BY <1>4 DEF IInv, TypeOK, ParentAt, Closed, Decodable, flags, disk, worker, StopBeforeLaunch
  <2>4. WorkerHolds' /\ WorkerAt'
    BY <1>4 DEF IInv, TypeOK, ParentAt, WorkerHolds, WorkerActive, WorkerAt, flags, disk, worker, StopBeforeLaunch
  <2>5. Lengths' /\ Traced' /\ ClosureBindsJournal' /\ AcceptedIsEvidenced'
    BY <1>4, QuietDisk DEF StopBeforeLaunch
  <2>6. QED
    BY <2>1, <2>2, <2>3, <2>4, <2>5 DEF IInv
<1> QED
  BY <1>1, <1>2, <1>3, <1>4

LEMMA PermitStep ==
  ASSUME IInv,
         \/ PermitWrite
         \/ PermitFails
         \/ PermitSync
  PROVE  IInv'
<1> USE NStagesAssumption
<1>1. CASE PermitWrite
  <2>1. "dispatch_permitted" \in Events /\ st \in Stage /\ Len(frames[st]) = 1
    BY <1>1 DEF IInv, TypeOK, ParentAt, PermitWrite, Events
  <2>2. frames' \in [Stage -> Seq(Events)] /\ Len(frames'[st]) = 2
    <3>1. frames' = [frames EXCEPT ![st] = Append(@, "dispatch_permitted")]
      BY <1>1 DEF PermitWrite
    <3>2. /\ frames' \in [Stage -> Seq(Events)]
          /\ Len(frames'[st]) = Len(frames[st]) + 1
      BY <2>1, <3>1, AppendFrame
    <3>3. QED
      BY <2>1, <3>2
  <2>3. TypeOK'
    BY <1>1, <2>2 DEF IInv, TypeOK, flags, worker, PermitWrite
  <2>4. Ordered'
    BY <1>1 DEF IInv, TypeOK, Ordered, Fresh, flags, worker, PermitWrite
  <2>5. ParentAt'
    BY <1>1, <2>2 DEF IInv, TypeOK, ParentAt, flags, worker, PermitWrite
  <2>6. WorkerHolds' /\ WorkerAt'
    BY <1>1 DEF IInv, TypeOK, ParentAt, WorkerHolds, WorkerActive, WorkerAt, flags,
                worker, PermitWrite
  <2>7. Sound(st)'
    BY <1>1, <2>1, <2>2, JournalLength DEF IInv, ParentAt, Sound, PermitWrite
  <2>8. closure[st].state = "absent" /\ closure'[st].state # "whole"
    BY <1>1 DEF PermitWrite
  <2>9. Lengths' /\ Traced' /\ ClosureBindsJournal' /\ AcceptedIsEvidenced'
    BY <1>1, <2>7, <2>8, OneStage DEF IInv, TypeOK, PermitWrite
  <2>10. QED
    BY <2>3, <2>4, <2>5, <2>6, <2>9 DEF IInv
<1>2. CASE PermitFails
  <2>1. TypeOK'
    BY <1>2 DEF IInv, TypeOK, Lengths, flags, disk, worker, PermitFails
  <2>2. Ordered'
    BY <1>2 DEF IInv, TypeOK, Ordered, Fresh, flags, disk, worker, PermitFails
  <2>3. ParentAt'
    BY <1>2 DEF IInv, TypeOK, ParentAt, Closed, Decodable, flags, disk, worker, PermitFails
  <2>4. WorkerHolds' /\ WorkerAt'
    BY <1>2 DEF IInv, TypeOK, ParentAt, WorkerHolds, WorkerActive, WorkerAt, flags, disk, worker, PermitFails
  <2>5. Sound(st)'
    BY <1>2 DEF IInv, TypeOK, Lengths, Traced, Sound, flags, disk, worker, PermitFails
  <2>6. closure[st].state = "absent" /\ closure'[st].state # "whole"
    BY <1>2 DEF IInv, TypeOK, ParentAt, flags, disk, worker, PermitFails
  <2>7. Lengths' /\ Traced' /\ ClosureBindsJournal' /\ AcceptedIsEvidenced'
    BY <1>2, <2>5, <2>6, OneStage DEF IInv, TypeOK, flags, disk, worker, PermitFails
  <2>8. QED
    BY <2>1, <2>2, <2>3, <2>4, <2>7 DEF IInv
<1>3. CASE PermitSync
  <2>1. TypeOK'
    BY <1>3, JournalLength DEF IInv, TypeOK, flags, disk, worker, PermitSync
  <2>2. Ordered'
    BY <1>3 DEF IInv, TypeOK, Ordered, Fresh, flags, disk, worker, PermitSync
  <2>3. ParentAt'
    BY <1>3 DEF IInv, TypeOK, ParentAt, Closed, Decodable, flags, disk, worker, PermitSync
  <2>4. WorkerHolds' /\ WorkerAt'
    BY <1>3 DEF IInv, TypeOK, ParentAt, WorkerHolds, WorkerActive, WorkerAt, flags, disk, worker, PermitSync
  <2>5. Sound(st)'
    BY <1>3, JournalLength DEF IInv, TypeOK, ParentAt, Traced, Sound, flags, disk, worker, PermitSync
  <2>6. closure[st].state = "absent" /\ closure'[st].state # "whole"
    BY <1>3 DEF IInv, TypeOK, ParentAt, flags, disk, worker, PermitSync
  <2>7. Lengths' /\ Traced' /\ ClosureBindsJournal' /\ AcceptedIsEvidenced'
    BY <1>3, <2>5, <2>6, OneStage DEF IInv, TypeOK, flags, disk, worker, PermitSync
  <2>8. QED
    BY <2>1, <2>2, <2>3, <2>4, <2>7 DEF IInv
<1> QED
  BY <1>1, <1>2, <1>3

LEMMA LaunchStep ==
  ASSUME IInv,
         \/ HandoffFails
         \/ \E r \in Reasons : SpawnRefused(r)
         \/ Launch
         \/ LaunchFails
  PROVE  IInv'
<1> USE NStagesAssumption
<1>1. CASE HandoffFails
  <2>1. TypeOK'
    BY <1>1 DEF IInv, TypeOK, Lengths, flags, disk, worker, HandoffFails
  <2>2. Ordered'
    BY <1>1 DEF IInv, TypeOK, Ordered, Fresh, flags, disk, worker, HandoffFails
  <2>3. ParentAt'
    BY <1>1 DEF IInv, TypeOK, ParentAt, Closed, Decodable, flags, disk, worker, HandoffFails
  <2>4. WorkerHolds' /\ WorkerAt'
    BY <1>1 DEF IInv, TypeOK, ParentAt, WorkerHolds, WorkerActive, WorkerAt, flags, disk, worker, HandoffFails
  <2>5. Lengths' /\ Traced' /\ ClosureBindsJournal' /\ AcceptedIsEvidenced'
    BY <1>1, QuietDisk DEF HandoffFails
  <2>6. QED
    BY <2>1, <2>2, <2>3, <2>4, <2>5 DEF IInv
<1>2. ASSUME NEW r \in Reasons, SpawnRefused(r) PROVE IInv'
  <2>1. TypeOK'
    BY <1>2 DEF IInv, TypeOK, Lengths, flags, disk, worker, SpawnRefused
  <2>2. Ordered'
    BY <1>2 DEF IInv, TypeOK, Ordered, Fresh, flags, disk, worker, SpawnRefused
  <2>3. ParentAt'
    BY <1>2 DEF IInv, TypeOK, ParentAt, Closed, Decodable, flags, disk, worker, SpawnRefused
  <2>4. WorkerHolds' /\ WorkerAt'
    BY <1>2 DEF IInv, TypeOK, ParentAt, WorkerHolds, WorkerActive, WorkerAt, flags, disk, worker, SpawnRefused
  <2>5. Lengths' /\ Traced' /\ ClosureBindsJournal' /\ AcceptedIsEvidenced'
    BY <1>2, QuietDisk DEF SpawnRefused
  <2>6. QED
    BY <2>1, <2>2, <2>3, <2>4, <2>5 DEF IInv
<1>3. CASE Launch
  <2>1. TypeOK'
    BY <1>3 DEF IInv, TypeOK, Lengths, flags, disk, worker, Launch
  <2>2. Ordered'
    BY <1>3 DEF IInv, TypeOK, Ordered, Fresh, flags, disk, worker, Launch
  <2>3. ParentAt'
    BY <1>3 DEF IInv, TypeOK, ParentAt, Closed, Decodable, flags, disk, worker, Launch
  <2>4. WorkerHolds' /\ WorkerAt'
    BY <1>3 DEF IInv, TypeOK, ParentAt, WorkerHolds, WorkerActive, WorkerAt, flags, disk, worker, Launch
  <2>5. Lengths' /\ Traced' /\ ClosureBindsJournal' /\ AcceptedIsEvidenced'
    BY <1>3, QuietDisk DEF Launch
  <2>6. QED
    BY <2>1, <2>2, <2>3, <2>4, <2>5 DEF IInv
<1>4. CASE LaunchFails
  <2>1. TypeOK'
    BY <1>4 DEF IInv, TypeOK, Lengths, flags, disk, worker, LaunchFails
  <2>2. Ordered'
    BY <1>4 DEF IInv, TypeOK, Ordered, Fresh, flags, disk, worker, LaunchFails
  <2>3. ParentAt'
    BY <1>4 DEF IInv, TypeOK, ParentAt, Closed, Decodable, flags, disk, worker, LaunchFails
  <2>4. WorkerHolds' /\ WorkerAt'
    BY <1>4 DEF IInv, TypeOK, ParentAt, WorkerHolds, WorkerActive, WorkerAt, flags, disk, worker, LaunchFails
  <2>5. Lengths' /\ Traced' /\ ClosureBindsJournal' /\ AcceptedIsEvidenced'
    BY <1>4, QuietDisk DEF LaunchFails
  <2>6. QED
    BY <2>1, <2>2, <2>3, <2>4, <2>5 DEF IInv
<1> QED
  BY <1>1, <1>2, <1>3, <1>4

LEMMA CollectStep ==
  ASSUME IInv,
         \/ Collect
         \/ \E r \in Reasons : Abort(r)
         \/ Drain
         \/ GiveUp
  PROVE  IInv'
<1> USE NStagesAssumption
<1>1. CASE Collect
  <2>1. TypeOK'
    BY <1>1, JournalLength DEF IInv, TypeOK, flags, disk, worker, Collect, Reasons
  <2>2. Ordered'
    BY <1>1 DEF IInv, TypeOK, Ordered, Fresh, flags, disk, worker, Collect, WorkerGone
  <2>3. ParentAt'
    BY <1>1 DEF IInv, TypeOK, ParentAt, Closed, Decodable, flags, disk, worker, Collect, WorkerGone
  <2>4. WorkerHolds' /\ WorkerAt'
    BY <1>1 DEF IInv, TypeOK, ParentAt, WorkerHolds, WorkerActive, WorkerAt, flags, disk, worker, Collect, WorkerGone
  <2>5. Lengths' /\ Traced' /\ ClosureBindsJournal' /\ AcceptedIsEvidenced'
    BY <1>1, QuietDisk DEF Collect
  <2>6. QED
    BY <2>1, <2>2, <2>3, <2>4, <2>5 DEF IInv
<1>2. ASSUME NEW r \in Reasons, Abort(r) PROVE IInv'
  <2>1. TypeOK'
    BY <1>2 DEF IInv, TypeOK, Lengths, flags, disk, worker, Abort
  <2>2. Ordered'
    BY <1>2 DEF IInv, TypeOK, Ordered, Fresh, flags, disk, worker, Abort
  <2>3. ParentAt'
    BY <1>2 DEF IInv, TypeOK, ParentAt, Closed, Decodable, flags, disk, worker, Abort
  <2>4. WorkerHolds' /\ WorkerAt'
    BY <1>2 DEF IInv, TypeOK, ParentAt, WorkerHolds, WorkerActive, WorkerAt, flags, disk, worker, Abort
  <2>5. Lengths' /\ Traced' /\ ClosureBindsJournal' /\ AcceptedIsEvidenced'
    BY <1>2, QuietDisk DEF Abort
  <2>6. QED
    BY <2>1, <2>2, <2>3, <2>4, <2>5 DEF IInv
<1>3. CASE Drain
  <2>1. TypeOK'
    BY <1>3 DEF IInv, TypeOK, Lengths, flags, disk, worker, Drain, WorkerGone
  <2>2. Ordered'
    BY <1>3 DEF IInv, TypeOK, Ordered, Fresh, flags, disk, worker, Drain, WorkerGone
  <2>3. ParentAt'
    BY <1>3 DEF IInv, TypeOK, ParentAt, Closed, Decodable, flags, disk, worker, Drain, WorkerGone
  <2>4. WorkerHolds' /\ WorkerAt'
    BY <1>3 DEF IInv, TypeOK, ParentAt, WorkerHolds, WorkerActive, WorkerAt, flags, disk, worker, Drain, WorkerGone
  <2>5. Lengths' /\ Traced' /\ ClosureBindsJournal' /\ AcceptedIsEvidenced'
    BY <1>3, QuietDisk DEF Drain
  <2>6. QED
    BY <2>1, <2>2, <2>3, <2>4, <2>5 DEF IInv
<1>4. CASE GiveUp
  <2>1. TypeOK'
    BY <1>4 DEF IInv, TypeOK, Lengths, flags, disk, worker, GiveUp, WorkerGone
  <2>2. Ordered'
    BY <1>4 DEF IInv, TypeOK, Ordered, Fresh, flags, disk, worker, GiveUp, WorkerGone
  <2>3. ParentAt'
    BY <1>4 DEF IInv, TypeOK, ParentAt, Closed, Decodable, flags, disk, worker, GiveUp, WorkerGone
  <2>4. WorkerHolds' /\ WorkerAt'
    BY <1>4 DEF IInv, TypeOK, ParentAt, WorkerHolds, WorkerActive, WorkerAt, flags, disk, worker, GiveUp, WorkerGone
  <2>5. Lengths' /\ Traced' /\ ClosureBindsJournal' /\ AcceptedIsEvidenced'
    BY <1>4, QuietDisk DEF GiveUp
  <2>6. QED
    BY <2>1, <2>2, <2>3, <2>4, <2>5 DEF IInv
<1> QED
  BY <1>1, <1>2, <1>3, <1>4

LEMMA CloseStep ==
  ASSUME IInv,
         \/ CloseSync
         \/ CloseRefused
         \/ PublishWrite
         \/ PublishSync
         \/ OpenClosureFails
         \/ CloseInterrupted
         \/ CloseFails
  PROVE  IInv'
<1> USE NStagesAssumption
<1>1. CASE CloseSync
  <2>1. TypeOK'
    BY <1>1, JournalLength DEF IInv, TypeOK, flags, disk, worker, CloseSync
  <2>2. Ordered'
    BY <1>1 DEF IInv, TypeOK, Ordered, Fresh, flags, disk, worker, CloseSync
  <2>3. ParentAt'
    BY <1>1 DEF IInv, TypeOK, ParentAt, Closed, Decodable, flags, disk, worker, CloseSync
  <2>4. WorkerHolds' /\ WorkerAt'
    BY <1>1 DEF IInv, TypeOK, ParentAt, WorkerHolds, WorkerActive, WorkerAt, flags, disk, worker, CloseSync
  <2>5. Sound(st)'
    BY <1>1, JournalLength DEF IInv, TypeOK, ParentAt, Traced, Sound, flags, disk, worker, CloseSync
  <2>6. closure[st].state = "absent" /\ closure'[st].state # "whole"
    BY <1>1 DEF IInv, TypeOK, ParentAt, flags, disk, worker, CloseSync
  <2>7. Lengths' /\ Traced' /\ ClosureBindsJournal' /\ AcceptedIsEvidenced'
    BY <1>1, <2>5, <2>6, OneStage DEF IInv, TypeOK, flags, disk, worker, CloseSync
  <2>8. QED
    BY <2>1, <2>2, <2>3, <2>4, <2>7 DEF IInv
<1>2. CASE CloseRefused
  <2>1. TypeOK'
    BY <1>2 DEF IInv, TypeOK, Lengths, flags, disk, worker, CloseRefused
  <2>2. Ordered'
    BY <1>2 DEF IInv, TypeOK, Ordered, Fresh, flags, disk, worker, CloseRefused
  <2>3. ParentAt'
    BY <1>2 DEF IInv, TypeOK, ParentAt, Closed, Decodable, flags, disk, worker, CloseRefused
  <2>4. WorkerHolds' /\ WorkerAt'
    BY <1>2 DEF IInv, TypeOK, ParentAt, WorkerHolds, WorkerActive, WorkerAt, flags, disk, worker, CloseRefused
  <2>5. Lengths' /\ Traced' /\ ClosureBindsJournal' /\ AcceptedIsEvidenced'
    BY <1>2, QuietDisk DEF CloseRefused
  <2>6. QED
    BY <2>1, <2>2, <2>3, <2>4, <2>5 DEF IInv
<1>3. CASE PublishWrite
  <2>1. TypeOK'
    BY <1>3 DEF IInv, TypeOK, Lengths, flags, disk, worker, PublishWrite
  <2>2. Ordered'
    BY <1>3 DEF IInv, TypeOK, Ordered, Fresh, flags, disk, worker, PublishWrite
  <2>3. ParentAt'
    BY <1>3 DEF IInv, TypeOK, ParentAt, Closed, Decodable, flags, disk, worker, PublishWrite
  <2>4. WorkerHolds' /\ WorkerAt'
    BY <1>3 DEF IInv, TypeOK, ParentAt, WorkerHolds, WorkerActive, WorkerAt, flags, disk, worker, PublishWrite
  <2>5. st \in Stage /\ closure' \in [Stage -> [state : {"absent", "torn", "whole"},
                            durable : BOOLEAN, reason : Reasons \cup {"none"},
                            head : Seq(Events)]]
    BY <1>3, <2>1 DEF IInv, TypeOK
  <2>6. Lengths' /\ Traced'
    BY <1>3 DEF IInv, Lengths, Traced, PublishWrite
  <2>7. ASSUME NEW s \in Stage, Closed(s)'
        PROVE  (Readable(s) /\ synced[s] = Len(frames[s]))'
    <3>1. CASE s = st
      BY <1>3, <2>5, <2>7, <3>1 DEF IInv, TypeOK, ParentAt, ClosureBindsJournal,
         Readable, Decodable, Closed, PublishWrite
    <3>2. CASE s # st
      BY <1>3, <2>5, <2>7, <3>2 DEF IInv, TypeOK, ClosureBindsJournal, Readable,
         Decodable, Closed, PublishWrite
    <3>3. QED
      BY <3>1, <3>2
  <2>8. ASSUME NEW s \in Stage, accepted'[s] # "none"
        PROVE  s # st /\ closure'[s] = closure[s]
    BY <1>3, <2>8 DEF IInv, TypeOK, ParentAt, AcceptedIsEvidenced, Closed, PublishWrite
  <2>9. AcceptedIsEvidenced'
    BY <1>3, <2>8 DEF IInv, AcceptedIsEvidenced, Closed, LastFrame, PublishWrite
  <2>10. QED
    BY <2>1, <2>2, <2>3, <2>4, <2>6, <2>7, <2>9 DEF IInv, ClosureBindsJournal
<1>4. CASE PublishSync
  <2>1. TypeOK'
    <3>1. st \in Stage /\ closure[st] \in [state : {"absent", "torn", "whole"},
             durable : BOOLEAN, reason : Reasons \cup {"none"}, head : Seq(Events)]
      BY DEF IInv, TypeOK
    <3>2. closure' = [closure EXCEPT ![st] = [@ EXCEPT !.durable = TRUE]]
      BY <1>4 DEF PublishSync
    <3>3. closure' \in [Stage -> [state : {"absent", "torn", "whole"},
             durable : BOOLEAN, reason : Reasons \cup {"none"}, head : Seq(Events)]]
      BY <3>1, <3>2 DEF IInv, TypeOK
    <3>4. QED
      BY <1>4, <3>3 DEF IInv, TypeOK, flags, worker, PublishSync
  <2>2. Ordered'
    BY <1>4 DEF IInv, TypeOK, Ordered, Fresh, flags, disk, worker, PublishSync
  <2>3. ParentAt'
    BY <1>4 DEF IInv, TypeOK, ParentAt, Closed, Decodable, flags, disk, worker, PublishSync
  <2>4. WorkerHolds' /\ WorkerAt'
    BY <1>4 DEF IInv, TypeOK, ParentAt, WorkerHolds, WorkerActive, WorkerAt, flags, disk, worker, PublishSync
  <2>5. st \in Stage /\ closure' \in [Stage -> [state : {"absent", "torn", "whole"},
                            durable : BOOLEAN, reason : Reasons \cup {"none"},
                            head : Seq(Events)]]
    BY <1>4, <2>1 DEF IInv, TypeOK
  <2>6. Lengths' /\ Traced'
    BY <1>4 DEF IInv, Lengths, Traced, PublishSync
  <2>7. ASSUME NEW s \in Stage, Closed(s)'
        PROVE  (Readable(s) /\ synced[s] = Len(frames[s]))'
    <3>1. CASE s = st
      BY <1>4, <2>5, <2>7, <3>1 DEF IInv, TypeOK, ParentAt, ClosureBindsJournal,
         Readable, Decodable, Closed, PublishSync
    <3>2. CASE s # st
      BY <1>4, <2>5, <2>7, <3>2 DEF IInv, TypeOK, ClosureBindsJournal, Readable,
         Decodable, Closed, PublishSync
    <3>3. QED
      BY <3>1, <3>2
  <2>8. ASSUME NEW s \in Stage
        PROVE  /\ closure'[s].state = closure[s].state
               /\ closure'[s].reason = closure[s].reason
               /\ closure[s].durable => closure'[s].durable
    BY <1>4, <2>5 DEF IInv, TypeOK, PublishSync
  <2>9. AcceptedIsEvidenced'
    BY <1>4, <2>8 DEF IInv, AcceptedIsEvidenced, Closed, LastFrame, PublishSync
  <2>10. QED
    BY <2>1, <2>2, <2>3, <2>4, <2>6, <2>7, <2>9 DEF IInv, ClosureBindsJournal
<1>5. CASE OpenClosureFails
  <2>1. TypeOK'
    BY <1>5, JournalLength DEF IInv, TypeOK, flags, disk, worker, OpenClosureFails, Reasons
  <2>2. Ordered'
    BY <1>5 DEF IInv, TypeOK, Ordered, Fresh, flags, disk, worker, OpenClosureFails
  <2>3. ParentAt'
    BY <1>5 DEF IInv, TypeOK, ParentAt, Closed, Decodable, flags, disk, worker, OpenClosureFails
  <2>4. WorkerHolds' /\ WorkerAt'
    BY <1>5 DEF IInv, TypeOK, ParentAt, WorkerHolds, WorkerActive, WorkerAt, flags, disk, worker, OpenClosureFails
  <2>5. Lengths' /\ Traced' /\ ClosureBindsJournal' /\ AcceptedIsEvidenced'
    BY <1>5, QuietDisk DEF OpenClosureFails
  <2>6. QED
    BY <2>1, <2>2, <2>3, <2>4, <2>5 DEF IInv
<1>6. CASE CloseFails
  <2>1. CASE pc # "publishing"
    <3>1. TypeOK' /\ Ordered'
      BY <1>6, <2>1 DEF IInv, TypeOK, Ordered, Fresh, worker, CloseFails
    <3>2. ParentAt' /\ WorkerHolds' /\ WorkerAt'
      BY <1>6, <2>1 DEF IInv, ParentAt, WorkerHolds, WorkerActive, WorkerAt, worker,
                        CloseFails
    <3>3. Lengths' /\ Traced' /\ ClosureBindsJournal' /\ AcceptedIsEvidenced'
      BY <1>6, <2>1, QuietDisk DEF CloseFails, disk
    <3>4. QED
      BY <3>1, <3>2, <3>3 DEF IInv
  <2>2. CASE pc = "publishing"
    <3>1. closure' = [closure EXCEPT ![st] = [@ EXCEPT !.state = "torn"]]
      BY <1>6, <2>2 DEF CloseFails
    <3>2. TypeOK'
      BY <1>6, <3>1 DEF IInv, TypeOK, worker, CloseFails
    <3>3. Ordered'
      BY <1>6, <2>2, <3>1 DEF IInv, TypeOK, Ordered, Fresh, CloseFails
    <3>4. ParentAt' /\ WorkerHolds' /\ WorkerAt'
      BY <1>6, <2>2 DEF IInv, TypeOK, ParentAt, WorkerHolds, WorkerActive, WorkerAt, worker,
                        CloseFails
    <3>5. Sound(st)'
      BY <1>6 DEF IInv, TypeOK, Lengths, Traced, Sound, CloseFails
    <3>6. closure[st].state = "absent" /\ closure'[st].state # "whole"
      BY <2>2, <3>1 DEF IInv, TypeOK, ParentAt
    <3>7. Lengths' /\ Traced' /\ ClosureBindsJournal' /\ AcceptedIsEvidenced'
      BY <1>6, <3>1, <3>5, <3>6, OneStage DEF IInv, TypeOK, CloseFails
    <3>8. QED
      BY <3>2, <3>3, <3>4, <3>7 DEF IInv
  <2>3. QED
    BY <2>1, <2>2
<1>7. CASE CloseInterrupted
  <2>1. TypeOK'
    BY <1>7, JournalLength DEF IInv, TypeOK, flags, disk, worker, CloseInterrupted, Reasons
  <2>2. Ordered'
    BY <1>7 DEF IInv, TypeOK, Ordered, Fresh, flags, disk, worker, CloseInterrupted
  <2>3. ParentAt'
    BY <1>7 DEF IInv, TypeOK, ParentAt, Closed, Decodable, flags, disk, worker, CloseInterrupted
  <2>4. WorkerHolds' /\ WorkerAt'
    BY <1>7 DEF IInv, TypeOK, ParentAt, WorkerHolds, WorkerActive, WorkerAt, flags, disk, worker, CloseInterrupted
  <2>5. Lengths' /\ Traced' /\ ClosureBindsJournal' /\ AcceptedIsEvidenced'
    BY <1>7, QuietDisk DEF CloseInterrupted
  <2>6. QED
    BY <2>1, <2>2, <2>3, <2>4, <2>5 DEF IInv
<1> QED
  BY <1>1, <1>2, <1>3, <1>4, <1>5, <1>6, <1>7

LEMMA SettleStep ==
  ASSUME IInv,
         \/ Accept
         \/ Promote
         \/ StopAfterClose
  PROVE  IInv'
<1> USE NStagesAssumption
<1>1. CASE Accept
  <2>1. TypeOK'
    BY <1>1 DEF IInv, TypeOK, Lengths, flags, disk, worker, Accept
  <2>2. Ordered'
    BY <1>1 DEF IInv, TypeOK, Ordered, Fresh, flags, disk, worker, Accept
  <2>3. ParentAt'
    BY <1>1 DEF IInv, TypeOK, ParentAt, Closed, Decodable, flags, disk, worker, Accept
  <2>4. WorkerHolds' /\ WorkerAt'
    BY <1>1 DEF IInv, TypeOK, ParentAt, WorkerHolds, WorkerActive, WorkerAt, flags, disk, worker, Accept
  <2>5. Lengths' /\ Traced' /\ ClosureBindsJournal'
    BY <1>1 DEF IInv, Lengths, Traced, ClosureBindsJournal, Closed, Readable,
                Decodable, disk, Accept
  <2>6. frames[st] \in Seq(Events) /\ Legal(frames[st]) /\ LastFrame(st) \in Outcomes
    BY <1>1 DEF IInv, TypeOK, Accept, Readable, Decodable
  <2>7. calls[st] = 1
    BY <2>6, OutcomeLast DEF IInv, TypeOK, Traced, LastFrame
  <2>8. AcceptedIsEvidenced'
    BY <1>1, <2>7 DEF IInv, TypeOK, ParentAt, AcceptedIsEvidenced, Closed, LastFrame,
                      disk, Accept
  <2>9. QED
    BY <2>1, <2>2, <2>3, <2>4, <2>5, <2>8 DEF IInv
<1>2. CASE Promote
  <2>1. TypeOK'
    <3>1. st' \in Stage
      BY <1>2 DEF IInv, TypeOK, Promote, Stage
    <3>2. QED
      BY <1>2, <3>1 DEF IInv, TypeOK, flags, disk, worker, Promote
  <2>2. Ordered'
    <3>1. CASE st < NStages
      <4>1. st' = st + 1 /\ pc' = "ready" /\ st \in Nat
        BY <1>2, <3>1 DEF IInv, TypeOK, Promote, Stage
      <4>2. ASSUME NEW s \in Stage PROVE s \in Nat
        BY DEF Stage
      <4>3. ASSUME NEW s \in Stage, s > st' \/ s = st' PROVE Fresh(s)'
        BY <1>2, <4>1, <4>2, <4>3 DEF IInv, Ordered, Fresh, Promote, disk
      <4>4. ASSUME NEW s \in Stage, s < st' PROVE accepted'[s] = "outcome_success"
        BY <1>2, <4>1, <4>2, <4>4 DEF IInv, Ordered, Promote
      <4>5. QED
        BY <4>3, <4>4 DEF Ordered
    <3>2. CASE ~(st < NStages)
      BY <1>2, <3>2 DEF IInv, Ordered, Fresh, disk, Promote
    <3>3. QED
      BY <3>1, <3>2
  <2>3. ParentAt'
    BY <1>2 DEF IInv, TypeOK, ParentAt, Closed, Decodable, flags, disk, worker, Promote
  <2>4. WorkerHolds' /\ WorkerAt'
    BY <1>2 DEF IInv, TypeOK, ParentAt, WorkerHolds, WorkerActive, WorkerAt, flags, disk, worker, Promote
  <2>5. Lengths' /\ Traced' /\ ClosureBindsJournal' /\ AcceptedIsEvidenced'
    BY <1>2, QuietDisk DEF Promote
  <2>6. QED
    BY <2>1, <2>2, <2>3, <2>4, <2>5 DEF IInv
<1>3. CASE StopAfterClose
  <2>1. TypeOK'
    BY <1>3 DEF IInv, TypeOK, Lengths, flags, disk, worker, StopAfterClose
  <2>2. Ordered'
    BY <1>3 DEF IInv, TypeOK, Ordered, Fresh, flags, disk, worker, StopAfterClose
  <2>3. ParentAt'
    BY <1>3 DEF IInv, TypeOK, ParentAt, Closed, Decodable, flags, disk, worker, StopAfterClose
  <2>4. WorkerHolds' /\ WorkerAt'
    BY <1>3 DEF IInv, TypeOK, ParentAt, WorkerHolds, WorkerActive, WorkerAt, flags, disk, worker, StopAfterClose
  <2>5. Lengths' /\ Traced' /\ ClosureBindsJournal' /\ AcceptedIsEvidenced'
    BY <1>3, QuietDisk DEF StopAfterClose
  <2>6. QED
    BY <2>1, <2>2, <2>3, <2>4, <2>5 DEF IInv
<1> QED
  BY <1>1, <1>2, <1>3

LEMMA WorkerStep ==
  ASSUME IInv,
         \/ \E e \in Events : WorkerWrite(e)
         \/ WorkerSync
         \/ SdkCall
         \/ WorkerFails
         \/ WorkerReply
         \/ WorkerExit
         \/ WorkerDies
  PROVE  IInv'
<1> USE NStagesAssumption
<1>1. ASSUME NEW e \in Events, WorkerWrite(e) PROVE IInv'
  <2>1. WorkerActive /\ wstage \in Stage /\ wstage = st /\ closure[st].state = "absent"
    BY <1>1 DEF IInv, TypeOK, WorkerHolds, WorkerActive, WorkerWrite, MayAppend
  <2>2. /\ frames' \in [Stage -> Seq(Events)]
        /\ Len(frames'[wstage]) = Len(frames[wstage]) + 1
        /\ frames'[wstage][Len(frames[wstage]) + 1] = e
        /\ \A i \in 1..Len(frames[wstage]) : frames'[wstage][i] = frames[wstage][i]
        /\ \A t \in Stage \ {wstage} : frames'[t] = frames[t]
    <3>1. frames' = [frames EXCEPT ![wstage] = Append(@, e)]
      BY <1>1 DEF WorkerWrite
    <3>2. QED
      BY <2>1, <3>1, AppendFrame
  <2>3. TypeOK'
    BY <1>1, <2>2 DEF IInv, TypeOK, flags, WorkerWrite
  <2>4. Ordered'
    BY <1>1, <2>1, <2>2 DEF IInv, TypeOK, Ordered, Fresh, WorkerHolds, WorkerWrite
  <2>5. ParentAt'
    BY <1>1, <2>1 DEF IInv, ParentAt, WorkerHolds, WorkerWrite
  <2>6. WorkerHolds'
    BY <1>1, <2>1 DEF IInv, WorkerHolds, WorkerActive, WorkerWrite
  <2>7. Len(frames[wstage]) \in Nat /\ synced[wstage] \in Nat
        /\ synced[wstage] <= Len(frames[wstage])
    BY <2>1, JournalLength
  <2>8. \/ /\ Len(frames[wstage]) = 2 /\ calls[wstage] = 0
           /\ e = "sdk_call_boundary"
        \/ /\ Len(frames[wstage]) = 3 /\ calls[wstage] = 1
           /\ e \in {"sdk_return_observed", "sdk_exception_observed"}
        \/ /\ Len(frames[wstage]) = 4 /\ calls[wstage] = 1 /\ e \in Outcomes
    BY <1>1 DEF IInv, WorkerAt, WorkerWrite, MayAppend
  <2>a. \/ /\ Len(frames'[wstage]) = 3 /\ calls[wstage] = 0
           /\ frames'[wstage][3] = "sdk_call_boundary"
        \/ /\ Len(frames'[wstage]) = 4 /\ calls[wstage] = 1
           /\ frames'[wstage][4] \in {"sdk_return_observed", "sdk_exception_observed"}
        \/ /\ Len(frames'[wstage]) = 5 /\ calls[wstage] = 1
           /\ frames'[wstage][5] \in Outcomes
    <3>1. CASE Len(frames[wstage]) = 2 /\ calls[wstage] = 0 /\ e = "sdk_call_boundary"
      BY <2>2, <3>1
    <3>2. CASE /\ Len(frames[wstage]) = 3 /\ calls[wstage] = 1
               /\ e \in {"sdk_return_observed", "sdk_exception_observed"}
      BY <2>2, <3>2
    <3>3. CASE Len(frames[wstage]) = 4 /\ calls[wstage] = 1 /\ e \in Outcomes
      BY <2>2, <3>3
    <3>4. QED
      BY <2>8, <3>1, <3>2, <3>3
  <2>9. WorkerAt'
    <3>1. wpc' = "writing" /\ wstage' = wstage /\ calls' = calls
      BY <1>1 DEF WorkerWrite
    <3>2. QED
      BY <2>a, <3>1 DEF WorkerAt
  <2>10. Sound(wstage)'
    <3>1. synced' = synced /\ wstage' = wstage /\ calls' = calls
      BY <1>1 DEF WorkerWrite
    <3>2. calls[wstage] = 1 =>
             synced[wstage] >= 3 /\ frames[wstage][3] = "sdk_call_boundary"
      BY <2>1 DEF IInv, Traced
    <3>3. calls[wstage] = 1 => frames'[wstage][3] = "sdk_call_boundary"
      BY <2>2, <2>7, <3>2
    <3>4. synced[wstage] <= Len(frames'[wstage])
      BY <2>2, <2>7
    <3>a. Len(frames'[wstage]) = 3 \/ calls[wstage] = 1
      BY <2>a
    <3>b. Len(frames'[wstage]) \in Nat
      BY <2>2, <2>7
    <3>c. ASSUME NEW n \in Nat, n = 3 \/ n = 4 \/ n = 5, NEW c, n = 3 \/ c = 1
          PROVE  n <= 5 /\ (n >= 4 => c = 1)
      BY <3>c
    <3>d. \/ Len(frames'[wstage]) = 3 \/ Len(frames'[wstage]) = 4
          \/ Len(frames'[wstage]) = 5
      BY <2>a
    <3>e. /\ Len(frames'[wstage]) <= 5
          /\ Len(frames'[wstage]) >= 4 => calls[wstage] = 1
      BY <3>a, <3>b, <3>c, <3>d
    <3>5. QED
      BY <3>1, <3>2, <3>3, <3>4, <3>e DEF Sound
  <2>11. Lengths' /\ Traced' /\ ClosureBindsJournal' /\ AcceptedIsEvidenced'
    BY <1>1, <2>1, <2>2, <2>10, OneStage DEF WorkerWrite
  <2>12. QED
    BY <2>3, <2>4, <2>5, <2>6, <2>9, <2>11 DEF IInv
<1>2. CASE WorkerSync
  <2>1. WorkerActive /\ wstage \in Stage /\ wstage = st /\ closure[st].state = "absent"
    BY <1>2 DEF IInv, TypeOK, WorkerHolds, WorkerActive, WorkerSync
  <2>2. /\ Len(frames[wstage]) \in Nat /\ synced[wstage] \in Nat
        /\ synced[wstage] <= Len(frames[wstage]) /\ Len(frames[wstage]) <= 5
    BY <2>1, JournalLength
  <2>3. synced' \in [Stage -> Nat] /\ synced'[wstage] = Len(frames[wstage])
        /\ \A t \in Stage \ {wstage} : synced'[t] = synced[t]
    BY <1>2, <2>1, <2>2 DEF IInv, TypeOK, WorkerSync
  <2>4. wpc' \in {"cleared", "recorded", "observed"}
    BY <1>2 DEF WorkerSync
  <2>5. TypeOK'
    BY <1>2, <2>3, <2>4 DEF IInv, TypeOK, flags, WorkerSync
  <2>6. Ordered'
    BY <1>2, <2>1, <2>3 DEF IInv, Ordered, Fresh, WorkerHolds, TypeOK, WorkerSync
  <2>7. ParentAt'
    BY <1>2, <2>1 DEF IInv, ParentAt, WorkerHolds, WorkerSync
  <2>8. WorkerHolds'
    BY <1>2, <2>1 DEF IInv, WorkerHolds, WorkerSync
  <2>9. WorkerAt'
    <3>1. \/ /\ Len(frames[wstage]) = 3 /\ calls[wstage] = 0
             /\ frames[wstage][3] = "sdk_call_boundary"
          \/ /\ Len(frames[wstage]) = 4 /\ calls[wstage] = 1
             /\ frames[wstage][4] \in {"sdk_return_observed",
                                       "sdk_exception_observed"}
          \/ /\ Len(frames[wstage]) = 5 /\ calls[wstage] = 1
             /\ frames[wstage][5] \in Outcomes
      BY <1>2 DEF IInv, WorkerAt, WorkerSync
    <3>2. /\ Len(frames[wstage]) = 3 => wpc' = "cleared"
          /\ Len(frames[wstage]) = 4 => wpc' = "observed"
          /\ Len(frames[wstage]) = 5 => wpc' = "recorded"
      BY <1>2, <3>1 DEF WorkerSync, LastFrame, Outcomes
    <3>3. frames' = frames /\ wstage' = wstage /\ calls' = calls
      BY <1>2 DEF WorkerSync
    <3>4. QED
      BY <2>3, <3>1, <3>2, <3>3 DEF WorkerAt
  <2>10. Sound(wstage)'
    <3>1. frames' = frames /\ wstage' = wstage /\ calls' = calls
      BY <1>2 DEF WorkerSync
    <3>2. QED
      BY <2>1, <2>2, <2>3, <3>1 DEF IInv, Traced, Sound
  <2>11. Lengths' /\ Traced' /\ ClosureBindsJournal' /\ AcceptedIsEvidenced'
    BY <1>2, <2>1, <2>3, <2>10, OneStage DEF WorkerSync
  <2>12. QED
    BY <2>5, <2>6, <2>7, <2>8, <2>9, <2>11 DEF IInv
<1>3. CASE SdkCall
  <2>1. TypeOK'
    BY <1>3, JournalLength DEF IInv, TypeOK, flags, disk, worker, SdkCall, WorkerAt, WorkerHolds, WorkerActive
  <2>2. Ordered'
    BY <1>3 DEF IInv, TypeOK, Ordered, Fresh, flags, disk, worker, SdkCall, WorkerHolds, WorkerActive, MayAppend
  <2>3. ParentAt'
    BY <1>3 DEF IInv, TypeOK, ParentAt, Closed, Decodable, flags, disk, worker, SdkCall, WorkerHolds, WorkerActive, MayAppend
  <2>4. WorkerHolds' /\ WorkerAt'
    BY <1>3 DEF IInv, TypeOK, ParentAt, WorkerHolds, WorkerActive, WorkerAt, flags, disk, worker, SdkCall, MayAppend
  <2>5. Sound(wstage)'
    BY <1>3, JournalLength DEF IInv, TypeOK, ParentAt, Traced, Sound, flags, disk, worker, SdkCall, WorkerHolds, WorkerActive, WorkerAt, MayAppend, LastFrame
  <2>6. closure[wstage].state = "absent" /\ closure'[wstage].state # "whole"
    BY <1>3 DEF IInv, TypeOK, ParentAt, flags, disk, worker, SdkCall, WorkerHolds, WorkerActive, WorkerAt, MayAppend, LastFrame
  <2>7. Lengths' /\ Traced' /\ ClosureBindsJournal' /\ AcceptedIsEvidenced'
    BY <1>3, <2>5, <2>6, OneStage DEF IInv, TypeOK, flags, disk, worker, SdkCall, MayAppend, WorkerHolds, WorkerActive
  <2>8. QED
    BY <2>1, <2>2, <2>3, <2>4, <2>7 DEF IInv
<1>4. CASE WorkerFails
  <2>1. TypeOK'
    BY <1>4 DEF IInv, TypeOK, Lengths, flags, disk, worker, WorkerFails
  <2>2. Ordered'
    BY <1>4 DEF IInv, TypeOK, Ordered, Fresh, flags, disk, worker, WorkerFails, WorkerHolds, WorkerActive, MayAppend
  <2>3. ParentAt'
    BY <1>4 DEF IInv, TypeOK, ParentAt, Closed, Decodable, flags, disk, worker, WorkerFails, WorkerHolds, WorkerActive, MayAppend
  <2>4. WorkerHolds' /\ WorkerAt'
    BY <1>4 DEF IInv, TypeOK, ParentAt, WorkerHolds, WorkerActive, WorkerAt, flags, disk, worker, WorkerFails, MayAppend
  <2>5. Sound(wstage)'
    BY <1>4, JournalLength DEF IInv, TypeOK, ParentAt, Traced, Sound, flags, disk, worker, WorkerFails, WorkerHolds, WorkerActive, WorkerAt, MayAppend, LastFrame
  <2>6. closure[wstage].state = "absent" /\ closure'[wstage].state # "whole"
    BY <1>4 DEF IInv, TypeOK, ParentAt, flags, disk, worker, WorkerFails, WorkerHolds, WorkerActive, WorkerAt, MayAppend, LastFrame
  <2>7. Lengths' /\ Traced' /\ ClosureBindsJournal' /\ AcceptedIsEvidenced'
    BY <1>4, <2>5, <2>6, OneStage DEF IInv, TypeOK, flags, disk, worker, WorkerFails, MayAppend, WorkerHolds, WorkerActive
  <2>8. QED
    BY <2>1, <2>2, <2>3, <2>4, <2>7 DEF IInv
<1>5. CASE WorkerReply
  <2>1. TypeOK'
    <3>1. reply' \in Outcomes
      BY <1>5 DEF IInv, WorkerReply, WorkerAt, LastFrame
    <3>2. QED
      BY <1>5, <3>1 DEF IInv, TypeOK, flags, disk, worker, WorkerReply
  <2>2. Ordered'
    BY <1>5 DEF IInv, TypeOK, Ordered, Fresh, flags, disk, worker, WorkerReply, WorkerHolds, WorkerActive, MayAppend
  <2>3. ParentAt'
    BY <1>5 DEF IInv, TypeOK, ParentAt, Closed, Decodable, flags, disk, worker, WorkerReply, WorkerHolds, WorkerActive, MayAppend
  <2>4. WorkerHolds' /\ WorkerAt'
    BY <1>5 DEF IInv, TypeOK, ParentAt, WorkerHolds, WorkerActive, WorkerAt, flags, disk, worker, WorkerReply, MayAppend
  <2>5. Lengths' /\ Traced' /\ ClosureBindsJournal' /\ AcceptedIsEvidenced'
    BY <1>5, QuietDisk DEF WorkerReply, worker
  <2>6. QED
    BY <2>1, <2>2, <2>3, <2>4, <2>5 DEF IInv
<1>6. CASE WorkerExit
  <2>1. TypeOK'
    BY <1>6 DEF IInv, TypeOK, Lengths, flags, disk, worker, WorkerExit
  <2>2. Ordered'
    BY <1>6 DEF IInv, TypeOK, Ordered, Fresh, flags, disk, worker, WorkerExit, WorkerHolds, WorkerActive, MayAppend
  <2>3. ParentAt'
    BY <1>6 DEF IInv, TypeOK, ParentAt, Closed, Decodable, flags, disk, worker, WorkerExit, WorkerHolds, WorkerActive, MayAppend
  <2>4. WorkerHolds' /\ WorkerAt'
    BY <1>6 DEF IInv, TypeOK, ParentAt, WorkerHolds, WorkerActive, WorkerAt, flags, disk, worker, WorkerExit, MayAppend
  <2>5. Lengths' /\ Traced' /\ ClosureBindsJournal' /\ AcceptedIsEvidenced'
    BY <1>6, QuietDisk DEF WorkerExit, worker
  <2>6. QED
    BY <2>1, <2>2, <2>3, <2>4, <2>5 DEF IInv
<1>7. CASE WorkerDies
  <2>1. TypeOK'
    <3>1. torn' \in {torn, [torn EXCEPT ![wstage] = TRUE]}
      BY <1>7 DEF WorkerDies
    <3>2. torn' \in [Stage -> BOOLEAN]
      BY <3>1 DEF IInv, TypeOK
    <3>3. QED
      BY <1>7, <3>2 DEF IInv, TypeOK, flags, WorkerDies
  <2>2. Ordered'
    BY <1>7 DEF IInv, TypeOK, Ordered, Fresh, flags, disk, worker, WorkerDies, WorkerHolds, WorkerActive, MayAppend
  <2>3. ParentAt'
    BY <1>7 DEF IInv, TypeOK, ParentAt, Closed, Decodable, flags, disk, worker, WorkerDies, WorkerHolds, WorkerActive, MayAppend
  <2>4. WorkerHolds' /\ WorkerAt'
    BY <1>7 DEF IInv, TypeOK, ParentAt, WorkerHolds, WorkerActive, WorkerAt, flags, disk, worker, WorkerDies, MayAppend
  <2>5. Sound(wstage)'
    BY <1>7, JournalLength DEF IInv, TypeOK, ParentAt, Traced, Sound, flags, disk, worker, WorkerDies, WorkerHolds, WorkerActive, WorkerAt, MayAppend, LastFrame
  <2>6. closure[wstage].state = "absent" /\ closure'[wstage].state # "whole"
    BY <1>7 DEF IInv, TypeOK, ParentAt, flags, disk, worker, WorkerDies, WorkerHolds, WorkerActive, WorkerAt, MayAppend, LastFrame
  <2>7. Lengths' /\ Traced' /\ ClosureBindsJournal' /\ AcceptedIsEvidenced'
    BY <1>7, <2>5, <2>6, OneStage DEF IInv, TypeOK, flags, disk, worker, WorkerDies, MayAppend, WorkerHolds, WorkerActive
  <2>8. QED
    BY <2>1, <2>2, <2>3, <2>4, <2>7 DEF IInv
<1> QED
  BY <1>1, <1>2, <1>3, <1>4, <1>5, <1>6, <1>7

LEMMA CrashStep ==
  ASSUME IInv,
         \/ ParentCrash
         \/ PowerLoss
  PROVE  IInv'
<1> USE NStagesAssumption
<1>1. CASE ParentCrash
  <2>1. TypeOK'
    BY <1>1 DEF IInv, TypeOK, Lengths, flags, disk, worker, ParentCrash, ParentOver
  <2>2. Ordered'
    BY <1>1 DEF IInv, TypeOK, Ordered, Fresh, flags, disk, worker, ParentCrash, ParentOver
  <2>3. ParentAt'
    BY <1>1 DEF IInv, TypeOK, ParentAt, Closed, Decodable, flags, disk, worker, ParentCrash, ParentOver
  <2>4. WorkerHolds' /\ WorkerAt'
    BY <1>1 DEF IInv, TypeOK, ParentAt, WorkerHolds, WorkerActive, WorkerAt, flags, disk, worker, ParentCrash, ParentOver
  <2>5. Lengths' /\ Traced' /\ ClosureBindsJournal' /\ AcceptedIsEvidenced'
    BY <1>1, QuietDisk DEF ParentCrash
  <2>6. QED
    BY <2>1, <2>2, <2>3, <2>4, <2>5 DEF IInv
<1>2. CASE PowerLoss
  <2>1. PICK keep \in [Stage -> 0..5], tear \in SUBSET Stage,
             fate \in [Stage -> {"kept", "gone", "torn"}] :
          /\ \A s \in Stage : keep[s] \in synced[s]..Len(frames[s])
          /\ frames' = [s \in Stage |-> SubSeq(frames[s], 1, keep[s])]
          /\ synced' = keep
          /\ torn' = [s \in Stage |-> s \in tear
                                      /\ (torn[s] \/ keep[s] < Len(frames[s]))]
          /\ closure' = [s \in Stage |-> ClosureAfter(closure[s], fate[s])]
    BY <1>2 DEF PowerLoss
  <2>2. ASSUME NEW s \in Stage
        PROVE  /\ keep[s] \in Nat /\ synced[s] \in Nat /\ Len(frames[s]) \in Nat
               /\ synced[s] <= keep[s] /\ keep[s] <= Len(frames[s]) /\ keep[s] <= 5
               /\ frames[s] \in Seq(Events)
    BY <2>1, JournalLength
  <2>3. ASSUME NEW s \in Stage
        PROVE  /\ frames'[s] \in Seq(Events) /\ Len(frames'[s]) = keep[s]
               /\ \A i \in 1..keep[s] : frames'[s][i] = frames[s][i]
               /\ keep[s] = Len(frames[s]) => frames'[s] = frames[s]
    <3>1. frames'[s] = SubSeq(frames[s], 1, keep[s])
      BY <2>1
    <3>2. /\ SubSeq(frames[s], 1, keep[s]) \in Seq(Events)
          /\ Len(SubSeq(frames[s], 1, keep[s])) = keep[s]
          /\ \A i \in 1..keep[s] : SubSeq(frames[s], 1, keep[s])[i] = frames[s][i]
      BY <2>2
    <3>3. SubSeq(frames[s], 1, Len(frames[s])) = frames[s]
      BY <2>2
    <3>4. QED
      BY <3>1, <3>2, <3>3
  <2>4. ASSUME NEW s \in Stage
        PROVE  /\ closure'[s] \in [state : {"absent", "torn", "whole"}, durable : BOOLEAN,
                                   reason : Reasons \cup {"none"}, head : Seq(Events)]
               /\ closure[s].state = "absent" \/ closure[s].durable
                    => closure'[s] = closure[s]
               /\ Closed(s)' => closure'[s] = closure[s]
    <3>1. closure'[s] = ClosureAfter(closure[s], fate[s])
      BY <2>1
    <3>2. NoClosure \in [state : {"absent", "torn", "whole"}, durable : BOOLEAN,
                         reason : Reasons \cup {"none"}, head : Seq(Events)]
      <4>1. <<>> \in Seq(Events)
        OBVIOUS
      <4>2. QED
        BY <4>1 DEF NoClosure
    <3>3. closure[s] \in [state : {"absent", "torn", "whole"}, durable : BOOLEAN,
                          reason : Reasons \cup {"none"}, head : Seq(Events)]
      BY DEF IInv, TypeOK
    <3>4. CASE closure[s].durable \/ closure[s].state = "absent" \/ fate[s] = "kept"
      BY <3>1, <3>3, <3>4 DEF ClosureAfter
    <3>5. CASE /\ ~(closure[s].durable \/ closure[s].state = "absent" \/ fate[s] = "kept")
               /\ fate[s] = "gone"
      BY <3>1, <3>2, <3>5 DEF ClosureAfter, NoClosure, Closed
    <3>6. CASE /\ ~(closure[s].durable \/ closure[s].state = "absent" \/ fate[s] = "kept")
               /\ fate[s] # "gone"
      BY <3>1, <3>3, <3>6 DEF ClosureAfter, Closed
    <3>7. QED
      BY <3>4, <3>5, <3>6
  <2>5. TypeOK'
    <3>1. frames' \in [Stage -> Seq(Events)] /\ torn' \in [Stage -> BOOLEAN]
      BY <2>1, <2>3
    <3>2. synced' \in [Stage -> Nat]
      BY <2>1, <2>2
    <3>3. closure' \in [Stage -> [state : {"absent", "torn", "whole"}, durable : BOOLEAN,
                                  reason : Reasons \cup {"none"}, head : Seq(Events)]]
      BY <2>1, <2>4
    <3>4. QED
      BY <1>2, <3>1, <3>2, <3>3 DEF IInv, TypeOK, PowerLoss, flags
  <2>6. Ordered'
    <3>1. ASSUME NEW s \in Stage, Fresh(s) PROVE Fresh(s)'
      <4>1. frames[s] = <<>> /\ ~torn[s] /\ synced[s] = 0 /\ closure[s] = NoClosure
            /\ calls[s] = 0 /\ accepted[s] = "none"
        BY <3>1 DEF Fresh
      <4>2. Len(frames[s]) = 0
        BY <4>1
      <4>3. keep[s] = Len(frames[s])
        BY <2>2, <4>2
      <4>4. frames'[s] = <<>> /\ synced'[s] = 0
        BY <2>1, <2>3, <4>1, <4>2, <4>3
      <4>a. ~(keep[s] < Len(frames[s]))
        BY <2>2, <4>3
      <4>b. ~torn'[s]
        BY <2>1, <4>1, <4>a
      <4>5. closure'[s] = NoClosure
        BY <2>4, <4>1 DEF NoClosure
      <4>6. QED
        BY <1>2, <4>1, <4>4, <4>b, <4>5 DEF Fresh, PowerLoss
    <3>2. QED
      BY <1>2, <3>1 DEF IInv, Ordered, PowerLoss
  <2>7. ParentAt' /\ WorkerHolds' /\ WorkerAt'
    <3>1. pc' = "crashed" /\ wpc' \in {"off", "died"}
      BY <1>2 DEF PowerLoss
    <3>2. QED
      BY <3>1 DEF ParentAt, WorkerHolds, WorkerActive, WorkerAt
  <2>8. Lengths' /\ Traced'
    <3>1. ASSUME NEW s \in Stage
          PROVE  /\ (synced[s] <= Len(frames[s]) /\ Len(frames[s]) <= 5)'
                 /\ calls[s] = 1 => (synced[s] >= 3 /\ frames[s][3] = "sdk_call_boundary")'
                 /\ Len(frames'[s]) >= 4 => calls[s] = 1
      <4>1. synced'[s] = keep[s] /\ Len(frames'[s]) = keep[s]
        BY <2>1, <2>3
      <4>2. (synced[s] <= Len(frames[s]) /\ Len(frames[s]) <= 5)'
        BY <2>2, <4>1
      <4>3. /\ calls[s] = 1 => synced[s] >= 3 /\ frames[s][3] = "sdk_call_boundary"
            /\ Len(frames[s]) >= 4 => calls[s] = 1
        BY DEF IInv, Traced
      <4>4. calls[s] = 1 => keep[s] >= 3 /\ frames'[s][3] = "sdk_call_boundary"
        BY <2>2, <2>3, <4>3
      <4>5. Len(frames'[s]) >= 4 => calls[s] = 1
        BY <2>2, <4>1, <4>3
      <4>6. QED
        BY <4>1, <4>2, <4>4, <4>5
    <3>2. calls' = calls
      BY <1>2 DEF PowerLoss
    <3>3. QED
      BY <3>1, <3>2 DEF Lengths, Traced
  <2>9. ASSUME NEW s \in Stage, Closed(s)
        PROVE  /\ Readable(s) /\ frames'[s] = frames[s] /\ ~torn'[s]
               /\ synced'[s] = Len(frames'[s])
    <3>1. Readable(s) /\ synced[s] = Len(frames[s])
      BY <2>9 DEF IInv, ClosureBindsJournal
    <3>2. keep[s] = Len(frames[s])
      BY <2>2, <3>1
    <3>3. frames'[s] = frames[s] /\ synced'[s] = Len(frames'[s])
      BY <2>1, <2>3, <3>2
    <3>4. ~(keep[s] < Len(frames[s])) /\ ~torn[s]
      BY <2>2, <3>1, <3>2 DEF Readable, Decodable
    <3>5. QED
      BY <2>1, <3>1, <3>3, <3>4
  <2>10. ClosureBindsJournal'
    <3>1. ASSUME NEW s \in Stage, Closed(s)'
          PROVE  (Readable(s) /\ synced[s] = Len(frames[s]))'
      <4>1. closure'[s] = closure[s] /\ Closed(s)
        BY <2>4, <3>1 DEF Closed
      <4>2. QED
        BY <2>9, <4>1 DEF Readable, Decodable, Closed
    <3>2. QED
      BY <3>1 DEF ClosureBindsJournal
  <2>11. AcceptedIsEvidenced'
    <3>1. calls' = calls /\ accepted' = accepted
      BY <1>2 DEF PowerLoss
    <3>2. ASSUME NEW s \in Stage, accepted[s] # "none"
          PROVE  closure'[s] = closure[s] /\ frames'[s] = frames[s]
      BY <2>4, <2>9, <3>2 DEF IInv, AcceptedIsEvidenced
    <3>3. QED
      BY <3>1, <3>2 DEF IInv, AcceptedIsEvidenced, Closed, LastFrame
  <2>12. QED
    BY <2>5, <2>6, <2>7, <2>8, <2>10, <2>11 DEF IInv
<1> QED
  BY <1>1, <1>2

\* What a power loss may take is never part of a closed journal.
LEMMA LossKeepsClosed ==
  ASSUME IInv, PowerLoss, NEW s \in Stage, Closed(s)
  PROVE  frames'[s] = frames[s] /\ torn'[s] = torn[s]
<1>1. PICK keep \in [Stage -> 0..5], tear \in SUBSET Stage :
        /\ keep[s] \in synced[s]..Len(frames[s])
        /\ frames'[s] = SubSeq(frames[s], 1, keep[s])
        /\ torn'[s] = (s \in tear /\ (torn[s] \/ keep[s] < Len(frames[s])))
  BY DEF PowerLoss
<1>2. /\ frames[s] \in Seq(Events) /\ Len(frames[s]) \in Nat /\ synced[s] \in Nat
  BY JournalLength
<1>3. synced[s] = Len(frames[s]) /\ ~torn[s]
  BY DEF IInv, ClosureBindsJournal, Readable, Decodable
<1>4. keep[s] = Len(frames[s]) /\ ~(keep[s] < Len(frames[s]))
  BY <1>1, <1>2, <1>3
<1>5. SubSeq(frames[s], 1, Len(frames[s])) = frames[s]
  BY <1>2
<1>6. torn \in [Stage -> BOOLEAN]
  BY DEF IInv, TypeOK
<1>7. QED
  BY <1>1, <1>3, <1>4, <1>5, <1>6

-----------------------------------------------------------------------------
(* The invariant and what follows from it.                                 *)

LEMMA InitIInv == Init => IInv
<1> USE NStagesAssumption
<1> SUFFICES ASSUME Init PROVE IInv
  OBVIOUS
<1>1. 1 \in Stage /\ \A s \in Stage : ~(s < 1)
  BY DEF Stage
<1>2. \A s \in Stage : Fresh(s)
  BY DEF Init, Fresh
<1>3. <<>> \in Seq(Events) /\ Len(<<>>) = 0
  OBVIOUS
<1>4. NoClosure \in [state : {"absent", "torn", "whole"}, durable : BOOLEAN,
                     reason : Reasons \cup {"none"}, head : Seq(Events)]
  BY <1>3 DEF NoClosure
<1>10. TypeOK
  <2>1. frames \in [Stage -> Seq(Events)] /\ closure \in [Stage -> [
          state : {"absent", "torn", "whole"}, durable : BOOLEAN,
          reason : Reasons \cup {"none"}, head : Seq(Events)]]
    BY <1>3, <1>4 DEF Init
  <2>2. torn \in [Stage -> BOOLEAN] /\ synced \in [Stage -> Nat]
        /\ calls \in [Stage -> 0..1] /\ accepted \in [Stage -> Outcomes \cup {"none"}]
    BY DEF Init
  <2>3. QED
    BY <1>1, <2>1, <2>2 DEF Init, TypeOK
<1>5. Ordered
  BY <1>1, <1>2 DEF Init, Ordered
<1>6. Lengths /\ Traced
  BY <1>3 DEF Init, Lengths, Traced
<1>7. ParentAt /\ WorkerHolds /\ WorkerAt
  BY DEF Init, ParentAt, WorkerHolds, WorkerActive, WorkerAt
<1>8. ClosureBindsJournal /\ AcceptedIsEvidenced
  BY DEF Init, ClosureBindsJournal, AcceptedIsEvidenced, Closed, NoClosure
<1>9. QED
  BY <1>5, <1>6, <1>7, <1>8, <1>10 DEF IInv

LEMMA StutterStep == ASSUME IInv, UNCHANGED vars PROVE IInv'
BY DEF IInv, vars, TypeOK, Lengths, Ordered, Fresh, ParentAt, WorkerHolds, WorkerActive,
       WorkerAt, Traced, ClosureBindsJournal, AcceptedIsEvidenced, Closed, Readable,
       Decodable, LastFrame

LEMMA NextIInv == IInv /\ [Next]_vars => IInv'
<1> SUFFICES ASSUME IInv, [Next]_vars PROVE IInv'
  OBVIOUS
<1>1. CASE ParentReserve
  BY <1>1, ReserveStep DEF ParentReserve
<1>2. CASE ParentPermit
  BY <1>2, PermitStep DEF ParentPermit
<1>3. CASE ParentLaunch
  BY <1>3, LaunchStep DEF ParentLaunch, Reasons
<1>4. CASE ParentCollect
  BY <1>4, CollectStep DEF ParentCollect, Reasons
<1>5. CASE ParentClose
  BY <1>5, CloseStep DEF ParentClose
<1>6. CASE ParentSettle
  BY <1>6, SettleStep DEF ParentSettle
<1>7. CASE Worker
  BY <1>7, WorkerStep DEF Worker
<1>8. CASE ParentCrash \/ PowerLoss
  BY <1>8, CrashStep
<1>9. CASE Terminated \/ UNCHANGED vars
  BY <1>9, StutterStep DEF Terminated
<1>10. QED
  BY <1>1, <1>2, <1>3, <1>4, <1>5, <1>6, <1>7, <1>8, <1>9 DEF Next, Parent

\* The inductive invariant holds in every reachable state.
THEOREM Invariance == Spec => []IInv
<1>1. IInv /\ [Next]_vars => IInv'
  BY NextIInv
<1>2. QED
  BY InitIInv, <1>1, PTL DEF Spec

\* Journals, closures and control states stay within their types.
THEOREM TypeCorrect == Spec => []TypeOK
<1>1. IInv => TypeOK
  BY DEF IInv
<1>2. QED
  BY Invariance, <1>1, PTL

\* inspect never calls an attempt safe to retry that was dispatched, or that a
\* live worker could still dispatch.
THEOREM SafeIsSafe == Spec => []SafeNeverDispatched
<1>1. IInv => SafeNeverDispatched
  <2> SUFFICES ASSUME IInv, NEW s \in Stage, RetrySafety(s) = "safe_not_dispatched"
               PROVE  calls[s] = 0 /\ ~(WorkerActive /\ wstage = s)
    BY DEF SafeNeverDispatched
  <2>1. Closed(s) /\ Readable(s) /\ Len(frames[s]) = 1
    BY DEF RetrySafety, Readable
  <2>2. synced[s] <= 1 /\ synced[s] \in Nat
    BY <2>1, JournalLength
  <2>3. calls[s] # 1
    BY <2>2 DEF IInv, Traced
  <2>4. calls[s] \in 0..1
    BY DEF IInv, TypeOK
  <2>5. ~(WorkerActive /\ wstage = s)
    BY <2>1 DEF IInv, WorkerHolds, Closed
  <2>6. QED
    BY <2>3, <2>4, <2>5
<1>2. QED
  BY Invariance, <1>1, PTL

\* No loss of storage hides an SDK call that was made.
THEOREM DispatchTraced == Spec => []DispatchLeavesTrace
<1>1. IInv => DispatchLeavesTrace
  <2> SUFFICES ASSUME IInv, NEW s \in Stage, calls[s] > 0
               PROVE  synced[s] >= 3 /\ frames[s][3] = "sdk_call_boundary"
    BY DEF DispatchLeavesTrace
  <2>1. calls[s] = 1
    BY DEF IInv, TypeOK
  <2>2. QED
    BY <2>1 DEF IInv, Traced
<1>2. QED
  BY Invariance, <1>1, PTL

\* A closure always binds the journal beside it.
THEOREM ClosureBinds == Spec => []ClosureBindsJournal
<1>1. IInv => ClosureBindsJournal
  BY DEF IInv
<1>2. QED
  BY Invariance, <1>1, PTL

\* An accepted outcome is carried by a durable closed journal and one SDK call.
THEOREM AcceptedEvidenced == Spec => []AcceptedIsEvidenced
<1>1. IInv => AcceptedIsEvidenced
  BY DEF IInv
<1>2. QED
  BY Invariance, <1>1, PTL

\* Evidence of a stage exists only after every earlier stage succeeded.
THEOREM InOrder == Spec => []EvidenceInOrder
<1>1. IInv => EvidenceInOrder
  <2> SUFFICES ASSUME IInv, NEW s \in Stage, frames[s] # <<>> \/ torn[s],
                      NEW t \in 1..s - 1
               PROVE  accepted[t] = "outcome_success"
    BY DEF EvidenceInOrder
  <2>1. s \in Nat /\ st \in Nat /\ t \in Stage /\ t < s
    BY NStagesAssumption DEF IInv, TypeOK, Stage
  <2>2. s <= st
    BY <2>1 DEF IInv, Ordered, Fresh
  <2>3. QED
    BY <2>1, <2>2 DEF IInv, Ordered
<1>2. QED
  BY Invariance, <1>1, PTL

\* The frames of a closed journal are never extended, torn or lost again.
THEOREM Frozen == Spec => ClosedJournalFrozen
<1>1. IInv /\ [Next]_vars => [ClosedUntouched]_vars
  <2> SUFFICES ASSUME IInv, Next, NEW s \in Stage, Closed(s)
               PROVE  frames'[s] = frames[s] /\ torn'[s] = torn[s]
    BY DEF ClosedUntouched
  <2>1. CASE Worker
    <3>1. ~(WorkerActive /\ wstage = s)
      BY DEF IInv, WorkerHolds, Closed
    <3>2. (frames' = frames /\ torn' = torn) \/ (WorkerActive /\ wstage # s)
      BY <2>1, <3>1 DEF Worker, WorkerWrite, WorkerSync, SdkCall, WorkerFails, WorkerReply,
         WorkerExit, WorkerDies, WorkerActive, MayAppend, disk
    <3>3. WorkerActive => wstage = st
      BY DEF IInv, WorkerHolds
    <3>4. QED
      BY <2>1, <3>1, <3>2, <3>3 DEF IInv, TypeOK, Worker, WorkerWrite, WorkerSync, SdkCall,
         WorkerFails, WorkerReply, WorkerExit, WorkerDies, disk
  <2>2. CASE Parent
    <3>1. pc \in {"ready", "creating", "prepared", "permitting"} => s # st
      BY DEF IInv, ParentAt, Ordered, Fresh, Closed, NoClosure
    <3>2. CASE ParentReserve
      BY <3>1, <3>2 DEF IInv, TypeOK, ParentReserve, CreateWrite, CreateFails, CreateSync,
         StopBeforeLaunch, disk
    <3>3. CASE ParentPermit
      BY <3>1, <3>3 DEF IInv, TypeOK, ParentPermit, PermitWrite, PermitFails, PermitSync
    <3>4. CASE ParentLaunch
      BY <3>4 DEF ParentLaunch, HandoffFails, SpawnRefused, Launch, LaunchFails, disk
    <3>5. CASE ParentCollect
      BY <3>5 DEF ParentCollect, Collect, Abort, Drain, GiveUp, disk
    <3>6. CASE ParentClose
      BY <3>6 DEF ParentClose, CloseSync, CloseRefused, PublishWrite, PublishSync,
         OpenClosureFails, CloseInterrupted, CloseFails, disk
    <3>7. CASE ParentSettle
      BY <3>7 DEF ParentSettle, Accept, Promote, StopAfterClose, disk
    <3>8. QED
      BY <2>2, <3>2, <3>3, <3>4, <3>5, <3>6, <3>7 DEF Parent
  <2>3. CASE PowerLoss
    BY <2>3, LossKeepsClosed DEF IInv
  <2>4. CASE ParentCrash \/ Terminated
    BY <2>4 DEF ParentCrash, Terminated, disk, vars
  <2>5. QED
    BY <2>1, <2>2, <2>3, <2>4 DEF Next
<1>2. QED
  BY Invariance, <1>1, PTL DEF Spec, ClosedJournalFrozen
-----------------------------------------------------------------------------
(* Why a stopped parent left its attempt open.                             *)

\* What the parent knows of its worker at each place, and that the journal it
\* is about to close is legal unless it is torn.
Stops ==
  /\ pc \notin {"ready", "stopped", "finished", "crashed"} => Legal(frames[st])
  /\ pc \in {"prepared", "permitting", "permitted"} => reaping = "unstarted"
  /\ pc = "permitted" => granted
  /\ pc \in {"collecting", "draining"} => reaping = "uncertain"
  /\ pc \in {"syncing_closure", "closed", "settled"} => Closed(st)
  /\ OpenOnlyWhenUnprovable

\* A legal journal stays legal when one event that may follow is appended.
LEMMA LegalAppend ==
  ASSUME NEW fs \in Seq(Events), NEW gs \in Seq(Events), Legal(fs),
         Len(gs) = Len(fs) + 1, Len(gs) <= 5,
         \A i \in 1..Len(fs) : gs[i] = fs[i],
         gs[Len(fs) + 1] \in Follows(fs[Len(fs)])
  PROVE  Legal(gs)
<1> DEFINE n == Len(fs)
<1>1. /\ n \in Nat /\ n >= 1 /\ fs[1] = "attempt_prepared"
      /\ \A i \in 1..n - 1 : fs[i + 1] \in Follows(fs[i])
  BY LenProperties DEF Legal
<1>2. Len(gs) = n + 1 /\ n + 1 <= 5 /\ gs[n + 1] \in Follows(fs[n])
      /\ \A i \in 1..n : gs[i] = fs[i]
  OBVIOUS
<1> HIDE DEF n
<1>3. Len(gs) \in 1..5 /\ gs[1] = "attempt_prepared"
  BY <1>1, <1>2
<1>4. ASSUME NEW i \in 1..n PROVE gs[i + 1] \in Follows(gs[i])
  <2>1. CASE i = n
    BY <1>1, <1>2, <2>1
  <2>2. CASE i # n
    <3>1. i \in 1..n - 1 /\ i + 1 \in 1..n
      BY <1>1, <2>2
    <3> QED
      BY <1>1, <1>2, <3>1
  <2> QED
    BY <2>1, <2>2
<1>5. Len(gs) - 1 = n
  BY <1>1, <1>2
<1> QED
  BY <1>3, <1>4, <1>5 DEF Legal

\* The event a writer appends to the journal of the current stage.
LEMMA AppendStaysLegal ==
  ASSUME IInv, IInv', NEW e \in Events, Legal(frames[st]),
         e \in Follows(LastFrame(st)),
         frames' = [frames EXCEPT ![st] = Append(@, e)]
  PROVE  Legal(frames'[st])
<1>1. st \in Stage
  BY DEF IInv, TypeOK
<1>2. /\ frames[st] \in Seq(Events) /\ frames'[st] \in Seq(Events)
      /\ Len(frames'[st]) = Len(frames[st]) + 1
      /\ frames'[st][Len(frames[st]) + 1] = e
      /\ \A i \in 1..Len(frames[st]) : frames'[st][i] = frames[st][i]
  BY <1>1, AppendFrame, JournalLength
<1>3. Len(frames'[st]) <= 5
  BY <1>1 DEF IInv, Lengths
<1> QED
  BY <1>2, <1>3, LegalAppend DEF LastFrame

LEMMA StopsStep ==
  ASSUME IInv, IInv', Stops, [Next]_vars
  PROVE  Stops'
<1> USE DEF Stops, OpenOnlyWhenUnprovable, Closed, disk, flags, worker
<1>1. st \in Stage /\ torn \in [Stage -> BOOLEAN]
  BY DEF IInv, TypeOK
<1>2. CASE ParentReserve
  <2>1. CASE CreateWrite
    <3>1. frames'[st] = <<"attempt_prepared">>
      BY <1>1, <2>1 DEF CreateWrite, IInv, TypeOK
    <3>2. Legal(frames'[st])
      BY <3>1 DEF Legal
    <3> QED
      BY <2>1, <3>2 DEF CreateWrite
  <2>2. CASE CreateFails
    BY <2>2 DEF CreateFails
  <2>3. CASE CreateSync
    BY <2>3 DEF CreateSync
  <2>4. CASE StopBeforeLaunch
    BY <2>4 DEF StopBeforeLaunch
  <2> QED
    BY <1>2, <2>1, <2>2, <2>3, <2>4 DEF ParentReserve
<1>3. CASE ParentPermit
  <2>1. CASE PermitWrite
    <3>1. Legal(frames'[st])
      BY <2>1, AppendStaysLegal DEF PermitWrite, Events
    <3> QED
      BY <2>1, <3>1 DEF PermitWrite
  <2>2. CASE PermitFails
    BY <2>2 DEF PermitFails
  <2>3. CASE PermitSync
    BY <2>3 DEF PermitSync
  <2> QED
    BY <1>3, <2>1, <2>2, <2>3 DEF ParentPermit
<1>4. CASE ParentLaunch
  <2>1. CASE HandoffFails
    BY <2>1 DEF HandoffFails
  <2>2. CASE Launch
    BY <2>2 DEF Launch
  <2>3. CASE LaunchFails
    BY <2>3 DEF LaunchFails
  <2>4. CASE \E r \in {"infrastructure", "interrupted"} : SpawnRefused(r)
    BY <2>4 DEF SpawnRefused
  <2> QED
    BY <1>4, <2>1, <2>2, <2>3, <2>4 DEF ParentLaunch
<1>5. CASE ParentCollect
  BY <1>5 DEF ParentCollect, Collect, Drain, GiveUp, Abort
<1>6. CASE ParentClose
  <2>1. CASE CloseSync
    BY <2>1 DEF CloseSync
  <2>2. CASE CloseRefused
    BY <2>2 DEF CloseRefused, Decodable
  <2>3. CASE PublishWrite
    BY <1>1, <2>3 DEF PublishWrite, IInv, TypeOK
  <2>4. CASE PublishSync
    <3>1. closure'[st].state = closure[st].state
      BY <1>1, <2>4 DEF PublishSync, IInv, TypeOK
    <3> QED
      BY <2>4, <3>1 DEF PublishSync
  <2>5. CASE OpenClosureFails
    BY <2>5 DEF OpenClosureFails
  <2>6. CASE CloseFails
    BY <2>6 DEF CloseFails
  <2>7. CASE CloseInterrupted
    BY <2>7 DEF CloseInterrupted
  <2> QED
    BY <1>6, <2>1, <2>2, <2>3, <2>4, <2>5, <2>6, <2>7 DEF ParentClose
<1>7. CASE ParentSettle
  BY <1>7 DEF ParentSettle, Accept, Promote, StopAfterClose
<1>8. CASE Worker
  <2>1. WorkerActive => wstage = st
    BY DEF IInv, WorkerHolds
  <2>2. /\ UNCHANGED <<closure, pc, st, flags, ioFault>>
        /\ torn' = torn \/ (WorkerActive /\ torn' = [torn EXCEPT ![wstage] = TRUE])
    BY <1>8 DEF Worker, WorkerWrite, WorkerSync, SdkCall, WorkerFails, WorkerReply,
                WorkerExit, WorkerDies, WorkerActive
  <2>3. torn[st] => torn'[st]
    BY <1>1, <2>1, <2>2
  <2>4. Legal(frames[st]) => Legal(frames'[st])
    <3>1. CASE \E e \in Events : WorkerWrite(e)
      <4>1. PICK e \in Events : WorkerWrite(e)
        BY <3>1
      <4>2. wstage = st
        BY <2>1, <4>1 DEF WorkerWrite, MayAppend, WorkerActive
      <4> QED
        BY <4>1, <4>2, AppendStaysLegal DEF WorkerWrite
    <3>2. CASE UNCHANGED frames
      BY <2>2, <3>2
    <3> QED
      BY <1>8, <3>1, <3>2 DEF Worker, WorkerSync, SdkCall, WorkerFails, WorkerReply,
                              WorkerExit, WorkerDies
  <2> QED
    BY <2>2, <2>3, <2>4
<1>9. CASE ParentCrash \/ PowerLoss
  BY <1>9 DEF ParentCrash, PowerLoss
<1>10. CASE Terminated \/ UNCHANGED vars
  BY <1>10 DEF Terminated, vars
<1> QED
  BY <1>2, <1>3, <1>4, <1>5, <1>6, <1>7, <1>8, <1>9, <1>10 DEF Next, Parent

\* A parent that stopped without storage faults left its attempt open only for
\* one of three reasons: it cannot know that its worker is gone, the journal is
\* torn, or the hand-over failed after the grant (_execute_stage's finally).
THEOREM OpenForReason == Spec => []OpenOnlyWhenUnprovable
<1>1. Init => Stops
  BY DEF Init, Stops, OpenOnlyWhenUnprovable
<1>2. IInv /\ IInv' /\ Stops /\ [Next]_vars => Stops'
  BY StopsStep
<1>3. Spec => []Stops
  BY <1>1, <1>2, Invariance, PTL DEF Spec
<1>4. Stops => OpenOnlyWhenUnprovable
  BY DEF Stops
<1> QED
  BY <1>3, <1>4, PTL
=============================================================================
