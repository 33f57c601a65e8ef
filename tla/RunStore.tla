------------------------------ MODULE RunStore ------------------------------
(***************************************************************************)
(* The birth of a run directory: ArtifactStore.__init__ (artifacts.py) of  *)
(* several processes that construct a store for the same run_id at once.   *)
(* A constructor builds a private staging directory and publishes it with  *)
(* one rename; if it is interrupted, or anything fails, it discards its    *)
(* staging directory and rolls back the canonical one if that is its own   *)
(* publication, which it tells by the inode of its staging directory.  The *)
(* store it returns keeps raw outputs within its limit (RawEvidence).      *)
(*                                                                         *)
(* A directory is named by the constructor that made it.  An inode number  *)
(* is free again as soon as its directory is gone.  The entries of a       *)
(* directory are removed in one step; rmtree opens the directory first, so *)
(* it empties the one it opened, and removes by name whatever is empty.    *)
(***************************************************************************)
EXTENDS RawEvidence

CONSTANTS
  NConstructors,  \* constructors of one run_id
  NInodes,        \* inode numbers of the file system
  MaxFaults,      \* bound: interrupts and OSErrors
  Texts,          \* raw outputs
  Limits          \* max_raw_evidence_bytes

Constructor == 1..NConstructors
Inode == 1..NInodes

ASSUME StoreAssumption ==
  /\ NConstructors \in Nat /\ NInodes \in Nat /\ MaxFaults \in Nat
  /\ Limits \subseteq Nat \ {0}

ASSUME TextAssumption ==
  \A text \in Texts : IsFiniteSet(text.ends) /\ text.ends \subseteq Nat

VARIABLES
  pc,
  place,     \* where each constructor's directory is
  whole,     \* its roles and run_spec.json are there
  inode,     \* its inode number
  identity,  \* staging_identity of the constructor, 0 for None
  evidence,  \* a raw output the returned store keeps, or NoEvidence
  faults,
  \* history
  seen,      \* the canonical directories that met the constructor's own one
  victim,    \* the directory the constructor rolled back, 0 for none
  spoiled    \* a fault took its identity, or cut its cleanup short

tree == <<place, whole, inode>>
vars == <<pc, place, whole, inode, identity, evidence, faults, seen, victim,
          spoiled>>

NoEvidence == [limit |-> 0]

Canonical == {c \in Constructor : place[c] = "canonical"}
Taken == {inode[c] : c \in {d \in Constructor : place[d] # "none"}}

Ended == \A c \in Constructor : pc[c] \in {"raised", "returned"}

Goto(c, l) == pc' = [pc EXCEPT ![c] = l]

-----------------------------------------------------------------------------
(* The constructor.                                                        *)

\* The first check is outside the try block: nothing to clean up.
CheckAbsent(c) ==
  /\ pc[c] = "checking"
  /\ Goto(c, IF Canonical # {} THEN "raised" ELSE "making")
  /\ UNCHANGED <<tree, identity, evidence, faults, seen, victim, spoiled>>

MakeStaging(c) ==
  /\ pc[c] = "making"
  /\ \E i \in Inode \ Taken : inode' = [inode EXCEPT ![c] = i]
  /\ place' = [place EXCEPT ![c] = "staging"]
  /\ seen' = [seen EXCEPT ![c] = @ \cup Canonical]
  /\ Goto(c, "filling")
  /\ UNCHANGED <<whole, identity, evidence, faults, victim, spoiled>>

FillStaging(c) ==
  /\ pc[c] = "filling"
  /\ whole' = [whole EXCEPT ![c] = TRUE]
  /\ Goto(c, "rechecking")
  /\ UNCHANGED <<place, inode, identity, evidence, faults, seen, victim, spoiled>>

RecheckAbsent(c) ==
  /\ pc[c] = "rechecking"
  /\ Goto(c, IF Canonical # {} THEN "discarding" ELSE "identifying")
  /\ UNCHANGED <<tree, identity, evidence, faults, seen, victim, spoiled>>

CaptureIdentity(c) ==
  /\ pc[c] = "identifying"
  /\ identity' = [identity EXCEPT ![c] = inode[c]]
  /\ Goto(c, "renaming")
  /\ UNCHANGED <<tree, evidence, faults, seen, victim, spoiled>>

\* _directory_identity swallows an OSError of its own: no identity, and the
\* constructor goes on.
CannotIdentify(c) ==
  /\ pc[c] = "identifying"
  /\ faults < MaxFaults /\ faults' = faults + 1
  /\ spoiled' = [spoiled EXCEPT ![c] = TRUE]
  /\ Goto(c, "renaming")
  /\ UNCHANGED <<tree, identity, evidence, seen, victim>>

\* Mutant: the directory is published before it is filled.
PublishEarly(c) ==
  /\ pc[c] \in {"filling", "renaming"}
  /\ IF \E d \in Canonical : whole[d]
     THEN Goto(c, "discarding") /\ UNCHANGED <<place, seen>>
     ELSE /\ place' = [d \in Constructor |->
                         IF d = c THEN "canonical"
                         ELSE IF d \in Canonical THEN "none" ELSE place[d]]
          /\ Goto(c, "published") /\ UNCHANGED seen
  /\ UNCHANGED <<whole, inode, identity, evidence, faults, victim, spoiled>>

\* rename(2): a directory with entries is in the way, an empty one (what a
\* rollback has left) is replaced.
Publish(c) ==
  /\ pc[c] = "renaming"
  /\ IF \E d \in Canonical : whole[d]
     THEN Goto(c, "discarding") /\ UNCHANGED <<place, seen>>
     ELSE /\ place' = [d \in Constructor |->
                         IF d = c THEN "canonical"
                         ELSE IF d \in Canonical THEN "none" ELSE place[d]]
          /\ seen' = [d \in Constructor |->
                        IF d # c /\ place[d] = "staging" THEN seen[d] \cup {c}
                        ELSE seen[d]]
          /\ Goto(c, "published")
  /\ UNCHANGED <<whole, inode, identity, evidence, faults, victim, spoiled>>

Return(c) ==
  /\ pc[c] = "published"
  /\ Goto(c, "returned")
  /\ UNCHANGED <<tree, identity, evidence, faults, seen, victim, spoiled>>

-----------------------------------------------------------------------------
(* Failure: _cleanup_failed_constructor.                                   *)

\* An interrupt or an OSError anywhere in the try block, the place between the
\* rename and the next opcode included.
Fail(c) ==
  /\ pc[c] \in {"making", "filling", "rechecking", "identifying", "renaming",
                "published"}
  /\ faults < MaxFaults /\ faults' = faults + 1
  /\ Goto(c, "discarding")
  /\ UNCHANGED <<tree, identity, evidence, seen, victim, spoiled>>

\* _discard_constructor_staging: only the staging directory, if it is there.
DiscardStaging(c) ==
  /\ pc[c] = "discarding"
  /\ IF place[c] = "staging"
     THEN /\ place' = [place EXCEPT ![c] = "none"]
          /\ whole' = [whole EXCEPT ![c] = FALSE]
     ELSE UNCHANGED <<place, whole>>
  /\ Goto(c, "comparing")
  /\ UNCHANGED <<inode, identity, evidence, faults, seen, victim, spoiled>>

\* Mutant: whatever is at the canonical path is rolled back.
CompareNothing(c) ==
  /\ pc[c] = "comparing"
  /\ IF Canonical # {}
     THEN /\ victim' = [victim EXCEPT ![c] = CHOOSE d \in Canonical : TRUE]
          /\ Goto(c, "emptying")
     ELSE Goto(c, "raised") /\ UNCHANGED victim
  /\ UNCHANGED <<tree, identity, evidence, faults, seen, spoiled>>

\* Mutant: only the staging directory is cleaned up.
CompareNever(c) ==
  /\ pc[c] = "comparing"
  /\ Goto(c, "raised")
  /\ UNCHANGED <<tree, identity, evidence, faults, seen, victim, spoiled>>

\* _rollback_just_published_canonical: is it ours, by its inode number?
CompareIdentity(c) ==
  /\ pc[c] = "comparing"
  /\ \/ \E d \in Canonical :
          /\ identity[c] = inode[d]
          /\ victim' = [victim EXCEPT ![c] = d]
          /\ Goto(c, "emptying")
     \/ /\ \A d \in Canonical : identity[c] # inode[d]
        /\ Goto(c, "raised") /\ UNCHANGED victim
  /\ UNCHANGED <<tree, identity, evidence, faults, seen, spoiled>>

EmptyCanonical(c) ==
  /\ pc[c] = "emptying"
  /\ whole' = [whole EXCEPT ![victim[c]] = FALSE]
  /\ Goto(c, "removing")
  /\ UNCHANGED <<place, inode, identity, evidence, faults, seen, victim, spoiled>>

\* rmdir by name; a directory with entries, of somebody else by now, stays.
RemoveCanonical(c) ==
  /\ pc[c] = "removing"
  /\ place' = [d \in Constructor |->
                 IF d \in Canonical /\ ~whole[d] THEN "none" ELSE place[d]]
  /\ Goto(c, "raised")
  /\ UNCHANGED <<whole, inode, identity, evidence, faults, seen, victim, spoiled>>

\* A fault of the cleanup: an OSError ends the function it hits and is
\* swallowed, an interrupt ends the cleanup.
CleanupFails(c) ==
  /\ pc[c] \in {"discarding", "comparing", "emptying", "removing"}
  /\ faults < MaxFaults /\ faults' = faults + 1
  /\ spoiled' = [spoiled EXCEPT ![c] = TRUE]
  /\ \/ Goto(c, "raised")
     \/ pc[c] = "discarding" /\ Goto(c, "comparing")
  /\ UNCHANGED <<tree, identity, evidence, seen, victim>>

-----------------------------------------------------------------------------
(* The store: the raw output of record_invocation.                         *)

\* It touches nothing the constructors do, so one is kept, when they have ended.
KeepRawOutput(text, limit) ==
  /\ Ended /\ evidence = NoEvidence
  /\ \E c \in Constructor : pc[c] = "returned"
  /\ evidence' = [limit |-> limit, text |-> text, kept |-> BoundRawEvidence(text, limit)]
  /\ UNCHANGED <<pc, tree, identity, faults, seen, victim, spoiled>>

Terminated == Ended /\ UNCHANGED vars

-----------------------------------------------------------------------------
Init ==
  /\ pc = [c \in Constructor |-> "checking"]
  /\ place = [c \in Constructor |-> "none"]
  /\ whole = [c \in Constructor |-> FALSE]
  /\ inode = [c \in Constructor |-> 0]
  /\ identity = [c \in Constructor |-> 0]
  /\ evidence = NoEvidence
  /\ faults = 0
  /\ seen = [c \in Constructor |-> {}]
  /\ victim = [c \in Constructor |-> 0]
  /\ spoiled = [c \in Constructor |-> FALSE]

Build(c) == \/ CheckAbsent(c) \/ MakeStaging(c) \/ FillStaging(c)
            \/ RecheckAbsent(c) \/ CaptureIdentity(c) \/ CannotIdentify(c)
            \/ Publish(c) \/ Return(c)

CleanUp(c) == \/ Fail(c) \/ DiscardStaging(c) \/ CompareIdentity(c)
              \/ EmptyCanonical(c) \/ RemoveCanonical(c) \/ CleanupFails(c)

Next == \/ \E c \in Constructor : Build(c) \/ CleanUp(c)
        \/ \E text \in Texts, limit \in Limits : KeepRawOutput(text, limit)
        \/ Terminated

Spec == Init /\ [][Next]_vars

-----------------------------------------------------------------------------
(* Properties.                                                             *)

Places == {"checking", "making", "filling", "rechecking", "identifying",
           "renaming", "published", "returned", "discarding", "comparing",
           "emptying", "removing", "raised"}

TypeOK ==
  /\ pc \in [Constructor -> Places]
  /\ place \in [Constructor -> {"none", "staging", "canonical"}]
  /\ whole \in [Constructor -> BOOLEAN]
  /\ inode \in [Constructor -> Inode \cup {0}]
  /\ identity \in [Constructor -> Inode \cup {0}]
  /\ faults \in Nat
  /\ seen \in [Constructor -> SUBSET Constructor]
  /\ victim \in [Constructor -> Constructor \cup {0}]
  /\ spoiled \in [Constructor -> BOOLEAN]

\* A run directory is never seen half built, and the one a store was returned
\* for stays: a canonical directory nobody rolls back is whole, there is one at
\* most, and every returned constructor's is it.
PublishedStands ==
  LET rolledBack == {victim[c] : c \in Constructor}
  IN  /\ Cardinality(Canonical) <= 1
      /\ \A c \in Constructor \ rolledBack :
           /\ place[c] = "canonical" => whole[c]
           /\ pc[c] = "returned" => place[c] = "canonical"

\* A failing constructor never removes a run that was there while its own
\* directory was (_rollback_just_published_canonical: a pre-existing run has a
\* different identity), though its own inode number may be taken by a later one.
PreExistingSurvives ==
  \A c \in Constructor : victim[c] \notin seen[c]

\* A constructor that failed leaves neither a staging directory nor a published
\* one that pins the run_id, unless its cleanup was cut short itself or had no
\* identity to go by.
FailureLeavesNothing ==
  \A c \in Constructor : pc[c] = "raised" /\ ~spoiled[c] => place[c] = "none"

\* Whatever the limit and wherever it cuts, the raw output kept is within it,
\* it verifies, and no other metadata would, but for the size a minimal marker
\* does not state.  A complete text that itself begins like a marker is excepted.
KeptEvidenceVerifies ==
  evidence # NoEvidence =>
    LET k == evidence.kept
    IN  /\ k.stored <= evidence.limit
        /\ k.truncated \/ evidence.text.form = "untruncated" =>
             /\ VerifyTruncation(k.file, k.truncated, k.stored, k.observed)
             /\ \A t \in BOOLEAN, n \in 0..k.observed + 1 :
                  VerifyTruncation(k.file, t, k.stored, n) =>
                    /\ t = k.truncated
                    /\ k.file.form \in {"full", "untruncated"} => n = k.observed
=============================================================================
