--------------------------- MODULE RunStoreProofs ---------------------------
(***************************************************************************)
(* Proofs about the constructors of RunStore, for any number of them and   *)
(* any number of faults: what was published stands, what was there before  *)
(* survives, and a failure leaves nothing; and the raw output a store      *)
(* keeps verifies, for any text and any limit.                             *)
(***************************************************************************)
EXTENDS RunStore, FiniteSetTheorems, WellFoundedInduction, TLAPS

-----------------------------------------------------------------------------
(* The inductive invariant.                                                *)

RolledBack == {victim[c] : c \in Constructor}

\* A number names one directory as long as it is there, and keeps apart those
\* that were there together.
Inodes ==
  /\ \A c \in Constructor :
       /\ pc[c] \in {"checking", "making"} =>
            place[c] = "none" /\ inode[c] = 0 /\ identity[c] = 0
       /\ place[c] # "none" => inode[c] # 0
       /\ identity[c] # 0 => identity[c] = inode[c]
       /\ place[c] = "canonical" \/ pc[c] = "renaming" => identity[c] # 0 \/ spoiled[c]
       /\ victim[c] # 0 => inode[c] # 0 /\ inode[victim[c]] = inode[c]
       /\ \A t \in seen[c] : inode[c] # 0 /\ inode[t] # 0 /\ inode[c] # inode[t]
  /\ \A c, d \in Constructor :
       c # d /\ place[c] # "none" /\ place[d] # "none" => inode[c] # inode[d]

\* One directory at most is published, and it is whole until it is rolled back.
Publication ==
  /\ \A c, d \in Constructor :
       place[c] = "canonical" /\ place[d] = "canonical" => c = d
  /\ \A c \in Constructor :
       /\ pc[c] \in {"filling", "rechecking", "identifying", "renaming"} =>
            place[c] = "staging"
       /\ pc[c] \in {"rechecking", "identifying", "renaming"} => whole[c]
       /\ c \notin RolledBack =>
            /\ place[c] = "canonical" => whole[c]
            /\ pc[c] \in {"published", "returned"} => place[c] = "canonical"

Building == {"checking", "making", "filling", "rechecking", "identifying", "renaming"}

\* How far a failed constructor has cleaned up.
Cleanup ==
  \A c \in Constructor :
    /\ pc[c] \in {"published", "returned"} => place[c] # "staging"
    /\ victim[c] # 0 =>
         pc[c] \in {"emptying", "removing", "raised"} /\ pc[victim[c]] \notin Building
    /\ pc[c] = "emptying" => victim[c] # 0 /\ (place[c] = "canonical" => victim[c] = c)
    /\ pc[c] = "removing" /\ place[c] = "canonical" => ~whole[c]
    /\ pc[c] \in {"comparing", "emptying", "removing"} /\ ~spoiled[c] =>
         place[c] # "staging"
    /\ pc[c] = "raised" /\ ~spoiled[c] => place[c] = "none"

IInv == TypeOK /\ Inodes /\ Publication /\ Cleanup

-----------------------------------------------------------------------------
(* Steps.                                                                  *)

LEMMA ConstructorFacts == Constructor \subseteq Nat /\ 0 \notin Constructor /\ 0 \notin Inode
BY StoreAssumption DEF Constructor, Inode

LEMMA InitInvariant == Init => IInv
BY ConstructorFacts
   DEF Init, IInv, TypeOK, Places, Inodes, Publication, Cleanup, RolledBack, Building

LEMMA CheckAbsentStep == ASSUME NEW c \in Constructor PROVE IInv /\ CheckAbsent(c) => IInv'
<1> SUFFICES ASSUME IInv, CheckAbsent(c) PROVE IInv'
  OBVIOUS
<1>1. TypeOK'
  BY ConstructorFacts DEF IInv, TypeOK, Places, CheckAbsent, Goto, tree, Canonical
<1>2. Inodes'
  BY ConstructorFacts DEF IInv, TypeOK, Inodes, Publication, Cleanup, RolledBack,
     Building, CheckAbsent, Goto, tree, Canonical
<1>3. Publication'
  BY ConstructorFacts DEF IInv, TypeOK, Inodes, Publication, Cleanup, RolledBack,
     Building, CheckAbsent, Goto, tree, Canonical
<1>4. Cleanup'
  BY ConstructorFacts DEF IInv, TypeOK, Inodes, Publication, Cleanup, RolledBack,
     Building, CheckAbsent, Goto, tree, Canonical
<1> QED
  BY <1>1, <1>2, <1>3, <1>4 DEF IInv

LEMMA MakeStagingStep == ASSUME NEW c \in Constructor PROVE IInv /\ MakeStaging(c) => IInv'
<1> SUFFICES ASSUME IInv, MakeStaging(c) PROVE IInv'
  OBVIOUS
<1>1. TypeOK'
  BY ConstructorFacts DEF IInv, TypeOK, Places, MakeStaging, Goto, tree, Canonical, Taken
<1>2. Inodes'
  BY ConstructorFacts DEF IInv, TypeOK, Inodes, Publication, Cleanup, RolledBack,
     Building, MakeStaging, Goto, tree, Canonical, Taken
<1>3. Publication'
  BY ConstructorFacts DEF IInv, TypeOK, Inodes, Publication, Cleanup, RolledBack,
     Building, MakeStaging, Goto, tree, Canonical, Taken
<1>4. Cleanup'
  BY ConstructorFacts DEF IInv, TypeOK, Inodes, Publication, Cleanup, RolledBack,
     Building, MakeStaging, Goto, tree, Canonical, Taken
<1> QED
  BY <1>1, <1>2, <1>3, <1>4 DEF IInv

LEMMA FillStagingStep == ASSUME NEW c \in Constructor PROVE IInv /\ FillStaging(c) => IInv'
<1> SUFFICES ASSUME IInv, FillStaging(c) PROVE IInv'
  OBVIOUS
<1>1. TypeOK'
  BY ConstructorFacts DEF IInv, TypeOK, Places, FillStaging, Goto, tree, Canonical
<1>2. Inodes'
  BY ConstructorFacts DEF IInv, TypeOK, Inodes, Publication, Cleanup, RolledBack,
     Building, FillStaging, Goto, tree, Canonical
<1>3. Publication'
  BY ConstructorFacts DEF IInv, TypeOK, Inodes, Publication, Cleanup, RolledBack,
     Building, FillStaging, Goto, tree, Canonical
<1>4. Cleanup'
  BY ConstructorFacts DEF IInv, TypeOK, Inodes, Publication, Cleanup, RolledBack,
     Building, FillStaging, Goto, tree, Canonical
<1> QED
  BY <1>1, <1>2, <1>3, <1>4 DEF IInv

LEMMA RecheckAbsentStep == ASSUME NEW c \in Constructor PROVE IInv /\ RecheckAbsent(c) => IInv'
<1> SUFFICES ASSUME IInv, RecheckAbsent(c) PROVE IInv'
  OBVIOUS
<1>1. TypeOK'
  BY ConstructorFacts DEF IInv, TypeOK, Places, RecheckAbsent, Goto, tree, Canonical
<1>2. Inodes'
  BY ConstructorFacts DEF IInv, TypeOK, Inodes, Publication, Cleanup, RolledBack,
     Building, RecheckAbsent, Goto, tree, Canonical
<1>3. Publication'
  BY ConstructorFacts DEF IInv, TypeOK, Inodes, Publication, Cleanup, RolledBack,
     Building, RecheckAbsent, Goto, tree, Canonical
<1>4. Cleanup'
  BY ConstructorFacts DEF IInv, TypeOK, Inodes, Publication, Cleanup, RolledBack,
     Building, RecheckAbsent, Goto, tree, Canonical
<1> QED
  BY <1>1, <1>2, <1>3, <1>4 DEF IInv

LEMMA CaptureIdentityStep == ASSUME NEW c \in Constructor PROVE IInv /\ CaptureIdentity(c) => IInv'
<1> SUFFICES ASSUME IInv, CaptureIdentity(c) PROVE IInv'
  OBVIOUS
<1>1. TypeOK'
  BY ConstructorFacts DEF IInv, TypeOK, Places, CaptureIdentity, Goto, tree, Canonical
<1>2. Inodes'
  BY ConstructorFacts DEF IInv, TypeOK, Inodes, Publication, Cleanup, RolledBack,
     Building, CaptureIdentity, Goto, tree, Canonical
<1>3. Publication'
  BY ConstructorFacts DEF IInv, TypeOK, Inodes, Publication, Cleanup, RolledBack,
     Building, CaptureIdentity, Goto, tree, Canonical
<1>4. Cleanup'
  BY ConstructorFacts DEF IInv, TypeOK, Inodes, Publication, Cleanup, RolledBack,
     Building, CaptureIdentity, Goto, tree, Canonical
<1> QED
  BY <1>1, <1>2, <1>3, <1>4 DEF IInv

LEMMA CannotIdentifyStep == ASSUME NEW c \in Constructor PROVE IInv /\ CannotIdentify(c) => IInv'
<1> SUFFICES ASSUME IInv, CannotIdentify(c) PROVE IInv'
  OBVIOUS
<1>1. TypeOK'
  BY ConstructorFacts DEF IInv, TypeOK, Places, CannotIdentify, Goto, tree, Canonical
<1>2. Inodes'
  BY ConstructorFacts DEF IInv, TypeOK, Inodes, Publication, Cleanup, RolledBack,
     Building, CannotIdentify, Goto, tree, Canonical
<1>3. Publication'
  BY ConstructorFacts DEF IInv, TypeOK, Inodes, Publication, Cleanup, RolledBack,
     Building, CannotIdentify, Goto, tree, Canonical
<1>4. Cleanup'
  BY ConstructorFacts DEF IInv, TypeOK, Inodes, Publication, Cleanup, RolledBack,
     Building, CannotIdentify, Goto, tree, Canonical
<1> QED
  BY <1>1, <1>2, <1>3, <1>4 DEF IInv

LEMMA PublishStep == ASSUME NEW c \in Constructor PROVE IInv /\ Publish(c) => IInv'
<1> SUFFICES ASSUME IInv, Publish(c) PROVE IInv'
  OBVIOUS
<1> USE ConstructorFacts DEF Goto, tree, Canonical
<1>1. TypeOK'
  BY DEF IInv, TypeOK, Places, Publish
<1>2. CASE \E d \in Canonical : whole[d]
  <2>1. /\ pc' = [pc EXCEPT ![c] = "discarding"]
        /\ UNCHANGED <<place, whole, inode, identity, seen, victim, spoiled>>
    BY <1>2 DEF Publish
  <2>2. Inodes'
    BY <2>1 DEF IInv, TypeOK, Inodes
  <2>3. Publication'
    BY <2>1 DEF IInv, TypeOK, Publication, RolledBack
  <2>4. pc[c] = "renaming"
    BY DEF Publish
  <2>5. ASSUME NEW e \in Constructor, victim[e] # 0
        PROVE  e # c /\ pc[e] \in {"emptying", "removing", "raised"} /\ pc'[victim[e]] \notin Building
    BY <2>1, <2>4, <2>5 DEF IInv, TypeOK, Cleanup, Building
  <2>6. Cleanup'
    BY <2>1, <2>4, <2>5 DEF IInv, TypeOK, Cleanup
  <2> QED
    BY <1>1, <2>2, <2>3, <2>6 DEF IInv
<1>3. CASE ~\E d \in Canonical : whole[d]
  <2>1. /\ pc[c] = "renaming" /\ place[c] = "staging" /\ whole[c]
        /\ identity[c] # 0 \/ spoiled[c]
        /\ pc' = [pc EXCEPT ![c] = "published"]
        /\ UNCHANGED <<whole, inode, identity, victim, spoiled>>
    BY <1>3 DEF Publish, IInv, Publication, Inodes
  <2>2. place'[c] = "canonical"
    BY <1>3 DEF Publish
  <2>3. ASSUME NEW e \in Constructor, e # c
        PROVE  /\ place'[e] # "canonical" /\ place'[e] \in {"none", place[e]}
               /\ place[e] = "staging" => place'[e] = "staging"
    BY <1>3, <2>3 DEF Publish
  <2>4. ASSUME NEW e \in Constructor, NEW t \in seen'[e]
        PROVE  t \in seen[e] \/ (e # c /\ t = c /\ place[e] = "staging")
    <3>1. seen' = [d \in Constructor |->
                     IF d # c /\ place[d] = "staging" THEN seen[d] \cup {c} ELSE seen[d]]
      BY <1>3 DEF Publish
    <3> QED
      BY <2>4, <3>1
  <2>5. Inodes'
    <3>1. ASSUME NEW e \in Constructor
          PROVE  /\ pc'[e] \in {"checking", "making"} =>
                      place'[e] = "none" /\ inode'[e] = 0 /\ identity'[e] = 0
                 /\ place'[e] # "none" => inode'[e] # 0
                 /\ identity'[e] # 0 => identity'[e] = inode'[e]
                 /\ place'[e] = "canonical" \/ pc'[e] = "renaming" => identity'[e] # 0 \/ spoiled'[e]
                 /\ victim'[e] # 0 => inode'[e] # 0 /\ inode'[victim'[e]] = inode'[e]
      BY <2>1, <2>2, <2>3 DEF IInv, TypeOK, Inodes
    <3>2. ASSUME NEW e \in Constructor, NEW t \in seen'[e]
          PROVE  inode'[e] # 0 /\ inode'[t] # 0 /\ inode'[e] # inode'[t]
      BY <2>1, <2>4 DEF IInv, Inodes
    <3>3. ASSUME NEW e \in Constructor, NEW d \in Constructor,
                 e # d, place'[e] # "none", place'[d] # "none"
          PROVE  inode'[e] # inode'[d]
      BY <2>1, <2>3, <3>3 DEF IInv, Inodes
    <3> QED
      BY <3>1, <3>2, <3>3 DEF Inodes
  <2>6. Publication'
    BY <1>3, <2>1, <2>2, <2>3 DEF IInv, TypeOK, Publication, RolledBack
  <2>7. ASSUME NEW e \in Constructor, victim[e] # 0
        PROVE  e # c /\ pc[e] \in {"emptying", "removing", "raised"} /\ pc'[victim[e]] \notin Building
    BY <2>1, <2>7 DEF IInv, TypeOK, Cleanup, Building
  <2>8. Cleanup'
    BY <2>1, <2>2, <2>3, <2>7 DEF IInv, TypeOK, Cleanup
  <2> QED
    BY <1>1, <2>5, <2>6, <2>8 DEF IInv
<1> QED
  BY <1>2, <1>3

LEMMA ReturnStep == ASSUME NEW c \in Constructor PROVE IInv /\ Return(c) => IInv'
<1> SUFFICES ASSUME IInv, Return(c) PROVE IInv'
  OBVIOUS
<1>1. TypeOK'
  BY ConstructorFacts DEF IInv, TypeOK, Places, Return, Goto, tree, Canonical
<1>2. Inodes'
  BY ConstructorFacts DEF IInv, TypeOK, Inodes, Publication, Cleanup, RolledBack,
     Building, Return, Goto, tree, Canonical
<1>3. Publication'
  BY ConstructorFacts DEF IInv, TypeOK, Inodes, Publication, Cleanup, RolledBack,
     Building, Return, Goto, tree, Canonical
<1>4. Cleanup'
  BY ConstructorFacts DEF IInv, TypeOK, Inodes, Publication, Cleanup, RolledBack,
     Building, Return, Goto, tree, Canonical
<1> QED
  BY <1>1, <1>2, <1>3, <1>4 DEF IInv

LEMMA FailStep == ASSUME NEW c \in Constructor PROVE IInv /\ Fail(c) => IInv'
<1> SUFFICES ASSUME IInv, Fail(c) PROVE IInv'
  OBVIOUS
<1>1. TypeOK'
  BY ConstructorFacts DEF IInv, TypeOK, Places, Fail, Goto, tree, Canonical
<1>2. Inodes'
  BY ConstructorFacts DEF IInv, TypeOK, Inodes, Publication, Cleanup, RolledBack,
     Building, Fail, Goto, tree, Canonical
<1>3. Publication'
  BY ConstructorFacts DEF IInv, TypeOK, Inodes, Publication, Cleanup, RolledBack,
     Building, Fail, Goto, tree, Canonical
<1>4. Cleanup'
  BY ConstructorFacts DEF IInv, TypeOK, Inodes, Publication, Cleanup, RolledBack,
     Building, Fail, Goto, tree, Canonical
<1> QED
  BY <1>1, <1>2, <1>3, <1>4 DEF IInv

LEMMA DiscardStagingStep == ASSUME NEW c \in Constructor PROVE IInv /\ DiscardStaging(c) => IInv'
<1> SUFFICES ASSUME IInv, DiscardStaging(c) PROVE IInv'
  OBVIOUS
<1>1. TypeOK'
  BY ConstructorFacts DEF IInv, TypeOK, Places, DiscardStaging, Goto, tree, Canonical
<1>2. Inodes'
  BY ConstructorFacts DEF IInv, TypeOK, Inodes, Publication, Cleanup, RolledBack,
     Building, DiscardStaging, Goto, tree, Canonical
<1>3. Publication'
  BY ConstructorFacts DEF IInv, TypeOK, Inodes, Publication, Cleanup, RolledBack,
     Building, DiscardStaging, Goto, tree, Canonical
<1>4. Cleanup'
  BY ConstructorFacts DEF IInv, TypeOK, Inodes, Publication, Cleanup, RolledBack,
     Building, DiscardStaging, Goto, tree, Canonical
<1> QED
  BY <1>1, <1>2, <1>3, <1>4 DEF IInv

LEMMA CompareIdentityStep == ASSUME NEW c \in Constructor PROVE IInv /\ CompareIdentity(c) => IInv'
<1> SUFFICES ASSUME IInv, CompareIdentity(c) PROVE IInv'
  OBVIOUS
<1>1. TypeOK'
  BY ConstructorFacts DEF IInv, TypeOK, Places, CompareIdentity, Goto, tree, Canonical
<1>2. Inodes'
  BY ConstructorFacts DEF IInv, TypeOK, Inodes, Publication, Cleanup, RolledBack,
     Building, CompareIdentity, Goto, tree, Canonical
<1>3. Publication'
  BY ConstructorFacts DEF IInv, TypeOK, Inodes, Publication, Cleanup, RolledBack,
     Building, CompareIdentity, Goto, tree, Canonical
<1>4. Cleanup'
  <2>1. pc[c] = "comparing" /\ victim[c] = 0
        /\ UNCHANGED <<place, whole, inode, identity, spoiled>>
    BY DEF CompareIdentity, IInv, Cleanup, tree
  <2>2. CASE \A d \in Canonical : identity[c] # inode[d]
    <3>1. place[c] # "canonical" \/ spoiled[c]
      BY <2>2 DEF IInv, Inodes, Canonical
    <3>2. pc' = [pc EXCEPT ![c] = "raised"] /\ UNCHANGED victim
      BY <2>2 DEF CompareIdentity, Goto
    <3>3. ~spoiled[c] => place[c] = "none"
      BY <2>1, <3>1 DEF IInv, TypeOK, Cleanup
    <3> QED
      BY ConstructorFacts, <2>1, <3>1, <3>2, <3>3 DEF IInv, TypeOK, Cleanup, Building
  <2>3. CASE \E d \in Canonical : identity[c] = inode[d]
    <3>1. PICK d \in Canonical : /\ identity[c] = inode[d]
                                  /\ victim' = [victim EXCEPT ![c] = d]
                                  /\ pc' = [pc EXCEPT ![c] = "emptying"]
      BY <2>3 DEF CompareIdentity, Goto
    <3>2. d \in Constructor /\ place[d] = "canonical" /\ d # 0
      BY ConstructorFacts DEF Canonical
    <3>3. pc[d] \notin Building
      BY <3>2 DEF IInv, Publication, Inodes, Building
    <3>4. place[c] = "canonical" => d = c
      BY <3>2 DEF IInv, Publication
    <3>5. ASSUME NEW e \in Constructor, victim'[e] # 0
          PROVE  pc'[e] \in {"emptying", "removing", "raised"} /\ pc'[victim'[e]] \notin Building
      <4>1. CASE e = c
        BY <2>1, <3>1, <3>2, <3>3, <4>1 DEF IInv, TypeOK, Building
      <4>2. CASE e # c
        BY <2>1, <3>1, <3>5, <4>2 DEF IInv, TypeOK, Cleanup, Building
      <4> QED
        BY <4>1, <4>2
    <3> QED
      BY <2>1, <3>1, <3>2, <3>4, <3>5 DEF IInv, TypeOK, Cleanup
  <2> QED
    BY <2>2, <2>3
<1> QED
  BY <1>1, <1>2, <1>3, <1>4 DEF IInv

LEMMA EmptyCanonicalStep == ASSUME NEW c \in Constructor PROVE IInv /\ EmptyCanonical(c) => IInv'
<1> SUFFICES ASSUME IInv, EmptyCanonical(c) PROVE IInv'
  OBVIOUS
<1>1. TypeOK'
  BY ConstructorFacts DEF IInv, TypeOK, Places, EmptyCanonical, Goto, tree, Canonical
<1>2. Inodes'
  BY ConstructorFacts DEF IInv, TypeOK, Inodes, Publication, Cleanup, RolledBack,
     Building, EmptyCanonical, Goto, tree, Canonical
<1>3. Publication'
  BY ConstructorFacts DEF IInv, TypeOK, Inodes, Publication, Cleanup, RolledBack,
     Building, EmptyCanonical, Goto, tree, Canonical
<1>4. Cleanup'
  BY ConstructorFacts DEF IInv, TypeOK, Inodes, Publication, Cleanup, RolledBack,
     Building, EmptyCanonical, Goto, tree, Canonical
<1> QED
  BY <1>1, <1>2, <1>3, <1>4 DEF IInv

LEMMA RemoveCanonicalStep == ASSUME NEW c \in Constructor PROVE IInv /\ RemoveCanonical(c) => IInv'
<1> SUFFICES ASSUME IInv, RemoveCanonical(c) PROVE IInv'
  OBVIOUS
<1>1. TypeOK'
  BY ConstructorFacts DEF IInv, TypeOK, Places, RemoveCanonical, Goto, tree, Canonical
<1>2. Inodes'
  BY ConstructorFacts DEF IInv, TypeOK, Inodes, Publication, Cleanup, RolledBack,
     Building, RemoveCanonical, Goto, tree, Canonical
<1>3. Publication'
  BY ConstructorFacts DEF IInv, TypeOK, Inodes, Publication, Cleanup, RolledBack,
     Building, RemoveCanonical, Goto, tree, Canonical
<1>4. Cleanup'
  BY ConstructorFacts DEF IInv, TypeOK, Inodes, Publication, Cleanup, RolledBack,
     Building, RemoveCanonical, Goto, tree, Canonical
<1> QED
  BY <1>1, <1>2, <1>3, <1>4 DEF IInv

LEMMA CleanupFailsStep == ASSUME NEW c \in Constructor PROVE IInv /\ CleanupFails(c) => IInv'
<1> SUFFICES ASSUME IInv, CleanupFails(c) PROVE IInv'
  OBVIOUS
<1>1. TypeOK'
  BY ConstructorFacts DEF IInv, TypeOK, Places, CleanupFails, Goto, tree, Canonical
<1>2. Inodes'
  BY ConstructorFacts DEF IInv, TypeOK, Inodes, Publication, Cleanup, RolledBack,
     Building, CleanupFails, Goto, tree, Canonical
<1>3. Publication'
  BY ConstructorFacts DEF IInv, TypeOK, Inodes, Publication, Cleanup, RolledBack,
     Building, CleanupFails, Goto, tree, Canonical
<1>4. Cleanup'
  <2>1. /\ pc[c] \in {"discarding", "comparing", "emptying", "removing"}
        /\ \/ pc' = [pc EXCEPT ![c] = "raised"]
           \/ pc[c] = "discarding" /\ pc' = [pc EXCEPT ![c] = "comparing"]
        /\ spoiled' = [spoiled EXCEPT ![c] = TRUE]
        /\ UNCHANGED <<place, whole, victim>>
    BY DEF CleanupFails, Goto, tree
  <2>2. ASSUME NEW e \in Constructor, victim[e] # 0
        PROVE  pc'[e] \in {"emptying", "removing", "raised"} /\ pc'[victim[e]] \notin Building
    BY <2>1, <2>2 DEF IInv, TypeOK, Cleanup, Building
  <2> QED
    BY <2>1, <2>2 DEF IInv, TypeOK, Cleanup
<1> QED
  BY <1>1, <1>2, <1>3, <1>4 DEF IInv

LEMMA KeepRawOutputStep ==
  ASSUME NEW text \in Texts, NEW limit \in Limits
  PROVE  IInv /\ KeepRawOutput(text, limit) => IInv'
BY DEF IInv, TypeOK, Inodes, Publication, Cleanup, RolledBack, KeepRawOutput, tree

LEMMA StepInvariant == IInv /\ [Next]_vars => IInv'
<1> SUFFICES ASSUME IInv, [Next]_vars PROVE IInv'
  OBVIOUS
<1>1. ASSUME NEW c \in Constructor, Build(c) PROVE IInv'
  BY <1>1, CheckAbsentStep, MakeStagingStep, FillStagingStep, RecheckAbsentStep,
     CaptureIdentityStep, CannotIdentifyStep, PublishStep, ReturnStep DEF Build
<1>2. ASSUME NEW c \in Constructor, CleanUp(c) PROVE IInv'
  BY <1>2, FailStep, DiscardStagingStep, CompareIdentityStep, EmptyCanonicalStep,
     RemoveCanonicalStep, CleanupFailsStep DEF CleanUp
<1>3. CASE UNCHANGED vars
  BY <1>3 DEF IInv, TypeOK, Inodes, Publication, Cleanup, RolledBack, vars, tree
<1> QED
  BY <1>1, <1>2, <1>3, KeepRawOutputStep DEF Next, Terminated

-----------------------------------------------------------------------------
(* The raw output.                                                         *)

\* A finite set of numbers has a largest one: of the sets that have none, a
\* smallest would have one.
LEMMA LargestExists ==
  ASSUME NEW S, IsFiniteSet(S), S \subseteq Nat, S # {}
  PROVE  \E m \in S : \A y \in S : m >= y
<1> DEFINE Largest(T) == \E m \in T : \A y \in T : m >= y
           Bad == {T \in FiniteSubsetsOf(Nat) : T # {} /\ ~Largest(T)}
<1>1. SUFFICES ASSUME S \in Bad PROVE FALSE
  BY DEF FiniteSubsetsOf
<1>2. PICK T \in Bad : \A U \in Bad : ~(<<U, T>> \in StrictSubsetOrdering(Nat))
  BY <1>1, WFMin, FS_StrictSubsetOrderingWellFounded
<1>3. PICK x \in T : x \in Nat
  BY DEF FiniteSubsetsOf
<1> DEFINE U == T \ {x}
<1>4. U \in FiniteSubsetsOf(Nat) /\ U \subseteq T /\ U # T
  BY <1>3, FS_RemoveElement DEF FiniteSubsetsOf
<1>5. U \notin Bad
  <2>1. U \in SUBSET Nat /\ T \in SUBSET Nat
    BY <1>2, <1>4 DEF FiniteSubsetsOf
  <2> HIDE DEF Bad, U
  <2>2. <<U, T>> \in StrictSubsetOrdering(Nat)
    BY <1>4, <2>1 DEF StrictSubsetOrdering
  <2> QED
    BY <1>2, <2>2
<1>6. CASE U = {}
  <2>1. Largest(T)
    BY <1>3, <1>6
  <2> QED
    BY <2>1
<1>7. CASE U # {}
  <2>1. PICK m \in U : \A y \in U : m >= y
    BY <1>4, <1>5, <1>7
  <2>2. m \in Nat
    BY <1>4 DEF FiniteSubsetsOf
  <2>3. Largest(T)
    BY <1>3, <2>1, <2>2
  <2> QED
    BY <2>3
<1> QED
  BY <1>6, <1>7

\* A prefix of whole characters is within what there is room for, and within
\* the text.
LEMMA PrefixFits ==
  ASSUME NEW text \in Texts, NEW max \in Nat
  PROVE  /\ TruncatedPrefix(text, max) \in 0..max
         /\ Observed(text) \in Nat
<1>1. ASSUME NEW S, IsFiniteSet(S), S \subseteq Nat, S # {}
      PROVE  Max(S) \in S
  BY <1>1, LargestExists DEF Max
<1>2. IsFiniteSet(text.ends) /\ text.ends \subseteq Nat
  BY TextAssumption
<1>3. Observed(text) \in Nat
  <2>1. IsFiniteSet({0} \cup text.ends)
    BY <1>2, FS_AddElement, FS_Union, FS_Singleton
  <2> QED
    BY <1>1, <1>2, <2>1 DEF Observed
<1>4. TruncatedPrefix(text, max) \in 0..max
  <2> DEFINE E == {e \in text.ends : e <= max}
  <2>1. IsFiniteSet({0} \cup E)
    BY <1>2, FS_Subset, FS_Union, FS_Singleton
  <2>2. {0} \cup E \subseteq 0..max
    BY <1>2
  <2>3. Max({0} \cup E) \in {0} \cup E
    BY <1>1, <1>2, <2>1, <2>2
  <2> QED
    BY <2>2, <2>3 DEF TruncatedPrefix
<1> QED
  BY <1>3, <1>4

\* What is kept is what the bound made of some raw output.
Kept ==
  \/ evidence = NoEvidence
  \/ \E text \in Texts, limit \in Limits :
       evidence = [limit |-> limit, text |-> text, kept |-> BoundRawEvidence(text, limit)]

\* The bound of a text that does not fit: what is stored is within the limit.
LEMMA CutFits ==
  ASSUME NEW text \in Texts, NEW limit \in Limits, Observed(text) > limit
  PROVE  LET file == FitTruncated(text, limit)
         IN  /\ file.bytes \in Nat /\ file.bytes <= limit
             /\ file.form \in {"full", "minimal", "clipped_minimal"}
             /\ file.form = "full" => file.claims = Observed(text)
<1>1. limit \in Nat /\ FullSize \in Nat /\ MinimalSize \in Nat
  BY StoreAssumption, MarkerAssumption
<1>2. CASE FullSize <= limit
  <2>1. TruncatedPrefix(text, limit - FullSize) \in 0..(limit - FullSize)
    BY <1>1, <1>2, PrefixFits
  <2> QED
    BY <1>1, <1>2, <2>1 DEF FitTruncated
<1>3. CASE ~(FullSize <= limit) /\ MinimalSize <= limit
  <2>1. TruncatedPrefix(text, limit - MinimalSize) \in 0..(limit - MinimalSize)
    BY <1>1, <1>3, PrefixFits
  <2> QED
    BY <1>1, <1>3, <2>1 DEF FitTruncated
<1>4. CASE ~(FullSize <= limit) /\ ~(MinimalSize <= limit)
  BY <1>1, <1>4 DEF FitTruncated
<1> QED
  BY <1>2, <1>3, <1>4

LEMMA KeptVerifies == Kept => KeptEvidenceVerifies
<1> SUFFICES ASSUME NEW text \in Texts, NEW limit \in Limits,
                    evidence = [limit |-> limit, text |-> text,
                                kept |-> BoundRawEvidence(text, limit)]
             PROVE  KeptEvidenceVerifies
  BY DEF Kept, KeptEvidenceVerifies
<1> DEFINE k == BoundRawEvidence(text, limit)
<1>1. limit \in Nat /\ Observed(text) \in Nat
  BY StoreAssumption, PrefixFits
<1>2. evidence.kept = k /\ evidence.limit = limit /\ evidence.text = text
  OBVIOUS
<1>3. CASE Observed(text) > limit
  <2>1. /\ k.truncated = TRUE /\ k.observed = Observed(text) /\ k.stored = k.file.bytes
        /\ k.file.bytes \in Nat /\ k.file.bytes <= limit
        /\ k.file.form \in {"full", "minimal", "clipped_minimal"}
        /\ k.file.form = "full" => k.file.claims = Observed(text)
    BY <1>3, CutFits DEF BoundRawEvidence
  <2> HIDE DEF k
  <2>2. VerifyTruncation(k.file, k.truncated, k.stored, k.observed)
    BY <1>1, <1>3, <2>1 DEF VerifyTruncation
  <2>3. ASSUME NEW t \in BOOLEAN, NEW n \in 0..k.observed + 1,
               VerifyTruncation(k.file, t, k.stored, n)
        PROVE  t = k.truncated /\ (k.file.form \in {"full", "untruncated"} => n = k.observed)
    BY <2>1, <2>3 DEF VerifyTruncation
  <2> QED
    BY <1>2, <2>1, <2>2, <2>3 DEF KeptEvidenceVerifies
<1>4. CASE ~(Observed(text) > limit)
  <2>1. /\ k.truncated = FALSE /\ k.observed = Observed(text) /\ k.stored = Observed(text)
        /\ k.file.bytes = Observed(text) /\ k.file.form = text.form
    <3>1. k.file = [form |-> text.form, claims |-> text.claims, bytes |-> Observed(text)]
      BY <1>4 DEF BoundRawEvidence
    <3>2. k.truncated = (Observed(text) > limit)
      BY DEF BoundRawEvidence
    <3>3. k.observed = Observed(text) /\ k.stored = k.file.bytes
      BY DEF BoundRawEvidence
    <3> HIDE DEF k
    <3>4. (Observed(text) > limit) = FALSE
      BY <1>1, <1>4
    <3>5. k.truncated = FALSE
      BY <3>2, <3>4, Zenon
    <3> QED
      BY <3>1, <3>3, <3>5
  <2> HIDE DEF k
  <2>2. k.stored <= limit
    BY <1>1, <1>4, <2>1
  <2>3. ASSUME text.form = "untruncated"
        PROVE  VerifyTruncation(k.file, k.truncated, k.stored, k.observed)
    BY <2>1, <2>3 DEF VerifyTruncation
  <2>4. ASSUME text.form = "untruncated", NEW t \in BOOLEAN, NEW n \in 0..k.observed + 1,
               VerifyTruncation(k.file, t, k.stored, n)
        PROVE  t = k.truncated /\ n = k.observed
    BY <2>1, <2>4 DEF VerifyTruncation
  <2> QED
    BY <1>2, <2>1, <2>2, <2>3, <2>4 DEF KeptEvidenceVerifies
<1> QED
  BY <1>3, <1>4

\* Nothing but KeepRawOutput changes what is kept.
LEMMA KeptStep == Kept /\ [Next]_vars => Kept'
<1> SUFFICES ASSUME Kept, [Next]_vars PROVE Kept'
  OBVIOUS
<1>1. CASE evidence' = evidence
  BY <1>1 DEF Kept
<1>2. ASSUME NEW text \in Texts, NEW limit \in Limits, KeepRawOutput(text, limit)
      PROVE  Kept'
  BY <1>2 DEF KeepRawOutput, Kept
<1>3. CASE \E c \in Constructor : Build(c) \/ CleanUp(c)
  <2>1. evidence' = evidence
    BY <1>3 DEF Build, CheckAbsent, MakeStaging, FillStaging, RecheckAbsent,
       CaptureIdentity, CannotIdentify, Publish, Return, CleanUp, Fail, DiscardStaging,
       CompareIdentity, EmptyCanonical, RemoveCanonical, CleanupFails
  <2> QED
    BY <1>1, <2>1
<1> QED
  BY <1>1, <1>2, <1>3 DEF Next, Terminated, vars

-----------------------------------------------------------------------------
(* The theorems.                                                           *)

\* IInv is an invariant of the constructors.
THEOREM Invariance == Spec => []IInv
<1>1. Init => IInv
  BY InitInvariant
<1>2. IInv /\ [Next]_vars => IInv'
  BY StepInvariant
<1> QED
  BY <1>1, <1>2, PTL DEF Spec

\* Every variable keeps its type.
THEOREM TypeCorrect == Spec => []TypeOK
<1>1. IInv => TypeOK
  BY DEF IInv
<1> QED
  BY <1>1, Invariance, PTL

\* A published run directory is one, is whole and stays (Publish is the only
\* action that makes a directory canonical, and it finds none that is whole).
THEOREM Stands == Spec => []PublishedStands
<1>1. IInv => PublishedStands
  <2> SUFFICES ASSUME IInv PROVE PublishedStands
    OBVIOUS
  <2>1. Cardinality(Canonical) <= 1
    <3>1. CASE Canonical = {}
      BY <3>1, FS_EmptySet
    <3>2. CASE Canonical # {}
      <4>1. PICK c \in Canonical : TRUE
        BY <3>2
      <4>2. Canonical = {c}
        BY <4>1 DEF Canonical, IInv, Publication
      <4>3. Cardinality({c}) = 1
        BY ONLY FS_Singleton
      <4> QED
        BY <4>2, <4>3
    <3> QED
      BY <3>1, <3>2
  <2>2. \A c \in Constructor \ RolledBack :
          /\ place[c] = "canonical" => whole[c]
          /\ pc[c] = "returned" => place[c] = "canonical"
    BY DEF IInv, Publication
  <2> QED
    BY <2>1, <2>2 DEF PublishedStands, RolledBack
<1> QED
  BY <1>1, Invariance, PTL

\* No constructor rolls back a directory that was published beside its own
\* (two directories that are there at once have different inode numbers).
THEOREM Survives == Spec => []PreExistingSurvives
<1>1. IInv => PreExistingSurvives
  <2> SUFFICES ASSUME IInv, NEW c \in Constructor, victim[c] \in seen[c] PROVE FALSE
    BY DEF PreExistingSurvives
  <2>1. victim[c] # 0
    BY ConstructorFacts DEF IInv, TypeOK
  <2> QED
    BY <2>1 DEF IInv, Inodes
<1> QED
  BY <1>1, Invariance, PTL

\* A constructor that raised has left no directory of its own.
THEOREM LeavesNothing == Spec => []FailureLeavesNothing
<1>1. IInv => FailureLeavesNothing
  BY DEF IInv, Cleanup, FailureLeavesNothing
<1> QED
  BY <1>1, Invariance, PTL

\* Whatever the text and wherever the limit cuts it, the raw output kept is
\* within the limit and verifies (bound_raw_evidence against
\* verify_raw_evidence_truncation).
THEOREM KeptIsVerified == Spec => []KeptEvidenceVerifies
<1>1. Init => Kept
  BY DEF Init, Kept
<1> QED
  BY <1>1, KeptStep, KeptVerifies, PTL DEF Spec
=============================================================================
