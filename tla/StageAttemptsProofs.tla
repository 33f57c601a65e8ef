------------------------- MODULE StageAttemptsProofs ------------------------
(***************************************************************************)
(* Proofs about StageAttempts, for every deadline, number of attempts,     *)
(* ceiling and estimate.                                                   *)
(*                                                                         *)
(* None of the properties is inductive on its own: that the ceiling holds  *)
(* needs that cumulative_input counts exactly the calls made, and that     *)
(* only a transient failure is followed by a call needs that the deadline, *)
(* once expired, stays so.                                                 *)
(***************************************************************************)
EXTENDS StageAttempts, SequenceTheorems, TLAPS

-----------------------------------------------------------------------------
(* The inductive invariant.                                                *)

Idle == pc \in {"starting", "authorizing", "launching"}

Transient == Retryable \cup {"model"}

\* The loop has an outcome when, and only when, it is over.
Finished == pc = "done" <=> outcome # "pending"

\* Which attempt made which call.
CallsInOrder ==
  /\ \A c \in 1..Len(calls) : calls[c].attempt <= attempt
  /\ \A c \in 1..Len(calls) - 1 : calls[c].attempt < attempt
  /\ Idle => \A c \in 1..Len(calls) : calls[c].attempt < attempt
  /\ pc \in {"calling", "validated"} =>
       Len(calls) > 0 /\ calls[Len(calls)].attempt = attempt

\* What cumulative_input stands for: the calls that have ended.
CumulativeIsCalls ==
  /\ cumulative = IF pc = "calling" \/ outcome = "escaped"
                  THEN (Len(calls) - 1) * estimate ELSE Len(calls) * estimate
  /\ pc = "launching" => cumulative + estimate <= MaxInput

\* The last record carries the cumulative input on.
LedgerCarries ==
  pc # "done" /\ pc # "validated" =>
    cumulative = IF ledger = <<>> THEN 0 ELSE ledger[Len(ledger)].cumulative

\* A call is only ever made after transient failures.
LaunchesAfterTransient ==
  Idle /\ left > 0 => \A c \in 1..Len(calls) : calls[c].end \in Transient

IInv ==
  /\ TypeOK /\ Finished /\ CallsInOrder /\ CumulativeIsCalls /\ LedgerCarries
  /\ LaunchesAfterTransient
  /\ CallsFitCeiling /\ LedgerIsTrue /\ OneRecordPerAttempt
  /\ OnlyTransientRetried /\ ExhaustedIsSpent

-----------------------------------------------------------------------------
(* Lemmas.                                                                 *)

Call  == [attempt : 1..MaxAttempts, end : Failures \cup Responses \cup {"pending"}]
Entry == [class : Classes, began : BOOLEAN, decision : {"retry", "stop"},
          cumulative : Nat]

\* Counting one more call adds one more estimate.
LEMMA OneMore ==
  ASSUME NEW n \in Int, NEW e \in Int
  PROVE  /\ (n + 1) * e = n * e + e
         /\ (n - 1) * e + e = n * e
         /\ n * e \in Int
OBVIOUS

\* The end of a call changes nothing else in the history of calls.
LEMMA EndedFacts ==
  ASSUME TypeOK, Len(calls) > 0, NEW how \in Failures \cup Responses
  PROVE  /\ Ended(how) \in Seq(Call)
         /\ Len(Ended(how)) = Len(calls)
         /\ \A c \in 1..Len(calls) : Ended(how)[c].attempt = calls[c].attempt
         /\ \A c \in 1..Len(calls) - 1 : Ended(how)[c].end = calls[c].end
         /\ Ended(how)[Len(calls)].end = how
<1> DEFINE n == Len(calls)
           C == Ended(how)
<1>1. calls \in Seq(Call) /\ n \in Nat /\ n \in 1..n
  BY LenProperties DEF TypeOK, Call
<1>2. \A c \in 1..n : calls[c] \in Call
  BY <1>1, ElementOfSeq
<1>3. C = [calls EXCEPT ![n] = [calls[n] EXCEPT !.end = how]]
  BY DEF Ended
<1> DEFINE r == [calls[n] EXCEPT !.end = how]
<1>4. r \in Call /\ r.attempt = calls[n].attempt /\ r.end = how
  BY <1>1, <1>2 DEF Call
<1>5. C \in Seq(Call) /\ Len(C) = n
  BY <1>1, <1>3, <1>4, ExceptSeq
<1>6. \A c \in 1..n : C[c] = IF c = n THEN r ELSE calls[c]
  BY <1>1, <1>3, <1>4, ExceptSeq
<1> HIDE DEF C, r
<1>7. /\ \A c \in 1..n : C[c].attempt = calls[c].attempt
      /\ \A c \in 1..n - 1 : C[c].end = calls[c].end
      /\ C[n].end = how
  BY <1>1, <1>4, <1>6
<1> QED
  BY <1>5, <1>7 DEF C

\* The types of the state, and of the history of calls, in a form to cite.
LEMMA Typed ==
  ASSUME TypeOK
  PROVE  /\ left \in Nat /\ estimate \in Nat /\ cumulative \in Nat
         /\ attempt \in 1..MaxAttempts /\ MaxAttempts \in Nat
         /\ calls \in Seq(Call) /\ Len(calls) \in Nat /\ DOMAIN calls = 1..Len(calls)
         /\ ledger \in Seq(Entry) /\ Len(ledger) \in Nat
         /\ DOMAIN ledger = 1..Len(ledger)
         /\ \A i \in 1..Len(ledger) : ledger[i] \in Entry
         /\ \A c \in 1..Len(calls) : calls[c] \in Call
         /\ \A c \in 1..Len(calls) : calls[c].attempt \in Nat
<1>1. calls \in Seq(Call) /\ ledger \in Seq(Entry)
  BY DEF TypeOK, Call, Entry
<1>2. /\ Len(calls) \in Nat /\ DOMAIN calls = 1..Len(calls)
      /\ Len(ledger) \in Nat /\ DOMAIN ledger = 1..Len(ledger)
  BY <1>1, LenProperties
<1>3. /\ \A i \in 1..Len(ledger) : ledger[i] \in Entry
      /\ \A c \in 1..Len(calls) : calls[c] \in Call
  BY <1>1, ElementOfSeq
<1>4. \A x \in Call : x.attempt \in Nat
  BY AttemptsAssumption DEF Call
<1> QED
  BY <1>1, <1>2, <1>3, <1>4, AttemptsAssumption DEF TypeOK

\* What an attempt that is recorded must establish: the calls keep their
\* attempts, the record says whether there was one and what all of them cost,
\* and another attempt follows only a transient failure or an expired deadline.
Accounted(class, began, total) ==
  /\ class \in Classes /\ began \in BOOLEAN /\ total \in Nat
  /\ calls' \in Seq(Call) /\ Len(calls') = Len(calls)
  /\ \A c \in 1..Len(calls) : calls'[c].attempt = calls[c].attempt
  /\ \A c \in 1..Len(calls) - 1 : calls'[c].end \in Transient
  /\ began => Len(calls) > 0 /\ calls[Len(calls)].attempt = attempt
  /\ ~began => /\ \A c \in 1..Len(calls) : calls[c].attempt < attempt
               /\ total = IF ledger = <<>> THEN 0 ELSE ledger[Len(ledger)].cumulative
  /\ total = Len(calls) * estimate
  /\ UNCHANGED <<left, estimate>>

Fatal == {"failed_budget", "failed", "raised"}

\* A class of failure that consumes retry budget.
Spendable(class) ==
  /\ class \in {"timeout", "model", "provider"}
  /\ class = "provider" => Len(calls) > 0 /\ calls'[Len(calls)].end \in Retryable
  /\ left > 0 => \A c \in 1..Len(calls) : calls'[c].end \in Transient

\* A recorded attempt, retried or not, leaves the invariant true.
LEMMA RecordedStep ==
  ASSUME IInv, pc # "done",
         NEW class, NEW began, NEW total, Accounted(class, began, total),
         NEW last \in BOOLEAN, NEW how,
         Record(class, began, IF last THEN "stop" ELSE "retry", total),
         cumulative' = total,
         last => /\ pc' = "done" /\ outcome' = how /\ attempt' = attempt
                 /\ how \in Fatal \cup {"retry_exhausted"}
                 /\ how = "retry_exhausted" => /\ attempt = MaxAttempts
                                               /\ Spendable(class),
         ~last => /\ pc' = "starting" /\ UNCHANGED outcome
                  /\ attempt' = attempt + 1 /\ attempt # MaxAttempts
                  /\ Spendable(class)
  PROVE  IInv'
<1> DEFINE n == Len(calls)
           entry == [class |-> class, began |-> began,
                     decision |-> IF last THEN "stop" ELSE "retry",
                     cumulative |-> total]
<1>t. TypeOK /\ outcome = "pending" /\ Len(ledger) = attempt - 1
  BY DEF IInv, Finished, OneRecordPerAttempt
<1>0. /\ left \in Nat /\ estimate \in Nat /\ cumulative \in Nat /\ n \in Nat
      /\ attempt \in 1..MaxAttempts /\ MaxAttempts \in Nat
      /\ DOMAIN ledger = 1..attempt - 1 /\ DOMAIN calls = 1..n
      /\ \A c \in 1..n : calls[c].attempt \in Nat
  BY <1>t, Typed
<1>1. entry \in Entry
  BY DEF Entry, Accounted
<1>2. /\ ledger' \in Seq(Entry) /\ Len(ledger') = attempt
      /\ DOMAIN ledger' = 1..attempt
      /\ \A i \in 1..attempt - 1 : ledger'[i] = ledger[i]
      /\ ledger'[attempt] = entry
  <2>1. ledger' = Append(ledger, entry) /\ ledger \in Seq(Entry)
    BY <1>t, Typed DEF Record
  <2>2. /\ ledger' \in Seq(Entry) /\ Len(ledger') = Len(ledger) + 1
        /\ \A i \in 1..Len(ledger) : ledger'[i] = ledger[i]
        /\ ledger'[Len(ledger) + 1] = entry
    BY <2>1, <1>1, AppendProperties
  <2>3. DOMAIN ledger' = 1..Len(ledger')
    BY <2>2, LenProperties
  <2> QED
    BY <2>2, <2>3, <1>t, <1>0
<1>3. /\ entry.class = class /\ entry.began = began /\ entry.cumulative = total
      /\ entry.decision = IF last THEN "stop" ELSE "retry"
  OBVIOUS
<1>4. /\ calls' \in Seq(Call) /\ Len(calls') = n /\ DOMAIN calls' = 1..n
      /\ \A c \in 1..n : calls'[c].attempt = calls[c].attempt
      /\ left' = left /\ estimate' = estimate
  <2>1. calls' \in Seq(Call) /\ Len(calls') = n
    BY DEF Accounted
  <2>2. DOMAIN calls' = 1..n
    BY <2>1, LenProperties
  <2> QED
    BY <2>1, <2>2 DEF Accounted
<1> HIDE DEF entry
<1>5. TypeOK'
  <2>1. attempt' \in 1..MaxAttempts /\ pc' \in {"starting", "done"}
    BY <1>0
  <2>2. outcome' \in Outcomes
    BY <1>t DEF Outcomes, Fatal
  <2>3. cumulative' \in Nat
    BY DEF Accounted
  <2> QED
    BY <1>t, <1>2, <1>4, <2>1, <2>2, <2>3 DEF TypeOK, Call, Entry
<1>6. Finished'
  BY <1>t DEF Finished, Fatal
<1>7. CallsInOrder'
  <2>1. /\ \A c \in 1..n : calls[c].attempt <= attempt
        /\ \A c \in 1..n - 1 : calls[c].attempt < attempt
    BY DEF IInv, CallsInOrder
  <2>2. /\ \A c \in 1..n : calls'[c].attempt <= attempt
        /\ \A c \in 1..n - 1 : calls'[c].attempt < attempt
    <3>1. \A c \in 1..n - 1 : c \in 1..n
      BY <1>0
    <3> QED
      BY <2>1, <3>1, <1>4
  <2>3. CASE last
    BY <2>2, <2>3, <1>4 DEF CallsInOrder, Idle
  <2>4. CASE ~last
    <3>1. \A c \in 1..n : calls'[c].attempt \in Nat
      BY <1>0, <1>4
    <3>2. \A c \in 1..n : calls'[c].attempt < attempt'
      BY <2>2, <2>4, <3>1, <1>0
    <3>3. \A c \in 1..n : calls'[c].attempt <= attempt'
      BY <3>2, <3>1, <2>4, <1>0
    <3>4. \A c \in 1..n - 1 : c \in 1..n
      BY <1>0
    <3> QED
      BY <2>4, <3>2, <3>3, <3>4, <1>4 DEF CallsInOrder, Idle
  <2> QED
    BY <2>3, <2>4
<1>8. CumulativeIsCalls'
  BY <1>t, <1>4 DEF CumulativeIsCalls, Accounted, Fatal
<1>9. LedgerCarries'
  BY <1>0, <1>2, <1>3 DEF LedgerCarries
<1>10. LaunchesAfterTransient'
  BY <1>4 DEF LaunchesAfterTransient, Spendable, Idle
<1>11. CallsFitCeiling'
  BY <1>4 DEF IInv, CallsFitCeiling
<1>12. LedgerIsTrue'
  <2> SUFFICES ASSUME NEW i \in 1..attempt
               PROVE  /\ ledger'[i].began <=> CallsOf(i)' # {}
                      /\ \A c \in CallsOf(i)' : ledger'[i].cumulative = c * estimate
                      /\ CallsOf(i)' = {} => ledger'[i].cumulative =
                           IF i = 1 THEN 0 ELSE ledger'[i - 1].cumulative
    BY <1>2, <1>4 DEF LedgerIsTrue
  <2>1. CallsOf(i)' = CallsOf(i)
    BY <1>0, <1>4 DEF CallsOf
  <2>2. CASE i < attempt
    <3>1. ledger'[i] = ledger[i] /\ (i # 1 => ledger'[i - 1] = ledger[i - 1])
      BY <2>2, <1>0, <1>2
    <3>2. i \in DOMAIN ledger
      BY <2>2, <1>0
    <3> QED
      BY <2>1, <3>1, <3>2 DEF IInv, LedgerIsTrue
  <2>3. CASE i = attempt /\ began
    <3>1. CallsOf(i) = {n}
      BY <2>3, <1>0 DEF CallsOf, IInv, CallsInOrder, Accounted
    <3> QED
      BY <2>1, <2>3, <3>1, <1>2, <1>3 DEF Accounted
  <2>4. CASE i = attempt /\ ~began
    <3>1. CallsOf(i) = {}
      BY <2>4, <1>0 DEF CallsOf, Accounted
    <3>2. total = IF attempt = 1 THEN 0 ELSE ledger[attempt - 1].cumulative
      BY <2>4, <1>t, <1>0, EmptySeq, Typed DEF Accounted
    <3>3. attempt # 1 => ledger'[attempt - 1] = ledger[attempt - 1]
      BY <1>0, <1>2
    <3> QED
      BY <2>1, <2>4, <3>1, <3>2, <3>3, <1>2, <1>3
  <2> QED
    BY <2>2, <2>3, <2>4, <1>0 DEF Accounted
<1>13. OneRecordPerAttempt'
  <2>1. \A i \in 1..attempt - 1 : ledger[i].decision # "stop"
    BY <1>0 DEF IInv, OneRecordPerAttempt
  <2>2. Len(ledger') = IF last THEN attempt' ELSE attempt' - 1
    BY <1>0, <1>2
  <2>3. \A i \in 1..attempt : ledger'[i].decision = "stop" <=> (i = attempt')
    BY <1>0, <1>2, <1>3, <2>1
  <2> QED
    BY <1>t, <1>2, <2>2, <2>3 DEF OneRecordPerAttempt, Fatal
<1>14. OnlyTransientRetried'
  BY <1>4 DEF OnlyTransientRetried, Accounted, Transient
<1>15. ExhaustedIsSpent'
  BY <1>t, <1>0, <1>2, <1>3, <1>4 DEF ExhaustedIsSpent, Spendable, Fatal
<1> QED
  BY <1>5, <1>6, <1>7, <1>8, <1>9, <1>10, <1>11, <1>12, <1>13, <1>14, <1>15 DEF IInv

-----------------------------------------------------------------------------
(* One step per action.                                                    *)

\* Spend and Stop are recorded steps.
LEMMA SpendStep ==
  ASSUME IInv, pc # "done", NEW class, NEW began, NEW total,
         Accounted(class, began, total), Spendable(class),
         Spend(class, began, total)
  PROVE  IInv'
<1>1. CASE attempt = MaxAttempts
  BY <1>1, RecordedStep DEF Spend, Stop
<1>2. CASE attempt # MaxAttempts
  BY <1>2, RecordedStep DEF Spend
<1> QED
  BY <1>1, <1>2

LEMMA StopStep ==
  ASSUME IInv, pc # "done", NEW class, NEW began, NEW total, NEW how \in Fatal,
         Accounted(class, began, total), Stop(class, began, total, how)
  PROVE  IInv'
<1>1. how # "retry_exhausted"
  BY DEF Fatal
<1> QED
  BY <1>1, RecordedStep DEF Stop

\* Between two calls the accounts are in order as they stand.
LEMMA IdleAccounted ==
  ASSUME IInv, Idle, UNCHANGED <<calls, left, estimate>>,
         NEW class \in {"timeout", "budget"}
  PROVE  Accounted(class, FALSE, cumulative)
<1>1. TypeOK /\ outcome = "pending"
  BY DEF IInv, Finished, Idle
<1>2. cumulative = Len(calls) * estimate
  BY <1>1 DEF IInv, CumulativeIsCalls, Idle
<1>3. cumulative = IF ledger = <<>> THEN 0 ELSE ledger[Len(ledger)].cumulative
  BY DEF IInv, LedgerCarries, Idle
<1>4. \A c \in 1..Len(calls) - 1 : calls[c].end \in Transient
  BY DEF IInv, OnlyTransientRetried, Transient
<1>5. \A c \in 1..Len(calls) : calls[c].attempt < attempt
  BY DEF IInv, CallsInOrder
<1> QED
  BY <1>1, <1>2, <1>3, <1>4, <1>5, Typed DEF Accounted, Classes

LEMMA InitInvariant == Init => IInv
<1> SUFFICES ASSUME Init PROVE IInv
  OBVIOUS
<1>1. /\ Len(calls) = 0 /\ Len(ledger) = 0 /\ calls = <<>> /\ ledger = <<>>
      /\ estimate \in Nat /\ 0 * estimate = 0 /\ DOMAIN ledger = {}
  BY AttemptsAssumption DEF Init
<1>2. TypeOK
  BY <1>1, AttemptsAssumption DEF Init, TypeOK, Outcomes
<1>3. LedgerIsTrue /\ OneRecordPerAttempt
  BY <1>1 DEF Init, LedgerIsTrue, OneRecordPerAttempt
<1> QED
  BY <1>1, <1>2, <1>3, AttemptsAssumption
     DEF Init, IInv, Finished, CallsInOrder, CumulativeIsCalls, LedgerCarries,
         LaunchesAfterTransient, CallsFitCeiling, OnlyTransientRetried,
         ExhaustedIsSpent, Idle

LEMMA StartStep == IInv /\ Start => IInv'
<1> SUFFICES ASSUME IInv, Start PROVE IInv'
  OBVIOUS
<1>1. CASE left = 0
  <2>1. Idle /\ Spend("timeout", FALSE, cumulative) /\ UNCHANGED <<calls, left, estimate>>
    BY <1>1 DEF Start, Idle
  <2>2. Accounted("timeout", FALSE, cumulative)
    BY <2>1, IdleAccounted
  <2>3. Spendable("timeout")
    BY <1>1 DEF Spendable
  <2> QED
    BY <2>1, <2>2, <2>3, SpendStep DEF Idle
<1>2. CASE left # 0
  BY <1>2 DEF Start, IInv, TypeOK, Finished, CallsInOrder, CumulativeIsCalls,
     LedgerCarries, LaunchesAfterTransient, CallsFitCeiling, LedgerIsTrue, CallsOf,
     OneRecordPerAttempt, OnlyTransientRetried, ExhaustedIsSpent, Idle
<1> QED
  BY <1>1, <1>2

LEMMA AuthorizeStep == IInv /\ Authorize => IInv'
<1> SUFFICES ASSUME IInv, Authorize PROVE IInv'
  OBVIOUS
<1>1. CASE cumulative + estimate > MaxInput
  <2>1. /\ Idle /\ Stop("budget", FALSE, cumulative, "failed_budget")
        /\ UNCHANGED <<calls, left, estimate>>
    BY <1>1 DEF Authorize, Idle
  <2>2. Accounted("budget", FALSE, cumulative)
    BY <2>1, IdleAccounted
  <2> QED
    BY <2>1, <2>2, StopStep DEF Idle, Fatal
<1>2. CASE ~(cumulative + estimate > MaxInput)
  <2>1. cumulative + estimate <= MaxInput
    BY <1>2, Typed, AttemptsAssumption DEF IInv
  <2> QED
    BY <1>2, <2>1 DEF Authorize, IInv, TypeOK, Finished, CallsInOrder, CumulativeIsCalls,
       LedgerCarries, LaunchesAfterTransient, CallsFitCeiling, LedgerIsTrue, CallsOf,
       OneRecordPerAttempt, OnlyTransientRetried, ExhaustedIsSpent, Idle
<1> QED
  BY <1>1, <1>2

LEMMA LaunchStep == IInv /\ Launch => IInv'
<1> SUFFICES ASSUME IInv, Launch PROVE IInv'
  OBVIOUS
<1>1. CASE left = 0
  <2>1. Idle /\ Spend("timeout", FALSE, cumulative) /\ UNCHANGED <<calls, left, estimate>>
    BY <1>1 DEF Launch, Idle
  <2>2. Accounted("timeout", FALSE, cumulative)
    BY <2>1, IdleAccounted
  <2>3. Spendable("timeout")
    BY <1>1 DEF Spendable
  <2> QED
    BY <2>1, <2>2, <2>3, SpendStep DEF Idle
<1>2. CASE left # 0
  <2> DEFINE n == Len(calls)
             new == [attempt |-> attempt, end |-> "pending"]
  <2>0. /\ TypeOK /\ outcome = "pending" /\ Len(ledger) = attempt - 1 /\ Idle
        /\ pc = "launching" /\ left > 0
    BY <1>2, Typed DEF Launch, IInv, Finished, OneRecordPerAttempt, Idle
  <2>1. /\ calls' = Append(calls, new) /\ pc' = "calling"
        /\ UNCHANGED <<left, estimate, attempt, cumulative, ledger, outcome>>
    BY <1>2 DEF Launch
  <2>2. /\ n \in Nat /\ attempt \in Nat /\ estimate \in Nat /\ cumulative \in Nat
        /\ DOMAIN ledger = 1..attempt - 1 /\ DOMAIN calls = 1..n
        /\ \A c \in 1..n : calls[c].attempt \in Nat
    BY <2>0, Typed
  <2>3. /\ calls' \in Seq(Call) /\ Len(calls') = n + 1 /\ DOMAIN calls' = 1..n + 1
        /\ \A c \in 1..n : calls'[c] = calls[c]
        /\ calls'[n + 1] = new
    <3>1. new \in Call /\ calls \in Seq(Call)
      BY <2>0, Typed DEF TypeOK, Call
    <3>2. /\ calls' \in Seq(Call) /\ Len(calls') = n + 1
          /\ \A c \in 1..n : calls'[c] = calls[c]
          /\ calls'[n + 1] = new
      BY <2>1, <3>1, AppendProperties
    <3> QED
      BY <3>2, LenProperties
  <2>4. new.attempt = attempt
    OBVIOUS
  <2> HIDE DEF new
  <2>5. TypeOK'
    BY <2>0, <2>1, <2>3 DEF TypeOK, Call
  <2>6. Finished' /\ ExhaustedIsSpent'
    BY <2>0, <2>1 DEF Finished, ExhaustedIsSpent
  <2>7. CallsInOrder'
    <3>1. \A c \in 1..n : calls[c].attempt < attempt
      BY <2>0 DEF IInv, CallsInOrder
    <3> QED
      BY <3>1, <2>1, <2>2, <2>3, <2>4 DEF CallsInOrder, Idle
  <2>8. CumulativeIsCalls' /\ CallsFitCeiling'
    <3>1. cumulative = n * estimate /\ cumulative + estimate <= MaxInput
      BY <2>0 DEF IInv, CumulativeIsCalls
    <3>2. (n + 1) * estimate = n * estimate + estimate /\ (n + 1) - 1 = n
      BY <2>2, OneMore
    <3> QED
      BY <3>1, <3>2, <2>0, <2>1, <2>3 DEF CumulativeIsCalls, CallsFitCeiling
  <2>9. LedgerCarries'
    BY <2>0, <2>1 DEF IInv, LedgerCarries
  <2>10. LaunchesAfterTransient'
    BY <2>1 DEF LaunchesAfterTransient, Idle
  <2>11. LedgerIsTrue'
    <3>1. \A i \in 1..attempt - 1 : CallsOf(i)' = CallsOf(i)
      BY <2>2, <2>3, <2>4 DEF CallsOf
    <3> QED
      BY <3>1, <2>1, <2>2 DEF IInv, LedgerIsTrue
  <2>12. OneRecordPerAttempt'
    BY <2>0, <2>1 DEF IInv, OneRecordPerAttempt
  <2>13. OnlyTransientRetried'
    <3>1. \A c \in 1..n : calls[c].end \in Transient
      BY <2>0 DEF IInv, LaunchesAfterTransient
    <3> QED
      BY <3>1, <2>2, <2>3 DEF OnlyTransientRetried, Transient
  <2> QED
    BY <2>5, <2>6, <2>7, <2>8, <2>9, <2>10, <2>11, <2>12, <2>13 DEF IInv
<1> QED
  BY <1>1, <1>2

\* When a call has ended the accounts are in order with its cost included.
LEMMA EndedAccounted ==
  ASSUME IInv, pc = "calling", NEW how \in Failures \cup Responses,
         calls' = Ended(how), UNCHANGED <<left, estimate>>, NEW class \in Classes
  PROVE  /\ Accounted(class, TRUE, Consumed)
         /\ calls'[Len(calls)].end = how
         /\ \A c \in 1..Len(calls) - 1 : calls'[c].end \in Transient
         /\ Len(calls) > 0
<1>1. /\ TypeOK /\ outcome = "pending" /\ Len(calls) > 0
      /\ calls[Len(calls)].attempt = attempt
  BY DEF IInv, Finished, CallsInOrder
<1>2. /\ calls' \in Seq(Call) /\ Len(calls') = Len(calls)
      /\ \A c \in 1..Len(calls) : calls'[c].attempt = calls[c].attempt
      /\ \A c \in 1..Len(calls) - 1 : calls'[c].end = calls[c].end
      /\ calls'[Len(calls)].end = how
  BY <1>1, EndedFacts
<1>3. \A c \in 1..Len(calls) - 1 : calls'[c].end \in Transient
  BY <1>2 DEF IInv, OnlyTransientRetried, Transient
<1>4. Consumed = Len(calls) * estimate /\ Consumed \in Nat
  <2>1. cumulative = (Len(calls) - 1) * estimate
    BY DEF IInv, CumulativeIsCalls
  <2>2. Len(calls) \in Int /\ estimate \in Int /\ cumulative + estimate \in Nat
    BY <1>1, Typed
  <2> QED
    BY <2>1, <2>2, OneMore DEF Consumed
<1> QED
  BY <1>1, <1>2, <1>3, <1>4 DEF Accounted

\* A call that ends without a record: it is validated, or its exception escapes.
LEMMA UnrecordedStep ==
  ASSUME IInv, pc = "calling", NEW how \in Failures \cup Responses,
         calls' = Ended(how), UNCHANGED <<left, estimate, attempt, ledger>>,
         \/ cumulative' = Consumed /\ pc' = "validated" /\ UNCHANGED outcome
         \/ pc' = "done" /\ outcome' = "escaped" /\ UNCHANGED cumulative
  PROVE  IInv'
<1> DEFINE n == Len(calls)
<1>0. /\ TypeOK /\ outcome = "pending" /\ Len(ledger) = attempt - 1
  BY DEF IInv, Finished, OneRecordPerAttempt
<1>1. /\ n \in Nat /\ attempt \in Nat /\ estimate \in Nat /\ cumulative \in Nat
      /\ DOMAIN ledger = 1..attempt - 1 /\ DOMAIN calls = 1..n
  BY <1>0, Typed
<1>2. n > 0
  BY DEF IInv, CallsInOrder
<1>3. /\ calls' \in Seq(Call) /\ Len(calls') = n
      /\ \A c \in 1..n : calls'[c].attempt = calls[c].attempt
      /\ \A c \in 1..n - 1 : calls'[c].end = calls[c].end
  BY <1>0, <1>2, EndedFacts
<1>4. DOMAIN calls' = 1..n
  BY <1>3, LenProperties
<1>5. TypeOK'
  BY <1>0, <1>1, <1>3 DEF TypeOK, Call, Outcomes, Consumed
<1>6. Finished' /\ ExhaustedIsSpent' /\ LedgerCarries'
  BY <1>0 DEF Finished, ExhaustedIsSpent, LedgerCarries
<1>7. CallsInOrder'
  <2>1. \A c \in 1..n - 1 : c \in 1..n
    BY <1>1
  <2>2. n \in 1..n
    BY <1>1, <1>2
  <2> QED
    BY <2>1, <2>2, <1>3 DEF IInv, CallsInOrder, Idle
<1>8. CumulativeIsCalls' /\ CallsFitCeiling'
  <2>1. cumulative = (n - 1) * estimate
    BY DEF IInv, CumulativeIsCalls
  <2>2. (n - 1) * estimate + estimate = n * estimate
    BY <1>1, OneMore
  <2> QED
    BY <1>0, <1>3, <2>1, <2>2 DEF IInv, CumulativeIsCalls, CallsFitCeiling, Consumed
<1>9. LaunchesAfterTransient'
  BY DEF LaunchesAfterTransient, Idle
<1>10. LedgerIsTrue'
  <2>1. \A i \in 1..attempt - 1 : CallsOf(i)' = CallsOf(i)
    BY <1>1, <1>3, <1>4 DEF CallsOf
  <2> QED
    BY <1>1, <2>1 DEF IInv, LedgerIsTrue
<1>11. OneRecordPerAttempt'
  BY <1>0 DEF IInv, OneRecordPerAttempt
<1>12. OnlyTransientRetried'
  BY <1>3 DEF IInv, OnlyTransientRetried
<1> QED
  BY <1>5, <1>6, <1>7, <1>8, <1>9, <1>10, <1>11, <1>12 DEF IInv

LEMMA FailStep == ASSUME NEW how \in Failures PROVE IInv /\ Fail(how) => IInv'
<1> SUFFICES ASSUME IInv, Fail(how) PROVE IInv'
  OBVIOUS
<1>0. /\ pc = "calling" /\ calls' = Ended(how) /\ UNCHANGED <<left, estimate>>
      /\ pc # "done" /\ how \in Failures \cup Responses
  BY DEF Fail
<1>1. \A class \in Classes :
        /\ Accounted(class, TRUE, Consumed)
        /\ calls'[Len(calls)].end = how
        /\ \A c \in 1..Len(calls) - 1 : calls'[c].end \in Transient
        /\ Len(calls) > 0
  BY <1>0, EndedAccounted
<1>2. Len(calls) \in Nat
  BY Typed DEF IInv
<1>3. how \in Transient => \A c \in 1..Len(calls) : calls'[c].end \in Transient
  <2>1. "timeout" \in Classes
    BY DEF Classes
  <2>2. \A c \in 1..Len(calls) : c \in 1..Len(calls) - 1 \/ c = Len(calls)
    BY <1>2
  <2> QED
    BY <2>1, <2>2, <1>1
<1>4. CASE how = "timeout"
  <2>1. left = 0 /\ Spend("timeout", TRUE, Consumed) /\ "timeout" \in Classes
    BY <1>4 DEF Fail, Classes
  <2>2. Spendable("timeout")
    BY <2>1 DEF Spendable
  <2> QED
    BY <1>0, <1>1, <2>1, <2>2, SpendStep
<1>5. CASE how = "model"
  <2>1. Spend("model", TRUE, Consumed) /\ "model" \in Classes
    BY <1>5 DEF Fail, Classes
  <2>2. Spendable("model")
    BY <1>3, <1>5 DEF Spendable, Transient
  <2> QED
    BY <1>0, <1>1, <2>1, <2>2, SpendStep
<1>6. CASE how = "infrastructure"
  <2>1. /\ Stop("infrastructure", TRUE, Consumed, "raised")
        /\ "infrastructure" \in Classes /\ "raised" \in Fatal
    BY <1>6 DEF Fail, Classes, Fatal
  <2> QED
    BY <1>0, <1>1, <2>1, StopStep
<1>7. CASE how = "escape"
  <2>1. /\ outcome' = "escaped" /\ pc' = "done"
        /\ UNCHANGED <<attempt, cumulative, ledger>>
    BY <1>7 DEF Fail
  <2> QED
    BY <1>0, <2>1, UnrecordedStep
<1>8. CASE how \in Categories
  <2>1. /\ how \notin {"timeout", "model", "infrastructure", "escape"}
        /\ "provider" \in Classes
    BY <1>8 DEF Categories, Retryable, Nonretryable, Classes
  <2>2. CASE IsRetryCandidate(how)
    <3>1. Spend("provider", TRUE, Consumed)
      BY <2>1, <2>2 DEF Fail
    <3>2. Spendable("provider")
      BY <1>1, <1>3, <2>1, <2>2 DEF Spendable, Transient, IsRetryCandidate
    <3> QED
      BY <1>0, <1>1, <2>1, <3>1, <3>2, SpendStep
  <2>3. CASE ~IsRetryCandidate(how)
    <3>1. Stop("provider", TRUE, Consumed, "failed") /\ "failed" \in Fatal
      BY <2>1, <2>3 DEF Fail, Fatal
    <3> QED
      BY <1>0, <1>1, <2>1, <3>1, StopStep
  <2> QED
    BY <2>2, <2>3
<1> QED
  BY <1>4, <1>5, <1>6, <1>7, <1>8 DEF Failures

LEMMA RespondStep == ASSUME NEW how \in Responses PROVE IInv /\ Respond(how) => IInv'
<1> SUFFICES ASSUME IInv, Respond(how) PROVE IInv'
  OBVIOUS
<1>0. /\ pc = "calling" /\ calls' = Ended(how) /\ UNCHANGED <<left, estimate>>
      /\ pc # "done" /\ how \in Failures \cup Responses
  BY DEF Respond
<1>1. \A class \in Classes : Accounted(class, TRUE, Consumed)
  BY <1>0, EndedAccounted
<1>2. CASE left = 0
  <2>1. Spend("timeout", TRUE, Consumed) /\ "timeout" \in Classes
    BY <1>2 DEF Respond, Classes
  <2>2. Spendable("timeout")
    BY <1>2 DEF Spendable
  <2> QED
    BY <1>0, <1>1, <2>1, <2>2, SpendStep
<1>3. CASE left # 0 /\ how # "good"
  <2>1. PICK class \in Classes, end \in Fatal : Stop(class, TRUE, Consumed, end)
    BY <1>3 DEF Respond, Responses, Classes, Fatal
  <2> QED
    BY <1>0, <1>1, <2>1, StopStep
<1>4. CASE left # 0 /\ how = "good"
  <2>1. cumulative' = Consumed /\ pc' = "validated" /\ UNCHANGED <<attempt, ledger, outcome>>
    BY <1>4 DEF Respond
  <2> QED
    BY <1>0, <2>1, UnrecordedStep
<1> QED
  BY <1>2, <1>3, <1>4

LEMMA SucceedStep == IInv /\ Succeed => IInv'
<1> SUFFICES ASSUME IInv, Succeed PROVE IInv'
  OBVIOUS
<1>0. /\ pc = "validated" /\ UNCHANGED <<left, estimate, calls>>
      /\ TypeOK /\ outcome = "pending" /\ Len(calls) > 0
      /\ calls[Len(calls)].attempt = attempt
  BY DEF Succeed, IInv, Finished, CallsInOrder
<1>1. CASE left = 0
  <2>1. Spend("timeout", TRUE, cumulative) /\ pc # "done"
    BY <1>0, <1>1 DEF Succeed
  <2>2. cumulative = Len(calls) * estimate
    BY <1>0 DEF IInv, CumulativeIsCalls
  <2>3. \A c \in 1..Len(calls) - 1 : calls[c].end \in Transient
    BY DEF IInv, OnlyTransientRetried, Transient
  <2>4. Accounted("timeout", TRUE, cumulative)
    BY <1>0, <2>2, <2>3, Typed DEF Accounted, Classes
  <2>5. Spendable("timeout")
    BY <1>1 DEF Spendable
  <2> QED
    BY <2>1, <2>4, <2>5, SpendStep
<1>2. CASE left # 0
  BY <1>0, <1>2 DEF Succeed, IInv, TypeOK, Finished, CallsInOrder, CumulativeIsCalls,
     LedgerCarries, LaunchesAfterTransient, CallsFitCeiling, LedgerIsTrue, CallsOf,
     OneRecordPerAttempt, OnlyTransientRetried, ExhaustedIsSpent, Idle, Outcomes
<1> QED
  BY <1>1, <1>2

LEMMA TickStep == IInv /\ Tick => IInv'
<1> SUFFICES ASSUME IInv, Tick PROVE IInv'
  OBVIOUS
<1>1. left' \in 0..Timeout /\ (left' > 0 => left > 0)
  BY AttemptsAssumption DEF Tick, IInv, TypeOK
<1> QED
  BY <1>1 DEF Tick, IInv, TypeOK, Finished, CallsInOrder, CumulativeIsCalls,
     LedgerCarries, LaunchesAfterTransient, CallsFitCeiling, LedgerIsTrue, CallsOf,
     OneRecordPerAttempt, OnlyTransientRetried, ExhaustedIsSpent, Idle

LEMMA StutterStep == IInv /\ UNCHANGED vars => IInv'
BY DEF vars, IInv, TypeOK, Finished, CallsInOrder, CumulativeIsCalls,
   LedgerCarries, LaunchesAfterTransient, CallsFitCeiling, LedgerIsTrue, CallsOf,
   OneRecordPerAttempt, OnlyTransientRetried, ExhaustedIsSpent, Idle

-----------------------------------------------------------------------------
(* The theorems.                                                           *)

\* The inductive invariant holds in every reachable state.
THEOREM Invariance == Spec => []IInv
<1>1. IInv /\ [Next]_vars => IInv'
  <2> SUFFICES ASSUME IInv, [Next]_vars PROVE IInv'
    OBVIOUS
  <2>1. CASE Runner
    BY <2>1, StartStep, AuthorizeStep, LaunchStep, SucceedStep, FailStep, RespondStep
       DEF Runner
  <2>2. CASE Tick
    BY <2>2, TickStep
  <2>3. CASE UNCHANGED vars
    BY <2>3, StutterStep
  <2> QED
    BY <2>1, <2>2, <2>3 DEF Next, Terminated
<1> QED
  BY <1>1, InitInvariant, PTL DEF Spec

\* Every variable keeps its type: attempts are numbered 1..MaxAttempts.
THEOREM TypeCorrect == Spec => []TypeOK
<1>1. IInv => TypeOK
  BY DEF IInv
<1> QED
  BY <1>1, Invariance, PTL

\* However attempts fail, the estimated input of all calls of a stage stays
\* within max_input_tokens_per_stage.
THEOREM CeilingHolds == Spec => []CallsFitCeiling
<1>1. IInv => CallsFitCeiling
  BY DEF IInv
<1> QED
  BY <1>1, Invariance, PTL

\* The invocation records account for every call and for nothing else.
THEOREM LedgerTrue == Spec => []LedgerIsTrue
<1>1. IInv => LedgerIsTrue
  BY DEF IInv
<1> QED
  BY <1>1, Invariance, PTL

\* Every attempt has exactly one record.
THEOREM OneRecord == Spec => []OneRecordPerAttempt
<1>1. IInv => OneRecordPerAttempt
  BY DEF IInv
<1> QED
  BY <1>1, Invariance, PTL

\* Only a model failure or a transient provider failure is followed by a call.
THEOREM TransientOnly == Spec => []OnlyTransientRetried
<1>1. IInv => OnlyTransientRetried
  BY DEF IInv
<1> QED
  BY <1>1, Invariance, PTL

\* retry_exhausted is only said when every attempt was made.
THEOREM Exhausted == Spec => []ExhaustedIsSpent
<1>1. IInv => ExhaustedIsSpent
  BY DEF IInv
<1> QED
  BY <1>1, Invariance, PTL
=============================================================================
