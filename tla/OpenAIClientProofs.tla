------------------------- MODULE OpenAIClientProofs -------------------------
(***************************************************************************)
(* Proofs about OpenAIClient, for every factory and every answer of the    *)
(* SDK: who owns which client, and how often each is closed; and what the  *)
(* journal, the exception in flight and the outcome tell of the call.      *)
(***************************************************************************)
EXTENDS OpenAIClient, SequenceTheorems, TLAPS

-----------------------------------------------------------------------------
(* The inductive invariant: at each place, who owns what.                  *)

Untouched == closes = [http |-> 0, sdk |-> 0]

\* The body of ClosedExactlyOnce.
Released ==
  CASE sdk = "detached" -> closes = [http |-> 0, sdk |-> 1]
    [] sdk = "none" /\ http = "factory" -> closes = [http |-> 1, sdk |-> 0]
    [] OTHER -> sdk \in {"none", "borrowed"} /\ http = "none" /\ Untouched

Acquiring == pc \in {"prepare", "inject", "http", "sdk", "carry",
                     "factory_failed", "take"}
Calling   == pc \in {"boundary", "call", "observe", "digest"}

Owners ==
  /\ source # "default" => http = "none"
  /\ sdk = "borrowed" => http = "none"
  /\ Acquiring \/ Calling => Untouched
  /\ pc \in {"prepare", "inject", "http"} => http = "none" /\ sdk = "none"
  /\ pc = "inject" => source \in {"borrowed", "carrier"}
  /\ pc \in {"http", "sdk", "carry"} => source = "default"
  /\ pc = "sdk" => http = "factory" /\ sdk = "none"
  /\ pc = "carry" => http = "sdk" /\ sdk = "factory"
  /\ pc = "factory_failed" =>
       <<http, sdk>> \in {<<"none", "none">>, <<"factory", "none">>,
                          <<"sdk", "factory">>}
  /\ pc = "take" => sdk = "carrier" /\ http # "factory"
  /\ Calling => sdk \in {"transport", "borrowed"} /\ http # "factory"
  /\ pc = "cleanup" =>
       (sdk = "transport" /\ http # "factory" /\ Untouched) \/ Released
  /\ pc \in {"translate", "publish", "done"} => Released

\* The result in waiting when the control has come that far.
Results ==
  /\ pc = "digest" => answer.how \in {"returned", "raised"}
  /\ pc = "observe" => answer.how \in {"returned", "raised"}
  /\ pc = "cleanup" => primary # "none" \/ pending.how \in {"response", "failure"}
  /\ pc = "translate" => pending.how \in {"response", "failure"}
  /\ pc \notin {"cleanup", "done", "factory_failed"} => primary = "none"
  /\ pc = "factory_failed" => primary # "none"

IInv == TypeOK /\ Owners /\ Results

-----------------------------------------------------------------------------
LEMMA InitInvariant == Init => IInv
BY ClientAssumption DEF Init, IInv, TypeOK, Owners, Results, Acquiring, Calling,
   Untouched, Released, None, Faults, Ends

\* A history of operations keeps its type.
LEMMA NotedTyped ==
  ASSUME trail \in Seq([op : Operations, end : Faults]), NEW op \in Operations,
         NEW end \in Ends, Noted(op, end)
  PROVE  trail' \in Seq([op : Operations, end : Faults])
<1>1. CASE end = "ok"
  BY <1>1 DEF Noted
<1>2. CASE end # "ok"
  <2>1. [op |-> op, end |-> end] \in [op : Operations, end : Faults]
    BY <1>2 DEF Faults, Ends
  <2> QED
    BY <1>2, <2>1, AppendProperties DEF Noted
<1> QED
  BY <1>1, <1>2

LEMMA AcquireStep ==
  ASSUME IInv, NEW end \in Ends,
         Prepare(end) \/ Inject(end) \/ BuildHttp(end) \/ BuildSdk(end)
           \/ Carry(end) \/ Take(end)
  PROVE  IInv'
<1>1. /\ source \in {"default", "borrowed", "carrier"}
      /\ trail \in Seq([op : Operations, end : Faults])
  BY ClientAssumption DEF IInv, TypeOK
<1>2. (end = "ok" \/ end \in Faults) /\ end # "none"
  BY DEF Faults, Ends
<1>3. trail' \in Seq([op : Operations, end : Faults])
  BY <1>1, NotedTyped DEF Operations, Prepare, Inject, BuildHttp, BuildSdk, Carry, Take
<1>4. CASE Prepare(end)
  BY <1>1, <1>2, <1>3, <1>4 DEF Prepare, Escape, IInv, TypeOK, Owners, Results,
     Acquiring, Calling, Untouched, Released, Faults
<1>5. CASE Inject(end)
  <2>1. CASE end = "ok"
    BY <1>1, <1>3, <1>5, <2>1 DEF Inject, IInv, TypeOK, Owners, Results, Acquiring,
       Calling, Untouched, Released
  <2>2. CASE end # "ok"
    BY <1>1, <1>2, <1>3, <1>5, <2>2 DEF Inject, Unwind, IInv, TypeOK, Owners, Results, Acquiring,
       Calling, Untouched, Released
  <2> QED
    BY <2>1, <2>2
<1>6. CASE BuildHttp(end)
  <2>1. CASE end = "ok"
    BY <1>1, <1>3, <1>6, <2>1 DEF BuildHttp, IInv, TypeOK, Owners, Results, Acquiring,
       Calling, Untouched, Released
  <2>2. CASE end # "ok"
    BY <1>1, <1>2, <1>3, <1>6, <2>2 DEF BuildHttp, IInv, TypeOK, Owners, Results, Acquiring,
       Calling, Untouched, Released
  <2> QED
    BY <2>1, <2>2
<1>7. CASE BuildSdk(end)
  <2>1. CASE end = "ok"
    BY <1>1, <1>3, <1>7, <2>1 DEF BuildSdk, IInv, TypeOK, Owners, Results, Acquiring,
       Calling, Untouched, Released
  <2>2. CASE end # "ok"
    BY <1>1, <1>2, <1>3, <1>7, <2>2 DEF BuildSdk, IInv, TypeOK, Owners, Results, Acquiring,
       Calling, Untouched, Released
  <2> QED
    BY <2>1, <2>2
<1>8. CASE Carry(end)
  <2>1. CASE end = "ok"
    BY <1>1, <1>3, <1>8, <2>1 DEF Carry, IInv, TypeOK, Owners, Results, Acquiring,
       Calling, Untouched, Released
  <2>2. CASE end # "ok"
    BY <1>1, <1>2, <1>3, <1>8, <2>2 DEF Carry, IInv, TypeOK, Owners, Results, Acquiring,
       Calling, Untouched, Released
  <2> QED
    BY <2>1, <2>2
<1>9. CASE Take(end)
  BY <1>1, <1>2, <1>3, <1>9 DEF Take, Unwind, IInv, TypeOK, Owners, Results,
     Acquiring, Calling, Untouched, Released, Faults
<1> QED
  BY <1>4, <1>5, <1>6, <1>7, <1>8, <1>9

\* The factory closes what it owns.
LEMMA FactoryStep == IInv /\ FactoryFails => IInv'
<1> SUFFICES ASSUME IInv, FactoryFails PROVE IInv'
  OBVIOUS
<1>1. /\ Untouched /\ pc = "factory_failed" /\ pc' = "cleanup" /\ primary' = primary
      /\ UNCHANGED <<source, http, pending, answer, outcome, journal, trail>>
  BY DEF FactoryFails, Unwind, IInv, Owners, Acquiring
<1>2. CASE sdk = "factory"
  <2>1. closes' = [http |-> 0, sdk |-> 1] /\ sdk' = "detached"
    BY <1>1, <1>2 DEF FactoryFails, Untouched
  <2> QED
    BY <1>1, <2>1 DEF IInv, TypeOK, Owners, Results, Acquiring, Calling, Released
<1>3. CASE sdk = "none" /\ http = "factory"
  <2>1. closes' = [http |-> 1, sdk |-> 0] /\ sdk' = sdk
    BY <1>1, <1>3 DEF FactoryFails, Untouched
  <2> QED
    BY <1>1, <1>3, <2>1 DEF IInv, TypeOK, Owners, Results, Acquiring, Calling, Released
<1>4. CASE sdk = "none" /\ http = "none"
  <2>1. closes' = closes /\ sdk' = sdk
    BY <1>1, <1>4 DEF FactoryFails
  <2> QED
    BY <1>1, <1>4, <2>1 DEF IInv, TypeOK, Owners, Results, Acquiring, Calling,
       Released, Untouched
<1> QED
  BY <1>1, <1>2, <1>3, <1>4 DEF IInv, Owners

LEMMA CallStep ==
  ASSUME IInv,
         \/ \E end \in Ends, written \in BOOLEAN :
              Boundary(end, written) \/ Observe(end, written)
         \/ \E response \in Returned : Return(response)
         \/ \E exception \in Raised : Raise(exception)
         \/ \E end \in Ends : InterruptCall(end) \/ Extract(end) \/ Normalize(end)
  PROVE  IInv'
<1>1. trail \in Seq([op : Operations, end : Faults])
  BY DEF IInv, TypeOK
<1>2. ASSUME NEW end \in Ends, NEW written \in BOOLEAN, Boundary(end, written)
      PROVE  IInv'
  <2>1. trail' \in Seq([op : Operations, end : Faults]) /\ (end = "ok" \/ end \in Faults)
         /\ end # "none"
    BY <1>1, <1>2, NotedTyped DEF Operations, Boundary, Faults, Ends
  <2>2. CASE end = "ok"
    BY <1>2, <2>1, <2>2 DEF Boundary, IInv, TypeOK, Owners, Results, Acquiring,
       Calling, Untouched, Released
  <2>3. CASE end # "ok"
    BY <1>2, <2>1, <2>3 DEF Boundary, Unwind, IInv, TypeOK, Owners, Results, Acquiring,
       Calling, Untouched, Released
  <2> QED
    BY <2>2, <2>3
<1>3. ASSUME NEW end \in Ends, NEW written \in BOOLEAN, Observe(end, written)
      PROVE  IInv'
  <2>1. trail' \in Seq([op : Operations, end : Faults]) /\ (end = "ok" \/ end \in Faults)
         /\ end # "none"
    BY <1>1, <1>3, NotedTyped DEF Operations, Observe, Faults, Ends
  <2>2. CASE end = "ok"
    BY <1>3, <2>1, <2>2 DEF Observe, IInv, TypeOK, Owners, Results, Acquiring,
       Calling, Untouched, Released
  <2>3. CASE end # "ok"
    BY <1>3, <2>1, <2>3 DEF Observe, Unwind, IInv, TypeOK, Owners, Results, Acquiring,
       Calling, Untouched, Released
  <2> QED
    BY <2>2, <2>3
<1>4. ASSUME NEW what, Return(what) \/ Raise(what)
      PROVE  IInv'
  BY <1>4 DEF Return, Raise, IInv, TypeOK, Owners, Results, Acquiring, Calling,
     Untouched, Released
<1>5. ASSUME NEW end \in Ends, InterruptCall(end)
      PROVE  IInv'
  <2>1. trail' \in Seq([op : Operations, end : Faults]) /\ end \in Faults
         /\ end # "none"
    BY <1>1, <1>5, NotedTyped DEF Operations, InterruptCall, Control, Faults, Ends
  <2> QED
    BY <1>5, <2>1 DEF InterruptCall, Unwind, IInv, TypeOK, Owners, Results,
       Acquiring, Calling, Untouched, Released
<1>6. ASSUME NEW end \in Ends, Extract(end)
      PROVE  IInv'
  <2>1. trail' \in Seq([op : Operations, end : Faults]) /\ (end = "ok" \/ end \in Faults)
         /\ end # "none"
    BY <1>1, <1>6, NotedTyped DEF Operations, Extract, Faults, Ends
  <2>2. CASE end = "ok"
    BY <1>6, <2>1, <2>2 DEF Extract, IInv, TypeOK, Owners, Results, Acquiring,
       Calling, Untouched, Released
  <2>3. CASE end # "ok"
    BY <1>6, <2>1, <2>3 DEF Extract, IInv, TypeOK, Owners, Results, Acquiring,
       Calling, Untouched, Released
  <2> QED
    BY <2>2, <2>3
<1>7. ASSUME NEW end \in Ends, Normalize(end)
      PROVE  IInv'
  <2>1. trail' \in Seq([op : Operations, end : Faults])
    BY <1>1, <1>7, NotedTyped DEF Operations, Normalize
  <2> QED
    BY <1>7, <2>1 DEF Normalize, IInv, TypeOK, Owners, Results, Acquiring, Calling,
       Untouched, Released
<1> QED
  BY <1>2, <1>3, <1>4, <1>5, <1>6, <1>7

\* The transport closes what it owns, once.
LEMMA CleanupStep == ASSUME NEW end \in Ends PROVE IInv /\ Cleanup(end) => IInv'
<1> SUFFICES ASSUME IInv, Cleanup(end) PROVE IInv'
  OBVIOUS
<1>1. trail' \in Seq([op : Operations, end : Faults]) /\ (end = "ok" \/ end \in Faults)
  BY NotedTyped DEF Operations, Cleanup, IInv, TypeOK, Faults, Ends
<1>2. /\ pc = "cleanup" /\ pc' \in {"translate", "done"}
      /\ UNCHANGED <<source, http, answer, outcome, journal>>
      /\ pc' = "translate" => primary' = "none" /\ primary = "none" /\ pending' = pending
      /\ primary' \in {"none"} \cup Faults
      /\ pending'.how \in {"none", "response", "failure"}
  BY <1>1 DEF Cleanup, Escape, IInv, TypeOK, Faults, None
<1>3. Released'
  <2>1. CASE sdk = "transport"
    <3>1. Untouched /\ http # "factory"
      BY <1>2, <2>1 DEF IInv, Owners, Released
    <3>2. sdk' = "detached" /\ closes' = [http |-> 0, sdk |-> 1]
      BY <2>1, <3>1 DEF Cleanup, Untouched
    <3> QED
      BY <3>2 DEF Released
  <2>2. CASE sdk # "transport"
    BY <1>2, <2>2 DEF Cleanup, IInv, Owners, Released, Untouched
  <2> QED
    BY <2>1, <2>2
<1>4. sdk' \in {sdk, "detached"} /\ closes' \in [http : 0..1, sdk : 0..1]
  BY <1>2, <1>3 DEF Cleanup, IInv, TypeOK, Owners, Released, Untouched
<1> QED
  BY <1>1, <1>2, <1>3, <1>4 DEF IInv, TypeOK, Owners, Results, Acquiring, Calling

LEMMA PublishStep ==
  ASSUME IInv,
         \/ \E end \in Ends : Translate(end)
         \/ Refuse
         \/ \E end \in Ends, written \in BOOLEAN : Publish(end, written)
  PROVE  IInv'
<1>1. ASSUME NEW end \in Ends, Translate(end)
      PROVE  IInv'
  <2>1. trail' \in Seq([op : Operations, end : Faults])
    BY <1>1, NotedTyped DEF Operations, Translate, IInv, TypeOK
  <2>2. /\ pc = "translate" /\ pc' \in {"publish", "done"}
        /\ UNCHANGED <<source, http, sdk, closes, pending, answer>>
        /\ primary' \in {"none"} \cup Faults
        /\ pc' = "publish" => primary' = primary
    BY <1>1 DEF Translate, Escape, IInv, TypeOK, Faults, Ends, Control
  <2> QED
    BY <2>1, <2>2 DEF IInv, TypeOK, Owners, Results, Acquiring, Calling, Released,
       Untouched
<1>2. ASSUME NEW end \in Ends, NEW written \in BOOLEAN, Publish(end, written)
      PROVE  IInv'
  <2>1. trail' \in Seq([op : Operations, end : Faults]) /\ (end = "ok" \/ end \in Faults)
         /\ end # "none"
    BY <1>2, NotedTyped DEF Operations, Publish, IInv, TypeOK, Faults, Ends
  <2> QED
    BY <1>2, <2>1 DEF Publish, Escape, IInv, TypeOK, Owners, Results, Acquiring,
       Calling, Untouched, Released, Faults
<1>3. ASSUME Refuse
      PROVE  IInv'
  <2>1. trail' \in Seq([op : Operations, end : Faults])
    BY <1>3, NotedTyped DEF Operations, Refuse, Ends, IInv, TypeOK
  <2> QED
    BY <1>3, <2>1 DEF Refuse, IInv, TypeOK, Owners, Results, Acquiring, Calling,
       Released, Untouched
<1> QED
  BY <1>1, <1>2, <1>3

LEMMA Preserved == IInv /\ Next => IInv'
<1>1. IInv /\ Terminated => IInv'
  BY DEF Terminated, vars, IInv, TypeOK, Owners, Results, Acquiring, Calling,
     Untouched, Released
<1> QED
  BY <1>1, AcquireStep, FactoryStep, CallStep, CleanupStep, PublishStep DEF Next

-----------------------------------------------------------------------------
(* What is told of the call: the invariant, on top of who owns what.       *)

\* What is in waiting and what is reported come of how the call ended.
Verdicts ==
  /\ answer.how = "returned" => answer.what \in Responses
  /\ answer.how = "raised" => answer.what \in Exceptions
  /\ Acquiring \/ Calling => pending = None
  /\ pc \notin {"publish", "done"} => outcome = None
  /\ pending.how = "response" => answer.how = "returned"
  /\ pending.how = "failure" =>
       \/ answer.how = "returned" /\ pending.what = Malformed
       \/ answer.how = "raised" /\ pending.what \in {Unknown, Normalized(answer.what)}
  /\ outcome # None =>
       \/ /\ answer.how = "returned"
          /\ outcome \in {Malformed, Rejected, Translated(answer.what)}
       \/ answer.how = "raised" /\ outcome \in {Unknown, Normalized(answer.what)}

\* Every fault so far was contained; the first one that was not is in flight.
Quiet == \A k \in DOMAIN trail : Contained(trail[k])
First(end) ==
  \E k \in DOMAIN trail :
    /\ ~Contained(trail[k]) /\ trail[k].end = end
    /\ \A j \in DOMAIN trail : ~Contained(trail[j]) => k <= j
Escapes ==
  /\ primary = "none" => Quiet
  /\ primary # "none" => First(primary) \/ (pc = "done" /\ primary = "error" /\ Quiet)

\* How far the journal has got at each place, and why not further.
Had(op) == \E k \in DOMAIN trail : trail[k].op = op
Called   == <<"sdk_call_boundary">>
Observed == <<"sdk_call_boundary", Observation>>
Told ==
  /\ pc # "done" => ~Had("close")
  /\ Acquiring \/ pc \in {"boundary", "call"} => answer = None
  /\ Acquiring \/ pc = "boundary" => journal = <<>>
  /\ pc \in {"call", "observe"} => journal = Called
  /\ pc = "digest" => journal = Observed
  /\ pc \in {"cleanup", "done"} =>
       CASE answer.how = "none"        -> journal \in {<<>>, Called}
         [] answer.how = "interrupted" -> journal = Called
         [] OTHER -> journal = Observed \/ (journal = Called /\ Had("observe"))
                     \/ (pc = "done" /\ journal = Append(Observed, "outcome_observed")
                           /\ ~Had("close") /\ sdk \in {"detached", "borrowed"})
  /\ pc = "cleanup" /\ primary = "none" => journal = Observed /\ sdk \in {"transport", "borrowed"}
  /\ pc \in {"translate", "publish"} => journal = Observed /\ sdk \in {"detached", "borrowed"}
  /\ pc \in {"translate", "publish"} \/ (pc = "cleanup" /\ primary = "none")
       => answer.how \in {"returned", "raised"}
Story == IInv /\ Verdicts /\ Escapes /\ Told

LEMMA InitStory == Init => Verdicts /\ Escapes /\ Told
BY DEF Init, Verdicts, Escapes, Told, Quiet, Had, Acquiring, Calling, None

\* Next, action by action.
LEMMA Actions ==
  ASSUME Next
  PROVE  \/ \E end \in Ends :
              \/ Prepare(end) \/ Inject(end) \/ BuildHttp(end) \/ BuildSdk(end)
              \/ Carry(end) \/ Take(end)
         \/ \E end \in Ends : InterruptCall(end)
         \/ \E end \in Ends : Extract(end)
         \/ \E end \in Ends : Normalize(end)
         \/ \E end \in Ends : Cleanup(end)
         \/ \E end \in Ends : Translate(end)
         \/ \E end \in Ends, written \in BOOLEAN : Boundary(end, written)
         \/ \E end \in Ends, written \in BOOLEAN : Observe(end, written)
         \/ \E end \in Ends, written \in BOOLEAN : Publish(end, written)
         \/ \E response \in Returned : Return(response)
         \/ \E exception \in Raised : Raise(exception)
         \/ FactoryFails
         \/ Refuse
         \/ UNCHANGED vars
BY DEF Next, Terminated

\* Nothing is in waiting before the call has been digested.
LEMMA VerdictsStep ==
  ASSUME IInv, Verdicts, Next
  PROVE  Verdicts'
<1> USE DEF Verdicts, Acquiring, Calling
<1>1. /\ Returned \subseteq Responses /\ Raised \subseteq Exceptions
      /\ None.how = "none"
  BY ClientAssumption DEF None
<1>2. ASSUME NEW end \in Ends,
             Prepare(end) \/ Inject(end) \/ BuildHttp(end) \/ BuildSdk(end)
               \/ Carry(end) \/ Take(end)
      PROVE  Verdicts'
  BY <1>2 DEF Prepare, Inject, BuildHttp, BuildSdk, Carry, Take, Escape, Unwind
<1>3. ASSUME NEW end \in Ends, InterruptCall(end) PROVE Verdicts'
  <2>1. answer'.how = "interrupted" /\ pending' = None /\ outcome' = None /\ pc' = "cleanup"
    BY <1>3 DEF InterruptCall, Unwind
  <2> QED
    BY <1>1, <2>1
<1>4. ASSUME NEW end \in Ends, Extract(end) PROVE Verdicts'
  <2>1. /\ answer.how = "returned" /\ answer' = answer /\ pc' = "cleanup"
        /\ outcome' = None
        /\ \/ pending' = [how |-> "response"]
           \/ pending' = [how |-> "failure", what |-> Malformed]
           \/ pending' = None
    BY <1>4 DEF Extract
  <2> QED
    BY <1>1, <2>1
<1>5. ASSUME NEW end \in Ends, Normalize(end) PROVE Verdicts'
  <2>1. /\ answer.how = "raised" /\ answer' = answer /\ pc' = "cleanup"
        /\ outcome' = None /\ pending'.how = "failure"
        /\ pending'.what \in {Unknown, Normalized(answer.what)}
    BY <1>5 DEF Normalize
  <2> QED
    BY <1>1, <2>1
<1>6. ASSUME NEW end \in Ends, Cleanup(end) PROVE Verdicts'
  <2>1. /\ answer' = answer /\ outcome' = None /\ pending' \in {pending, None}
        /\ pc' \in {"translate", "done"}
    BY <1>6 DEF Cleanup, Escape
  <2> QED
    BY <1>1, <2>1
<1>7. ASSUME NEW end \in Ends, Translate(end) PROVE Verdicts'
  <2>1. /\ answer' = answer /\ pending' = pending /\ pc' \in {"publish", "done"}
        /\ pending.how \in {"response", "failure"}
        /\ \/ outcome' = None
           \/ pending.how = "response" /\ outcome' \in {Translated(answer.what), Rejected}
           \/ pending.how = "failure" /\ outcome' = pending.what
    BY <1>7 DEF Translate, Escape, IInv, Results
  <2> QED
    BY <1>1, <2>1
<1>8. ASSUME NEW end \in Ends, NEW written \in BOOLEAN,
             Boundary(end, written) \/ Observe(end, written)
      PROVE  Verdicts'
  BY <1>8 DEF Boundary, Observe, Unwind
<1>9. ASSUME NEW end \in Ends, NEW written \in BOOLEAN, Publish(end, written)
      PROVE  Verdicts'
  BY <1>9 DEF Publish, Escape
<1>10. ASSUME NEW response \in Returned, Return(response) PROVE Verdicts'
  <2>1. /\ answer'.how = "returned" /\ answer'.what \in Responses /\ pc' = "observe"
        /\ pending' = None /\ outcome' = None
    BY <1>1, <1>10 DEF Return
  <2> QED
    BY <1>1, <2>1
<1>11. ASSUME NEW exception \in Raised, Raise(exception) PROVE Verdicts'
  <2>1. /\ answer'.how = "raised" /\ answer'.what \in Exceptions /\ pc' = "observe"
        /\ pending' = None /\ outcome' = None
    BY <1>1, <1>11 DEF Raise
  <2> QED
    BY <1>1, <2>1
<1>12. ASSUME FactoryFails PROVE Verdicts'
  BY <1>12 DEF FactoryFails, Unwind
<1>13. ASSUME UNCHANGED vars PROVE Verdicts'
  BY <1>13 DEF vars
<1>14. ASSUME Refuse PROVE Verdicts'
  <2>1. /\ answer' = answer /\ pending' = pending /\ pc' = "publish"
        /\ pending.how = "response" /\ outcome' = Rejected
    BY <1>14 DEF Refuse
  <2> QED
    BY <1>1, <2>1
<1> QED
  BY Actions, <1>2, <1>3, <1>4, <1>5, <1>6, <1>7, <1>8, <1>9, <1>10, <1>11, <1>12,
     <1>13, <1>14

\* The first fault that is not contained is in flight, and stays.
LEMMA NotedKeeps ==
  ASSUME trail \in Seq([op : Operations, end : Faults]), NEW op \in Operations,
         NEW end \in Ends, Noted(op, end)
  PROVE  /\ Quiet /\ (end = "ok" \/ Contained([op |-> op, end |-> end])) => Quiet'
         /\ Quiet /\ end # "ok" /\ ~Contained([op |-> op, end |-> end]) => First(end)'
         /\ \A e \in Faults : First(e) => First(e)'
<1>1. CASE end = "ok"
  <2>1. trail' = trail
    BY <1>1 DEF Noted
  <2> QED
    BY <1>1, <2>1 DEF Quiet, First
<1>2. CASE end # "ok"
  <2> DEFINE new == [op |-> op, end |-> end]
  <2>1. trail' = Append(trail, new) /\ new \in [op : Operations, end : Faults]
    BY <1>2 DEF Noted, Faults, Ends
  <2>2. /\ DOMAIN trail = 1..Len(trail) /\ DOMAIN trail' = 1..Len(trail) + 1
        /\ Len(trail) \in Nat
        /\ trail'[Len(trail) + 1] = new
        /\ \A k \in 1..Len(trail) : trail'[k] = trail[k]
    BY <2>1, AppendProperties
  <2> HIDE DEF new
  <2>3. Quiet /\ Contained(new) => Quiet'
    BY <2>2 DEF Quiet
  <2>4. Quiet /\ ~Contained(new) => First(end)'
    <3> SUFFICES ASSUME Quiet, ~Contained(new) PROVE First(end)'
      OBVIOUS
    <3>1. new.end = end
      BY DEF new
    <3>2. \A j \in DOMAIN trail' : ~Contained(trail'[j]) => Len(trail) + 1 <= j
      BY <2>2 DEF Quiet
    <3>3. Len(trail) + 1 \in DOMAIN trail'
      BY <2>2
    <3> QED
      BY <2>2, <3>1, <3>2, <3>3 DEF First
  <2>5. ASSUME NEW e \in Faults, First(e) PROVE First(e)'
    <3>1. PICK k \in DOMAIN trail :
            /\ ~Contained(trail[k]) /\ trail[k].end = e
            /\ \A j \in DOMAIN trail : ~Contained(trail[j]) => k <= j
      BY <2>5 DEF First
    <3>2. k \in DOMAIN trail' /\ trail'[k] = trail[k]
      BY <2>2
    <3>3. \A j \in DOMAIN trail' : ~Contained(trail'[j]) => k <= j
      BY <2>2, <3>1
    <3> QED
      BY <3>1, <3>2, <3>3 DEF First
  <2> QED
    BY <1>2, <2>3, <2>4, <2>5 DEF new
<1> QED
  BY <1>1, <1>2

\* An operation that ends badly, contained or not, while nothing is escaping:
\* what it does to the exception in flight.
LEMMA NotedEscapes ==
  ASSUME IInv, Escapes, NEW op \in Operations, NEW end \in Ends, Noted(op, end),
         primary = "none",
         \/ primary' = "none" /\ (end = "ok" \/ Contained([op |-> op, end |-> end]))
         \/ primary' = end /\ end # "ok" /\ ~Contained([op |-> op, end |-> end])
         \/ /\ primary' = "error" /\ pc' = "done"
            /\ end = "ok" \/ Contained([op |-> op, end |-> end])
  PROVE  Escapes'
<1>1. trail \in Seq([op : Operations, end : Faults]) /\ Quiet
  BY DEF IInv, TypeOK, Escapes
<1>2. end # "none"
  BY DEF Ends
<1> QED
  BY <1>1, <1>2, NotedKeeps DEF Escapes

LEMMA EscapesStep ==
  ASSUME IInv, Escapes, Next
  PROVE  Escapes'
<1>1. ASSUME NEW end \in Ends,
             Prepare(end) \/ Inject(end) \/ BuildHttp(end) \/ BuildSdk(end)
               \/ Carry(end) \/ Take(end)
      PROVE  Escapes'
  <2>1. PICK op \in {"prepare", "inject", "http", "sdk", "carry", "take"} :
          /\ Noted(op, end) /\ primary = "none"
          /\ IF end = "ok" THEN primary' = primary ELSE primary' = end
    BY <1>1 DEF Prepare, Inject, BuildHttp, BuildSdk, Carry, Take, Escape, Unwind,
       IInv, Results
  <2>2. op \in Operations /\ ~Contained([op |-> op, end |-> end])
    BY DEF Operations, Contained
  <2> QED
    BY <2>1, <2>2, NotedEscapes
<1>2. ASSUME NEW end \in Ends, InterruptCall(end) PROVE Escapes'
  <2>1. /\ Noted("call", end) /\ primary = "none" /\ primary' = end /\ end # "ok"
        /\ "call" \in Operations /\ ~Contained([op |-> "call", end |-> end])
    BY <1>2 DEF InterruptCall, Unwind, IInv, Results, Control, Operations, Contained
  <2> QED
    BY <2>1, NotedEscapes
<1>3. ASSUME NEW end \in Ends, Extract(end) PROVE Escapes'
  <2>1. /\ Noted("extract", end) /\ primary = "none" /\ "extract" \in Operations
        /\ end \in {"ok", "error"} => primary' = "none"
        /\ end \notin {"ok", "error"} => primary' = end
    BY <1>3 DEF Extract, IInv, Results, Operations
  <2>2. end = "error" <=> Contained([op |-> "extract", end |-> end])
    BY DEF Contained
  <2> QED
    BY <2>1, <2>2, NotedEscapes
<1>4. ASSUME NEW end \in Ends, Normalize(end) PROVE Escapes'
  <2>1. /\ Noted("normalize", end) /\ primary = "none" /\ primary' = "none"
        /\ "normalize" \in Operations /\ Contained([op |-> "normalize", end |-> end])
    BY <1>4 DEF Normalize, IInv, Results, Operations, Contained
  <2> QED
    BY <2>1, NotedEscapes
<1>5. ASSUME NEW end \in Ends, Cleanup(end) PROVE Escapes'
  <2>1. /\ Noted("close", end) /\ pc = "cleanup" /\ "close" \in Operations
        /\ ~Contained([op |-> "close", end |-> end])
    BY <1>5 DEF Cleanup, Operations, Contained
  <2>2. CASE primary = "none"
    <3>1. primary' = IF end = "ok" THEN "none" ELSE end
      BY <1>5, <2>2 DEF Cleanup, Escape
    <3> QED
      BY <2>1, <2>2, <3>1, NotedEscapes
  <2>3. CASE primary # "none"
    <3>1. primary' = primary /\ First(primary)
      BY <1>5, <2>1, <2>3 DEF Cleanup, Escape, Escapes
    <3>2. trail \in Seq([op : Operations, end : Faults]) /\ primary \in Faults
      BY <2>3 DEF IInv, TypeOK
    <3>3. First(primary)'
      BY <2>1, <3>1, <3>2, NotedKeeps DEF First
    <3> QED
      BY <2>3, <3>1, <3>3 DEF Escapes
  <2> QED
    BY <2>2, <2>3
<1>6. ASSUME NEW end \in Ends, Translate(end) PROVE Escapes'
  <2>1. /\ Noted("translate", end) /\ primary = "none" /\ "translate" \in Operations
        /\ \/ end = "ok" /\ primary' = "none"
           \/ end = "ok" /\ primary' = "error" /\ pc' = "done"
           \/ end # "ok" /\ primary' = end
    BY <1>6 DEF Translate, Escape, IInv, Results, Operations
  <2>2. ~Contained([op |-> "translate", end |-> end])
    BY DEF Contained
  <2> QED
    BY <2>1, <2>2, NotedEscapes
<1>7. ASSUME NEW end \in Ends, NEW written \in BOOLEAN,
             Boundary(end, written) \/ Observe(end, written) \/ Publish(end, written)
      PROVE  Escapes'
  <2>1. PICK op \in {"boundary", "observe", "publish"} :
          /\ Noted(op, end) /\ primary = "none"
          /\ IF end = "ok" THEN primary' = primary ELSE primary' = end
    BY <1>7 DEF Boundary, Observe, Publish, Escape, Unwind, IInv, Results
  <2>2. op \in Operations /\ ~Contained([op |-> op, end |-> end])
    BY DEF Operations, Contained
  <2> QED
    BY <2>1, <2>2, NotedEscapes
<1>8. ASSUME NEW what, Return(what) \/ Raise(what) PROVE Escapes'
  BY <1>8 DEF Return, Raise, Escapes, Quiet, First
<1>9. ASSUME FactoryFails PROVE Escapes'
  <2>1. primary' = primary /\ trail' = trail /\ pc # "done"
    BY <1>9 DEF FactoryFails, Unwind
  <2> QED
    BY <2>1 DEF Escapes, Quiet, First
<1>10. ASSUME UNCHANGED vars PROVE Escapes'
  BY <1>10 DEF vars, Escapes, Quiet, First
<1>11. ASSUME Refuse PROVE Escapes'
  <2>1. /\ Noted("refuse", "error") /\ primary = "none" /\ primary' = "none"
        /\ "refuse" \in Operations /\ Contained([op |-> "refuse", end |-> "error"])
        /\ "error" \in Ends
    BY <1>11 DEF Refuse, IInv, Results, Operations, Contained, Ends
  <2> QED
    BY <2>1, NotedEscapes
<1> QED
  BY Actions, <1>1, <1>2, <1>3, <1>4, <1>5, <1>6, <1>7, <1>8, <1>9, <1>10, <1>11

\* What a history has, and what one more operation adds to it.
LEMMA NotedHad ==
  ASSUME trail \in Seq([op : Operations, end : Faults]), NEW op \in Operations,
         NEW end \in Ends, Noted(op, end)
  PROVE  \A o \in Operations :
           Had(o)' <=> Had(o) \/ (o = op /\ end # "ok")
<1>1. CASE end = "ok"
  BY <1>1 DEF Noted, Had
<1>2. CASE end # "ok"
  <2> DEFINE new == [op |-> op, end |-> end]
  <2>1. trail' = Append(trail, new) /\ new \in [op : Operations, end : Faults]
    BY <1>2 DEF Noted, Faults, Ends
  <2>2. /\ DOMAIN trail = 1..Len(trail) /\ DOMAIN trail' = 1..Len(trail) + 1
        /\ Len(trail) \in Nat
        /\ trail'[Len(trail) + 1] = new
        /\ \A k \in 1..Len(trail) : trail'[k] = trail[k]
    BY <2>1, AppendProperties
  <2>3. new.op = op
    OBVIOUS
  <2> HIDE DEF new
  <2> QED
    BY <1>2, <2>2, <2>3 DEF Had
<1> QED
  BY <1>1, <1>2

\* The frames of a call are what they are appended to.
LEMMA Frames ==
  ASSUME NEW a, NEW b
  PROVE  Append(<<>>, a) = <<a>> /\ Append(<<a>>, b) = <<a, b>>
<1> DEFINE S == {a, b}
           s == <<a>>
           t == <<a, b>>
<1>1. /\ s \in Seq(S) /\ t \in Seq(S) /\ b \in S
      /\ Len(s) = 1 /\ s[1] = a /\ Len(t) = 2 /\ t[1] = a /\ t[2] = b
  OBVIOUS
<1> HIDE DEF S, s, t
<1>2. Append(s, b) \in Seq(S)
  BY <1>1, AppendProperties
<1>3. Len(Append(s, b)) = Len(s) + 1
  BY <1>1, AppendProperties
<1>4. \A i \in 1..Len(s) : Append(s, b)[i] = s[i]
  BY <1>1, AppendProperties
<1>5. Append(s, b)[Len(s) + 1] = b
  BY <1>1, AppendProperties
<1>6. Append(s, b) = t
  BY <1>1, <1>2, <1>3, <1>4, <1>5, SeqEqual
<1>7. Append(<<>>, a) = <<a>>
  OBVIOUS
<1> QED
  BY <1>6, <1>7 DEF s, t

LEMMA ToldStep ==
  ASSUME IInv, Told, Next
  PROVE  Told'
<1>1. /\ trail \in Seq([op : Operations, end : Faults])
      /\ "close" \in Operations /\ "observe" \in Operations
      /\ None.how = "none"
  BY DEF IInv, TypeOK, Operations, None
<1>2. ASSUME NEW end \in Ends,
             Prepare(end) \/ Inject(end) \/ BuildHttp(end) \/ BuildSdk(end)
               \/ Carry(end) \/ Take(end)
      PROVE  Told'
  <2>1. PICK op \in {"prepare", "inject", "http", "sdk", "carry", "take"} :
          Noted(op, end)
    BY <1>2 DEF Prepare, Inject, BuildHttp, BuildSdk, Carry, Take
  <2>2. ~Had("close") /\ ~Had("close")'
    BY <1>1, <1>2, <2>1, NotedHad DEF Told, Operations, Prepare, Inject, BuildHttp,
       BuildSdk, Carry, Take
  <2>3. /\ answer' = None /\ journal' = <<>>
        /\ pc' \in {"http", "inject", "sdk", "carry", "factory_failed", "take",
                    "boundary", "cleanup", "done"}
        /\ pc' = "cleanup" => primary' # "none"
    BY <1>2 DEF Prepare, Inject, BuildHttp, BuildSdk, Carry, Take, Escape, Unwind,
       Told, Acquiring, Ends
  <2> QED
    BY <1>1, <2>2, <2>3 DEF Told, Acquiring
<1>3. ASSUME NEW end \in Ends, InterruptCall(end) PROVE Told'
  <2>1. ~Had("close")'
    BY <1>1, <1>3, NotedHad DEF InterruptCall, Told, Operations
  <2>2. /\ pc' = "cleanup" /\ primary' # "none" /\ journal' = Called
        /\ answer'.how = "interrupted"
    BY <1>3 DEF InterruptCall, Unwind, Told, Control
  <2> QED
    BY <2>1, <2>2 DEF Told, Acquiring, Called
<1>4. ASSUME NEW end \in Ends, Extract(end) \/ Normalize(end) PROVE Told'
  <2>1. ~Had("close")'
    BY <1>1, <1>4, NotedHad DEF Extract, Normalize, Told, Operations
  <2>2. /\ pc' = "cleanup" /\ journal' = Observed /\ answer' = answer /\ sdk' = sdk
        /\ sdk \in {"transport", "borrowed"} /\ answer.how \in {"returned", "raised"}
    BY <1>4 DEF Extract, Normalize, Told, IInv, Owners, Calling
  <2> QED
    BY <2>1, <2>2 DEF Told, Acquiring, Observed, Observation
<1>5. ASSUME NEW end \in Ends, Cleanup(end) PROVE Told'
  <2>1. /\ pc = "cleanup" /\ ~Had("close")
        /\ UNCHANGED <<journal, answer>>
        /\ Had("close")' <=> end # "ok"
        /\ Had("observe")' <=> Had("observe")
    BY <1>1, <1>5, NotedHad DEF Cleanup, Told, Operations
  <2>2. /\ pc' \in {"translate", "done"}
        /\ pc' = "translate" => primary = "none" /\ end = "ok"
        /\ sdk' = IF sdk = "transport" THEN "detached" ELSE sdk
    BY <1>5 DEF Cleanup, Escape
  <2> QED
    BY <2>1, <2>2 DEF Told, Acquiring, Observed, Called, Observation
<1>6. ASSUME NEW end \in Ends, Translate(end) PROVE Told'
  <2>1. ~Had("close")'
    BY <1>1, <1>6, NotedHad DEF Translate, Told, Operations
  <2>2. /\ pc' \in {"publish", "done"} /\ journal' = Observed /\ answer' = answer
        /\ sdk' = sdk /\ sdk \in {"detached", "borrowed"}
        /\ answer.how \in {"returned", "raised"}
    BY <1>6 DEF Translate, Escape, Told
  <2> QED
    BY <2>1, <2>2 DEF Told, Acquiring, Observed, Observation
<1>7. ASSUME NEW end \in Ends, NEW written \in BOOLEAN, Boundary(end, written)
      PROVE  Told'
  <2>1. ~Had("close")'
    BY <1>1, <1>7, NotedHad DEF Boundary, Told, Operations
  <2>2. /\ answer' = None /\ journal' \in {<<>>, Called}
        /\ \/ pc' = "call" /\ journal' = Called
           \/ pc' = "cleanup" /\ primary' # "none"
    BY <1>7, Frames DEF Boundary, Frame, Unwind, Told, Called, Ends
  <2> QED
    BY <1>1, <2>1, <2>2 DEF Told, Acquiring, Called
<1>8. ASSUME NEW end \in Ends, NEW written \in BOOLEAN, Observe(end, written)
      PROVE  Told'
  <2>1. ~Had("close")' /\ (end # "ok" => Had("observe")')
    BY <1>1, <1>8, NotedHad DEF Observe, Told, Operations
  <2>2. /\ answer' = answer /\ answer.how \in {"returned", "raised"}
        /\ journal = Called /\ journal' \in {Called, Observed}
        /\ \/ pc' = "digest" /\ journal' = Observed
           \/ pc' = "cleanup" /\ primary' # "none" /\ end # "ok"
    BY <1>8, Frames DEF Observe, Frame, Unwind, Told, Called, Observed, Ends, IInv,
       Results
  <2> QED
    BY <2>1, <2>2 DEF Told, Acquiring, Called, Observed, Observation
<1>9. ASSUME NEW end \in Ends, NEW written \in BOOLEAN, Publish(end, written)
      PROVE  Told'
  <2>1. ~Had("close")'
    BY <1>1, <1>9, NotedHad DEF Publish, Told, Operations
  <2>2. /\ answer' = answer /\ answer.how \in {"returned", "raised"} /\ pc' = "done"
        /\ journal' \in {Observed, Append(Observed, "outcome_observed")}
        /\ sdk' = sdk /\ sdk \in {"detached", "borrowed"}
    BY <1>9 DEF Publish, Frame, Escape, Told
  <2> QED
    BY <2>1, <2>2 DEF Told, Acquiring, Observed, Observation
<1>10. ASSUME NEW what, Return(what) \/ Raise(what) PROVE Told'
  <2>1. pc' = "observe" /\ journal' = Called /\ trail' = trail /\ ~Had("close")
    BY <1>10 DEF Return, Raise, Told
  <2> QED
    BY <2>1 DEF Told, Acquiring, Called, Had
<1>11. ASSUME FactoryFails PROVE Told'
  <2>1. /\ pc' = "cleanup" /\ journal' = <<>> /\ answer' = None /\ trail' = trail
        /\ primary' = primary /\ primary # "none" /\ ~Had("close")
    BY <1>11 DEF FactoryFails, Unwind, Told, Acquiring, IInv, Results
  <2> QED
    BY <1>1, <2>1 DEF Told, Acquiring, Had
<1>12. ASSUME UNCHANGED vars PROVE Told'
  BY <1>12 DEF vars, Told, Acquiring, Had, Observed, Called, Observation
<1>13. ASSUME Refuse PROVE Told'
  <2>1. ~Had("close")'
    BY <1>1, <1>13, NotedHad DEF Refuse, Told, Operations, Ends
  <2>2. /\ pc' = "publish" /\ journal' = Observed /\ answer' = answer
        /\ sdk' = sdk /\ sdk \in {"detached", "borrowed"}
        /\ answer.how \in {"returned", "raised"}
    BY <1>13 DEF Refuse, Told
  <2> QED
    BY <2>1, <2>2 DEF Told, Acquiring, Observed, Observation
<1> QED
  BY Actions, <1>2, <1>3, <1>4, <1>5, <1>6, <1>7, <1>8, <1>9, <1>10, <1>11, <1>12, <1>13

LEMMA StoryStep == Story /\ [Next]_vars => Story'
<1> SUFFICES ASSUME Story, [Next]_vars PROVE Story'
  OBVIOUS
<1>1. CASE Next
  BY <1>1, Preserved, VerdictsStep, EscapesStep, ToldStep DEF Story
<1>2. CASE UNCHANGED vars
  BY <1>2 DEF vars, Story, IInv, TypeOK, Owners, Results, Acquiring, Calling, Untouched,
     Released, Verdicts, Escapes, Quiet, First, Told, Had, Called, Observed, Observation
<1> QED
  BY <1>1, <1>2

-----------------------------------------------------------------------------
(* What the classifications say, for every exception and response.         *)

\* Everything a call can be reported as.
Reports ==
  {Malformed, Unknown, Rejected, Success} \cup FailurePairs
  \cup {Reject("malformed_provider_protocol", "tool_use"),
        Reject("policy_refusal", "content_filter")}
  \cup {Reject("incomplete_provider_result", f) :
          f \in {"length", "content_filter", "incomplete"}}

\* The conversion knows every classification of an exception.
LEMMA KnownFailures ==
  /\ Malformed \in FailurePairs /\ Unknown \in FailurePairs
  /\ \A e \in Exceptions : Normalized(e) \in FailurePairs
<1>1. Malformed \in FailurePairs /\ Unknown \in FailurePairs
  BY DEF Malformed, Unknown, FailurePairs, Provider, Transport
<1>2. \A e \in Exceptions : Classify429(e) \in FailurePairs
  BY DEF Classify429, FailurePairs, Provider
<1>3. \A e \in Exceptions : ClassifyStatus(e) \in FailurePairs
  BY <1>2 DEF ClassifyStatus, FailurePairs, Provider
<1>4. ASSUME NEW e \in Exceptions PROVE Normalized(e) \in FailurePairs
  BY <1>1, <1>2, <1>3 DEF Normalized, FailurePairs, Provider, Transport
<1> QED
  BY <1>1, <1>4

\* The contract accepts them, and every classification of a response.
LEMMA KnownResponses ==
  ASSUME NEW r \in Responses
  PROVE  Translated(r) \in Reports
<1>1. Incomplete(r) \in Reports
  BY DEF Incomplete, Reports
<1> QED
  BY <1>1 DEF Translated, Reports

LEMMA Accepted == \A o \in Reports : ContractAccepts(o)
BY DEF Reports, ContractAccepts, ProviderErrorOnly, FailurePairs, Provider, Transport,
   Malformed, Unknown, Rejected, Reject, Success

\* Only an exception that is transient is classified as such.
LEMMA TransientFailures ==
  ASSUME NEW e \in Exceptions, Normalized(e).category \in Retryable
  PROVE  \/ e.class \in {"APITimeoutError", "APIConnectionError", "InternalServerError"}
         \/ /\ e.class \in {"RateLimitError", "APIStatusError"}
            /\ e.code = "rate_limit" /\ e.type # "quota"
         \/ e.class = "APIStatusError" /\ e.status \in 500..599
<1>1. Classify429(e).category \in Retryable => e.code = "rate_limit" /\ e.type # "quota"
  BY DEF Classify429, Retryable, Provider
<1>2. ClassifyStatus(e).category \in Retryable =>
        e.status \in 500..599 \/ (e.code = "rate_limit" /\ e.type # "quota")
  BY <1>1 DEF ClassifyStatus, Retryable, Provider
<1> QED
  BY <1>1, <1>2 DEF Normalized, Exceptions, ExceptionClasses, Retryable, Malformed, Unknown,
     Provider, Transport

\* No response is, and only a complete one is a success.
LEMMA ResponseVerdicts ==
  ASSUME NEW r \in Responses
  PROVE  /\ Translated(r).category \notin Retryable
         /\ Translated(r).kind = "success" =>
              /\ r.formed /\ r.envelope /\ ~r.error
              /\ r.status = "completed" /\ r.details = "absent" /\ r.parts = {"text"}
<1>1. Incomplete(r).category \notin Retryable /\ Incomplete(r).kind # "success"
  BY DEF Incomplete, Reject, Rejected, Retryable
<1>2. Translated(r).category \notin Retryable
  BY <1>1 DEF Translated, Rejected, Reject, Success, Retryable
<1>3. ASSUME Translated(r).kind = "success"
      PROVE  /\ ~Incoherent(r) /\ "tool" \notin r.parts /\ "refusal" \notin r.parts
             /\ r.status \notin {"incomplete", "other"} /\ r.envelope
  BY <1>1, <1>3 DEF Translated, Rejected, Reject
<1>4. ASSUME Translated(r).kind = "success"
      PROVE  /\ r.formed /\ ~r.error /\ r.status = "completed" /\ r.details = "absent"
             /\ "text" \in r.parts /\ r.parts \subseteq {"text", "refusal", "tool"}
  BY <1>3, <1>4 DEF Incoherent, Responses
<1> QED
  BY <1>2, <1>3, <1>4

\* The frames of a dispatch that reported its outcome.
Full == Append(Observed, "outcome_observed")

LEMMA FrameIndices ==
  /\ Called # <<>> /\ Len(Called) = 1 /\ Called[1] = "sdk_call_boundary"
  /\ Observed # <<>> /\ Len(Observed) = 2
  /\ Observed[1] = "sdk_call_boundary" /\ Observed[2] = Observation
  /\ Full # <<>> /\ Len(Full) = 3 /\ Full[1] = "sdk_call_boundary"
  /\ Full[2] = Observation /\ Full[3] = "outcome_observed"
  /\ DOMAIN Called = 1..1 /\ DOMAIN Observed = 1..2 /\ DOMAIN Full = 1..3
<1> DEFINE S == {"sdk_call_boundary", Observation, "outcome_observed"}
<1>1. Called # <<>> /\ Len(Called) = 1 /\ Called[1] = "sdk_call_boundary" /\ DOMAIN Called = 1..1
  BY DEF Called
<1>2. /\ Observed # <<>> /\ Len(Observed) = 2 /\ Observed[1] = "sdk_call_boundary"
      /\ Observed[2] = Observation /\ DOMAIN Observed = 1..2
  BY DEF Observed
<1>3. Observed \in Seq(S) /\ "outcome_observed" \in S
  BY DEF Observed
<1> HIDE DEF S
<1>4. Full \in Seq(S) /\ Full # <<>>
  BY <1>3, AppendProperties DEF Full
<1>5. Len(Full) = Len(Observed) + 1
  BY <1>3, AppendProperties DEF Full
<1>6. \A i \in 1..Len(Observed) : Full[i] = Observed[i]
  BY <1>3, AppendProperties DEF Full
<1>7. Full[Len(Observed) + 1] = "outcome_observed"
  BY <1>3, AppendProperties DEF Full
<1>8. DOMAIN Full = 1..3
  BY <1>2, <1>4, <1>5
<1> QED
  BY <1>1, <1>2, <1>4, <1>5, <1>6, <1>7, <1>8

\* What the journal can be, wherever the dispatch is.
LEMMA JournalShapes ==
  ASSUME Story
  PROVE  /\ answer.how = "none" => journal \in {<<>>, Called}
         /\ answer.how # "none" => journal \in {Called, Observed, Full}
         /\ answer.how \in {"returned", "raised"} /\ closes.sdk = 1 /\ journal = Called
              => Had("observe")
         /\ journal = Full => sdk \in {"detached", "borrowed"} /\ ~Had("close")
<1> USE DEF Story, Told
<1>1. /\ pc \in {"prepare", "inject", "http", "sdk", "carry", "factory_failed",
                 "take", "boundary", "call", "observe", "digest", "cleanup",
                 "translate", "publish", "done"}
      /\ answer.how \in {"none", "returned", "raised", "interrupted"}
      /\ None.how = "none"
  BY DEF IInv, TypeOK, None
<1>2. <<>> # Full /\ Called # Full /\ Observed # Full /\ Called # Observed
  BY FrameIndices
<1>3. CASE Acquiring \/ pc = "boundary"
  BY <1>1, <1>2, <1>3
<1>4. CASE pc = "call"
  BY <1>1, <1>2, <1>4
<1>5. CASE pc \in {"observe", "digest"}
  <2>1. closes.sdk = 0 /\ answer.how \in {"returned", "raised"}
    BY <1>5 DEF IInv, Owners, Results, Calling, Untouched
  <2> QED
    BY <1>2, <1>5, <2>1
<1>6. CASE pc \in {"translate", "publish"}
  BY <1>2, <1>6
<1>7. CASE pc \in {"cleanup", "done"}
  BY <1>1, <1>2, <1>7 DEF Full
<1> QED
  BY <1>1, <1>3, <1>4, <1>5, <1>6, <1>7 DEF Acquiring

-----------------------------------------------------------------------------
(* The theorems.                                                           *)

\* The inductive invariant holds in every reachable state.
THEOREM Invariance == Spec => []IInv
<1>1. IInv /\ [Next]_vars => IInv'
  <2>1. IInv /\ UNCHANGED vars => IInv'
    BY DEF vars, IInv, TypeOK, Owners, Results, Acquiring, Calling, Untouched,
       Released
  <2> QED
    BY <2>1, Preserved
<1> QED
  BY InitInvariant, <1>1, PTL DEF Spec

\* Every variable keeps its type; in particular nothing is closed twice.
THEOREM TypeCorrect == Spec => []TypeOK
<1>1. IInv => TypeOK
  BY DEF IInv
<1> QED
  BY <1>1, Invariance, PTL

\* Whatever fails, an owned client has been closed exactly once when the
\* dispatch is over, and a borrowed one never.
THEOREM ClosedOnce == Spec => []ClosedExactlyOnce
<1>1. IInv => ClosedExactlyOnce
  BY DEF IInv, Owners, Released, Untouched, ClosedExactlyOnce
<1> QED
  BY <1>1, Invariance, PTL

\* What is told of the call holds in every reachable state.
THEOREM StoryInvariance == Spec => []Story
<1>1. Init => Story
  BY InitInvariant, InitStory DEF Story
<1> QED
  BY <1>1, StoryStep, PTL DEF Spec

\* Whatever fails, and wherever an append leaves its frame behind, the journal
\* tells how the call went.
THEOREM JournalTells == Spec => []JournalTellsTheCall
<1>1. ASSUME Story PROVE JournalTellsTheCall
  <2>1. answer.how # "none" => journal # <<>> /\ journal[1] = "sdk_call_boundary"
    BY <1>1, JournalShapes, FrameIndices
  <2>2. answer.how \in {"returned", "raised"} /\ closes.sdk = 1 =>
          \/ Len(journal) >= 2 /\ journal[2] = Observation
          \/ \E k \in DOMAIN trail : trail[k].op = "observe"
    BY <1>1, JournalShapes, FrameIndices DEF Had
  <2>3. ASSUME NEW i \in DOMAIN journal, journal[i] = "outcome_observed"
        PROVE  journal = Full /\ i = 3
    BY <1>1, <2>3, JournalShapes, FrameIndices DEF Observation
  <2>4. journal = Full => /\ Len(journal) = 3 /\ journal[2] = Observation
                          /\ sdk \in {"detached", "borrowed"}
                          /\ \A k \in DOMAIN trail : trail[k].op # "close"
    BY <1>1, JournalShapes, FrameIndices DEF Had
  <2>5. ASSUME NEW i \in DOMAIN journal, journal[i] = "outcome_observed"
        PROVE  i = Len(journal) /\ journal[i - 1] = Observation
    <3>1. i = 3 /\ i - 1 = 2 /\ Len(journal) = 3 /\ journal[2] = Observation
      BY <2>3, <2>4, <2>5
    <3> QED
      BY <3>1
  <2> QED
    BY <2>1, <2>2, <2>3, <2>4, <2>5 DEF JournalTellsTheCall
<1> QED
  BY <1>1, StoryInvariance, PTL

\* The exception that leaves the dispatch is the first that nothing contained,
\* however the close ends (the finally block of the transport).
THEOREM FirstStands == Spec => []FirstEscapeStands
<1>1. Story => FirstEscapeStands
  BY DEF Story, Escapes, Quiet, First, FirstEscapeStands
<1> QED
  BY <1>1, StoryInvariance, PTL

\* Only a transient exception of the SDK is reported as one the runner retries.
THEOREM TransientRetryable == Spec => []OnlyTransientIsRetryable
<1>1. ASSUME Story PROVE OnlyTransientIsRetryable
  <2> SUFFICES ASSUME outcome # None, outcome.category \in Retryable
               PROVE  /\ answer.how = "raised"
                      /\ \/ answer.what.class \in {"APITimeoutError", "APIConnectionError",
                                                   "InternalServerError"}
                         \/ /\ answer.what.class \in {"RateLimitError", "APIStatusError"}
                            /\ answer.what.code = "rate_limit" /\ answer.what.type # "quota"
                         \/ /\ answer.what.class = "APIStatusError"
                            /\ answer.what.status \in 500..599
    BY DEF OnlyTransientIsRetryable, IsRetryCandidate
  <2>1. {Malformed.category, Rejected.category, Unknown.category} \cap Retryable = {}
    BY DEF Malformed, Rejected, Reject, Unknown, Provider, Transport, Retryable
  <2>2. ~(answer.how = "returned"
            /\ outcome \in {Malformed, Rejected, Translated(answer.what)})
    BY <1>1, <2>1, ResponseVerdicts DEF Story, Verdicts
  <2>3. /\ answer.how = "raised" /\ answer.what \in Exceptions
        /\ outcome = Normalized(answer.what)
    BY <1>1, <2>1, <2>2 DEF Story, Verdicts
  <2> QED
    BY <2>3, TransientFailures
<1> QED
  BY <1>1, StoryInvariance, PTL

\* Only a completed response with text and nothing else is reported a success.
THEOREM CompleteSuccess == Spec => []SuccessIsComplete
<1>1. ASSUME Story PROVE SuccessIsComplete
  <2> SUFFICES ASSUME outcome # None, outcome.kind = "success"
               PROVE  /\ answer.how = "returned" /\ answer.what \in Responses
                      /\ outcome = Translated(answer.what)
    BY ResponseVerdicts DEF SuccessIsComplete
  <2>1. "success" \notin {Malformed.kind, Rejected.kind, Unknown.kind}
    BY DEF Malformed, Rejected, Reject, Unknown, Provider, Transport
  <2>2. \A e \in Exceptions : Normalized(e).kind # "success"
    BY KnownFailures DEF FailurePairs, Provider, Transport
  <2> QED
    BY <1>1, <2>1, <2>2 DEF Story, Verdicts
<1> QED
  BY <1>1, StoryInvariance, PTL

\* The conversion and the neutral contract take whatever the adapter made of the
\* call (_OPENAI_TRANSPORT_FAILURE_PAIRS, parse_provider_call_outcome).
THEOREM OutcomesAccepted == Spec => []OutcomeIsAccepted
<1>1. ASSUME Story PROVE OutcomeIsAccepted
  <2>1. pending.how = "failure" => pending.what \in FailurePairs
    BY <1>1, KnownFailures DEF Story, Verdicts
  <2>2. outcome # None => outcome \in Reports
    BY <1>1, KnownFailures, KnownResponses DEF Story, Verdicts, Reports
  <2> QED
    BY <2>1, <2>2, Accepted DEF OutcomeIsAccepted
<1> QED
  BY <1>1, StoryInvariance, PTL
=============================================================================
