---------------------------- MODULE OpenAIClient ----------------------------
(***************************************************************************)
(* One dispatch of the OpenAI adapter inside the worker process:           *)
(* openai_responses_skeleton, _perform_openai_responses_transport and the  *)
(* client factory (openai_adapter.py).  The HTTP client, then the SDK      *)
(* client that takes it over, change owner several times, and every        *)
(* operation on the way may fail or be interrupted.                        *)
(*                                                                         *)
(* A call into Python, the SDK, the store or the journal is one step and   *)
(* ends "ok", with an "error", or with a control exception ("keyboard",    *)
(* "exit"); a control exception lands in such a call, never between two.   *)
(***************************************************************************)
EXTENDS OpenAIFailure, Sequences

CONSTANTS
  Sources,    \* where the client comes from: "default", or an injected
              \* factory's "borrowed" object or ownership "carrier"
  Raised,     \* the exceptions the SDK call may raise
  Returned    \* the responses it may return

ASSUME ClientAssumption ==
  /\ Sources \subseteq {"default", "borrowed", "carrier"}
  /\ Raised \subseteq Exceptions /\ Returned \subseteq Responses

VARIABLES
  pc, source,
  http,       \* the HTTP client: "none", "factory" or, taken over, "sdk"
  sdk,        \* the SDK client: "none", "factory", "carrier", "transport",
              \* "borrowed" or, its close attempted, "detached"
  closes,     \* history: close attempts on each of the two
  primary,    \* the exception in flight, or the status of a failed factory
  pending,    \* pending_result
  answer,     \* how responses.create ended, and with what
  outcome,    \* what the worker is to report
  journal,    \* the frames appended to the attempt's journal
  trail       \* history: the operations that ended badly, with their end

vars == <<pc, source, http, sdk, closes, primary, pending, answer, outcome,
          journal, trail>>

Ends    == {"ok", "error", "keyboard", "exit"}
Faults  == Ends \ {"ok"}
Control == {"keyboard", "exit"}
None    == [how |-> "none"]

Noted(op, end) ==
  trail' = IF end = "ok" THEN trail ELSE Append(trail, [op |-> op, end |-> end])

\* The exception leaves the skeleton.
Escape(end) == primary' = end /\ pc' = "done"

\* The exception leaves the transport's try block.
Unwind(end) == primary' = end /\ pc' = "cleanup"

-----------------------------------------------------------------------------
(* Acquisition.                                                            *)

\* The credential, the translated request and their validation.
Prepare(end) ==
  /\ pc = "prepare"
  /\ IF end = "ok"
     THEN /\ pc' = IF source = "default" THEN "http" ELSE "inject"
          /\ UNCHANGED primary
     ELSE Escape(end)
  /\ Noted("prepare", end)
  /\ UNCHANGED <<source, http, sdk, closes, pending, answer, outcome, journal>>

\* build_openai_client with an injected factory.
Inject(end) ==
  /\ pc = "inject"
  /\ IF end = "ok"
     THEN /\ sdk' = source
          /\ pc' = IF source = "carrier" THEN "take" ELSE "boundary"
          /\ UNCHANGED primary
     ELSE Unwind(end) /\ UNCHANGED sdk
  /\ Noted("inject", end)
  /\ UNCHANGED <<source, http, closes, pending, answer, outcome, journal>>

\* _default_openai_client_factory: the SDK import and the bounded HTTP client.
BuildHttp(end) ==
  /\ pc = "http"
  /\ IF end = "ok" THEN http' = "factory" /\ pc' = "sdk" /\ UNCHANGED primary
     ELSE primary' = end /\ pc' = "factory_failed" /\ UNCHANGED http
  /\ Noted("http", end)
  /\ UNCHANGED <<source, sdk, closes, pending, answer, outcome, journal>>

\* The SDK client takes the HTTP client over.
BuildSdk(end) ==
  /\ pc = "sdk"
  /\ IF end = "ok"
     THEN /\ sdk' = "factory" /\ http' = "sdk" /\ pc' = "carry"
          /\ UNCHANGED primary
     ELSE primary' = end /\ pc' = "factory_failed" /\ UNCHANGED <<http, sdk>>
  /\ Noted("sdk", end)
  /\ UNCHANGED <<source, closes, pending, answer, outcome, journal>>

Carry(end) ==
  /\ pc = "carry"
  /\ IF end = "ok" THEN sdk' = "carrier" /\ pc' = "take" /\ UNCHANGED primary
     ELSE primary' = end /\ pc' = "factory_failed" /\ UNCHANGED sdk
  /\ Noted("carry", end)
  /\ UNCHANGED <<source, http, closes, pending, answer, outcome, journal>>

\* Mutant: the factory closes the HTTP client whatever it has built.
FactoryFailsHttp ==
  /\ pc = "factory_failed"
  /\ closes' = [closes EXCEPT !.http = @ + 1]
  /\ http' = "none" /\ sdk' = "none"
  /\ Unwind(primary)
  /\ UNCHANGED <<source, pending, answer, outcome, journal, trail>>

\* The factory closes what it owns, the SDK client before the HTTP client, and
\* raises a fresh exception; how the close ends does not matter.
FactoryFails ==
  /\ pc = "factory_failed"
  /\ closes' = CASE sdk = "factory" -> [closes EXCEPT !.sdk = @ + 1]
                 [] sdk # "factory" /\ http = "factory" ->
                      [closes EXCEPT !.http = @ + 1]
                 [] OTHER -> closes
  /\ sdk' = IF sdk = "factory" THEN "detached" ELSE sdk
  /\ Unwind(primary)
  /\ UNCHANGED <<source, http, pending, answer, outcome, journal, trail>>

\* carrier._take(); only an injected carrier may have been taken before.
Take(end) ==
  /\ pc = "take"
  /\ end = "ok" \/ (source = "carrier" /\ end = "error")
  /\ IF end = "ok"
     THEN sdk' = "transport" /\ pc' = "boundary" /\ UNCHANGED primary
     ELSE sdk' = "none" /\ Unwind(end)
  /\ Noted("take", end)
  /\ UNCHANGED <<source, http, closes, pending, answer, outcome, journal>>

-----------------------------------------------------------------------------
(* The call.                                                               *)

\* A journal frame; an append may fail with its frame already written.
Frame(event, end, written) ==
  /\ end = "ok" => written
  /\ journal' = IF written THEN Append(journal, event) ELSE journal

Boundary(end, written) ==
  /\ pc = "boundary"
  /\ Frame("sdk_call_boundary", end, written)
  /\ IF end = "ok" THEN pc' = "call" /\ UNCHANGED primary ELSE Unwind(end)
  /\ Noted("boundary", end)
  /\ UNCHANGED <<source, http, sdk, closes, pending, answer, outcome>>

Return(response) ==
  /\ pc = "call"
  /\ answer' = [how |-> "returned", what |-> response] /\ pc' = "observe"
  /\ UNCHANGED <<source, http, sdk, closes, primary, pending, outcome, journal,
                 trail>>

Raise(exception) ==
  /\ pc = "call"
  /\ answer' = [how |-> "raised", what |-> exception] /\ pc' = "observe"
  /\ UNCHANGED <<source, http, sdk, closes, primary, pending, outcome, journal,
                 trail>>

InterruptCall(end) ==
  /\ pc = "call" /\ end \in Control
  /\ answer' = [how |-> "interrupted"] /\ Unwind(end)
  /\ Noted("call", end)
  /\ UNCHANGED <<source, http, sdk, closes, pending, outcome, journal>>

Observation == IF answer.how = "returned" THEN "sdk_return_observed"
               ELSE "sdk_exception_observed"

Observe(end, written) ==
  /\ pc = "observe"
  /\ Frame(Observation, end, written)
  /\ IF end = "ok" THEN pc' = "digest" /\ UNCHANGED primary ELSE Unwind(end)
  /\ Noted("observe", end)
  /\ UNCHANGED <<source, http, sdk, closes, pending, answer, outcome>>

\* _extract_openai_sdk_response: a response that cannot be read is malformed.
Extract(end) ==
  /\ pc = "digest" /\ answer.how = "returned"
  /\ pc' = "cleanup"
  /\ CASE end = "ok"    -> pending' = [how |-> "response"] /\ UNCHANGED primary
       [] end = "error" -> /\ pending' = [how |-> "failure", what |-> Malformed]
                           /\ UNCHANGED primary
       [] OTHER         -> primary' = end /\ UNCHANGED pending
  /\ Noted("extract", end)
  /\ UNCHANGED <<source, http, sdk, closes, answer, outcome, journal>>

\* _normalize_openai_sdk_exception, which nothing escapes.
Normalize(end) ==
  /\ pc = "digest" /\ answer.how = "raised"
  /\ pc' = "cleanup"
  /\ pending' = [how |-> "failure",
                 what |-> IF end = "ok" THEN Normalized(answer.what) ELSE Unknown]
  /\ Noted("normalize", end)
  /\ UNCHANGED <<source, http, sdk, closes, primary, answer, outcome, journal>>

-----------------------------------------------------------------------------
(* Cleanup and publication.                                                *)

\* Mutant: a failed close replaces the exception that is escaping.
CleanupOverrides(end) ==
  /\ pc = "cleanup"
  /\ sdk # "transport" => end = "ok"
  /\ IF sdk = "transport"
     THEN sdk' = "detached" /\ closes' = [closes EXCEPT !.sdk = @ + 1]
     ELSE UNCHANGED <<sdk, closes>>
  /\ Noted("close", end)
  /\ CASE end # "ok"        -> Escape(end) /\ pending' = None
       [] primary # "none"  -> Escape(primary) /\ UNCHANGED pending
       [] OTHER             -> pc' = "translate" /\ UNCHANGED <<primary, pending>>
  /\ UNCHANGED <<source, http, answer, outcome, journal>>

\* Mutant: a close that fails is only noted.
CleanupTolerant(end) ==
  /\ pc = "cleanup"
  /\ sdk # "transport" => end = "ok"
  /\ IF sdk = "transport"
     THEN sdk' = "detached" /\ closes' = [closes EXCEPT !.sdk = @ + 1]
     ELSE UNCHANGED <<sdk, closes>>
  /\ Noted("close", end)
  /\ CASE primary # "none" -> Escape(primary) /\ UNCHANGED pending
       [] OTHER            -> pc' = "translate" /\ UNCHANGED <<primary, pending>>
  /\ UNCHANGED <<source, http, answer, outcome, journal>>

\* The finally block: what the transport owns is closed, once.  An exception
\* that is escaping goes on; otherwise a failed close takes the result's place.
Cleanup(end) ==
  /\ pc = "cleanup"
  /\ sdk # "transport" => end = "ok"
  /\ IF sdk = "transport"
     THEN sdk' = "detached" /\ closes' = [closes EXCEPT !.sdk = @ + 1]
     ELSE UNCHANGED <<sdk, closes>>
  /\ Noted("close", end)
  /\ CASE primary # "none"  -> Escape(primary) /\ UNCHANGED pending
       [] primary = "none" /\ end # "ok" -> Escape(end) /\ pending' = None
       [] OTHER             -> pc' = "translate" /\ UNCHANGED <<primary, pending>>
  /\ UNCHANGED <<source, http, answer, outcome, journal>>

\* translate_openai_responses_result or _openai_transport_failure_outcome.  What
\* either raises escapes, as does the protocol error for an unknown pair.
Translate(end) ==
  /\ pc = "translate"
  /\ LET response == pending.how = "response"
         known    == response \/ pending.what \in FailurePairs
     IN IF end # "ok" \/ ~known
        THEN Escape(IF end = "ok" THEN "error" ELSE end) /\ UNCHANGED outcome
        ELSE /\ outcome' = IF response THEN Translated(answer.what)
                          ELSE pending.what
             /\ pc' = "publish" /\ UNCHANGED primary
  /\ Noted("translate", end)
  /\ UNCHANGED <<source, http, sdk, closes, pending, answer, journal>>

\* A response that cannot be ingested, and one whose text the stage's contract
\* refuses (_OpenAITranslationReject, LiveContractError), is rejected.
Refuse ==
  /\ pc = "translate" /\ pending.how = "response"
  /\ outcome' = Rejected
  /\ pc' = "publish"
  /\ Noted("refuse", "error")
  /\ UNCHANGED <<source, http, sdk, closes, primary, pending, answer, journal>>

\* lifecycle.outcome
Publish(end, written) ==
  /\ pc = "publish"
  /\ Frame("outcome_observed", end, written)
  /\ IF end = "ok" THEN pc' = "done" /\ UNCHANGED primary ELSE Escape(end)
  /\ Noted("publish", end)
  /\ UNCHANGED <<source, http, sdk, closes, pending, answer, outcome>>

Terminated == pc = "done" /\ UNCHANGED vars

-----------------------------------------------------------------------------
Init ==
  /\ pc = "prepare" /\ source \in Sources
  /\ http = "none" /\ sdk = "none" /\ closes = [http |-> 0, sdk |-> 0]
  /\ primary = "none" /\ pending = None /\ answer = None
  /\ outcome = None /\ journal = <<>> /\ trail = <<>>

Next ==
  \/ \E end \in Ends :
       \/ Prepare(end) \/ Inject(end) \/ BuildHttp(end) \/ BuildSdk(end)
       \/ Carry(end) \/ Take(end) \/ InterruptCall(end) \/ Extract(end)
       \/ Normalize(end) \/ Cleanup(end) \/ Translate(end)
  \/ \E end \in Ends, written \in BOOLEAN :
       Boundary(end, written) \/ Observe(end, written) \/ Publish(end, written)
  \/ \E response \in Returned : Return(response)
  \/ \E exception \in Raised : Raise(exception)
  \/ FactoryFails \/ Refuse \/ Terminated

Spec == Init /\ [][Next]_vars

-----------------------------------------------------------------------------
(* Properties.                                                             *)

Operations == {"prepare", "inject", "http", "sdk", "carry", "take", "boundary",
               "call", "observe", "extract", "normalize", "close", "translate",
               "refuse", "publish"}

TypeOK ==
  /\ pc \in {"prepare", "inject", "http", "sdk", "carry", "factory_failed",
             "take", "boundary", "call", "observe", "digest", "cleanup",
             "translate", "publish", "done"}
  /\ source \in Sources /\ http \in {"none", "factory", "sdk"}
  /\ sdk \in {"none", "factory", "carrier", "transport", "borrowed", "detached"}
  /\ closes \in [http : 0..1, sdk : 0..1]
  /\ primary \in {"none"} \cup Faults
  /\ pending.how \in {"none", "response", "failure"}
  /\ answer.how \in {"none", "returned", "raised", "interrupted"}
  /\ trail \in Seq([op : Operations, end : Faults])

\* Whatever fails, and however the exits nest, a client the adapter owns has
\* been closed exactly once when the dispatch is over: the SDK client if it was
\* built, and then never the HTTP client it took over, which the factory closes
\* only if the SDK client could not be built.  A borrowed client is not closed.
ClosedExactlyOnce ==
  pc = "done" =>
    CASE sdk = "detached" -> closes = [http |-> 0, sdk |-> 1]
      [] sdk = "none" /\ http = "factory" -> closes = [http |-> 1, sdk |-> 0]
      [] OTHER -> /\ sdk \in {"none", "borrowed"} /\ http = "none"
                  /\ closes = [http |-> 0, sdk |-> 0]

\* The journal tells how the call went.  When the client is closed it says that
\* the call was made and, unless that append failed, how it ended; an outcome
\* frame follows the call's own observation and a successful close, and is last.
JournalTellsTheCall ==
  /\ answer.how # "none" => journal # <<>> /\ journal[1] = "sdk_call_boundary"
  /\ answer.how \in {"returned", "raised"} /\ closes.sdk = 1 =>
       \/ Len(journal) >= 2 /\ journal[2] = Observation
       \/ \E k \in DOMAIN trail : trail[k].op = "observe"
  /\ \A i \in DOMAIN journal : journal[i] = "outcome_observed" =>
       /\ i = Len(journal) /\ journal[i - 1] = Observation
       /\ sdk \in {"detached", "borrowed"}
       /\ \A k \in DOMAIN trail : trail[k].op # "close"

\* The exception that leaves is that of the first operation whose failure is
\* not contained; a failed close counts only if nothing was escaping already.
Contained(fault) ==
  \/ fault.op \in {"normalize", "refuse"}
  \/ fault.op = "extract" /\ fault.end = "error"
FirstEscapeStands ==
  pc = "done" =>
    LET escaping == {k \in DOMAIN trail : ~Contained(trail[k])}
    IN \/ escaping = {} /\ primary \in {"none", "error"}
       \/ \E k \in escaping : /\ \A j \in escaping : k <= j
                              /\ primary = trail[k].end

\* What the runner may retry is a call that never reached an answer, a rate
\* limit nothing in the error calls a quota, or a server error: never a
\* response, whatever became of it, and never a client error.
OnlyTransientIsRetryable ==
  pc = "done" /\ outcome # None /\ IsRetryCandidate(outcome.category) =>
    /\ answer.how = "raised"
    /\ \/ answer.what.class \in {"APITimeoutError", "APIConnectionError",
                                 "InternalServerError"}
       \/ /\ answer.what.class \in {"RateLimitError", "APIStatusError"}
          /\ answer.what.code = "rate_limit" /\ answer.what.type # "quota"
       \/ answer.what.class = "APIStatusError" /\ answer.what.status \in 500..599

\* Only a completed response with text and nothing else is a success.
SuccessIsComplete ==
  outcome # None /\ outcome.kind = "success" =>
    /\ answer.how = "returned"
    /\ answer.what.formed /\ answer.what.envelope /\ ~answer.what.error
    /\ answer.what.status = "completed" /\ answer.what.details = "absent"
    /\ answer.what.parts = {"text"}

\* A failure of the provider is never turned into a protocol error of the
\* worker: the conversion knows every classification of an SDK exception, and
\* the neutral contract accepts every outcome made of it or of a response.
OutcomeIsAccepted ==
  /\ pending.how = "failure" => pending.what \in FailurePairs
  /\ outcome # None => ContractAccepts(outcome)
=============================================================================
