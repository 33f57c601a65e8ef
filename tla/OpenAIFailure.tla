---------------------------- MODULE OpenAIFailure ---------------------------
(***************************************************************************)
(* What the OpenAI adapter makes of an exception of the SDK and of a       *)
(* response (openai_adapter.py): the kind, category and finish reason of   *)
(* the outcome the worker reports.                                         *)
(*                                                                         *)
(* An exception is its most specific SDK class, status, code and type; a   *)
(* response is what the classification asks of it.                         *)
(***************************************************************************)
EXTENDS Integers, RetryPolicy

\* "guard" is the body guard's rejection, raised or as the immediate cause,
\* "opaque" an exception whose fields cannot be read.
ExceptionClasses ==
  {"AuthenticationError", "PermissionDeniedError", "BadRequestError",
   "UnprocessableEntityError", "NotFoundError", "ConflictError",
   "RateLimitError", "InternalServerError", "APIResponseValidationError",
   "APITimeoutError", "APIConnectionError", "APIStatusError", "unlisted",
   "guard", "opaque"}

\* The SDK sets a status only on what it derives from APIStatusError; the
\* classification reads it for those it does not list.
Statuses == {418, 429, 500, 599, 600}
Exceptions ==
  [class : ExceptionClasses, status : Statuses,
   code : {"quota", "rate_limit", "other"}, type : {"quota", "other"}]

Provider(category)  == [kind |-> "provider_error", category |-> category]
Transport(category) == [kind |-> "transport_error", category |-> category]

Malformed == Provider("malformed_provider_protocol")
Unknown   == Transport("unknown_sanitized_failure")

\* Mutant: the error's type is not asked.
Classify429ByCode(e) ==
  Provider(CASE e.code = "quota"      -> "quota_exhausted"
             [] e.code = "rate_limit" -> "rate_limit"
             [] OTHER                 -> "unknown_sanitized_failure")

\* _classify_openai_429: a contradiction is not a rate limit.
Classify429(e) ==
  Provider(CASE e.code = "quota" -> "quota_exhausted"
             [] e.code = "rate_limit" /\ e.type # "quota" -> "rate_limit"
             [] OTHER -> "unknown_sanitized_failure")

\* Mutant: a server error without a class is taken for a transport error.
ClassifyStatusAsTransport(e) ==
  CASE e.status \in 500..599 -> Transport("provider_overload_internal")
    [] e.status = 429        -> Classify429(e)
    [] OTHER                 -> Provider("unknown_sanitized_failure")

\* An APIStatusError of no class of its own.
ClassifyStatus(e) ==
  CASE e.status \in 500..599 -> Provider("provider_overload_internal")
    [] e.status = 429        -> Classify429(e)
    [] OTHER                 -> Provider("unknown_sanitized_failure")

\* _normalize_openai_sdk_exception.  The SDK's APITimeoutError is also an
\* APIConnectionError and is asked for first.
Normalized(e) ==
  CASE e.class = "guard"                      -> Malformed
    [] e.class = "opaque"                     -> Unknown
    [] e.class = "AuthenticationError"        -> Provider("authentication_configuration")
    [] e.class = "PermissionDeniedError"      -> Provider("permission")
    [] e.class \in {"BadRequestError", "UnprocessableEntityError"}
                                              -> Provider("invalid_request")
    [] e.class = "NotFoundError"              -> Provider("model_unavailable")
    [] e.class = "ConflictError"              -> Provider("unknown_sanitized_failure")
    [] e.class = "RateLimitError"             -> Classify429(e)
    [] e.class = "InternalServerError"        -> Provider("provider_overload_internal")
    [] e.class = "APIResponseValidationError" -> Malformed
    [] e.class = "APITimeoutError"            -> Transport("transport_provider_timeout")
    [] e.class = "APIConnectionError"         -> Transport("transport_connectivity")
    [] e.class = "APIStatusError"             -> ClassifyStatus(e)
    [] OTHER                                  -> Unknown

\* _OPENAI_TRANSPORT_FAILURE_PAIRS: what the conversion to an outcome accepts.
FailurePairs ==
  {Provider(c) : c \in {"authentication_configuration", "permission",
                        "model_unavailable", "invalid_request", "rate_limit",
                        "provider_overload_internal",
                        "malformed_provider_protocol", "quota_exhausted",
                        "unknown_sanitized_failure"}}
  \cup {Transport(c) : c \in {"transport_connectivity",
                              "transport_provider_timeout",
                              "unknown_sanitized_failure"}}

-----------------------------------------------------------------------------
(* Responses.                                                              *)

\* formed: the object, its output items and the aggregated text are as the
\* protocol says; parts: which parts its messages have; text: their joined
\* text is not empty; envelope: the text is the stage output asked for.
Responses ==
  {r \in [formed : BOOLEAN, status : {"completed", "incomplete", "other"},
          parts : SUBSET {"text", "refusal", "tool"}, text : BOOLEAN,
          details : {"absent", "no_reason", "length", "content_filter", "bad"},
          error : BOOLEAN, envelope : BOOLEAN] :
     /\ r.text => "text" \in r.parts
     /\ r.envelope => r.text}

Reject(category, finish) ==
  [kind |-> "provider_error", category |-> category, finish |-> finish]

Rejected == Reject("malformed_provider_protocol", "error")
Success  == [kind |-> "success", category |-> "none", finish |-> "completed"]

Incoherent(r) ==
  \/ ~r.formed
  \/ r.error /\ r.status \in {"completed", "incomplete"}
  \/ r.status = "completed" /\ r.details # "absent"
  \/ "refusal" \in r.parts /\ r.parts \cap {"text", "tool"} # {}

Incomplete(r) ==
  CASE r.details = "length" -> Reject("incomplete_provider_result", "length")
    [] r.details = "content_filter" ->
         Reject("incomplete_provider_result", "content_filter")
    [] r.details \in {"absent", "no_reason"} ->
         Reject("incomplete_provider_result", "incomplete")
    [] OTHER -> Rejected

\* Mutant: an incomplete response with a usable text is taken as a success.
TranslatedLeniently(r) ==
  IF Incoherent(r) \/ ~r.envelope THEN Rejected ELSE Success

\* _classify_openai_response, then the stage envelope
\* (translate_openai_responses_result).
Translated(r) ==
  IF Incoherent(r)                   THEN Rejected
  ELSE IF "tool" \in r.parts         THEN Reject("malformed_provider_protocol", "tool_use")
  ELSE IF r.status = "incomplete"    THEN Incomplete(r)
  ELSE IF r.status = "other"         THEN Rejected
  ELSE IF "refusal" \in r.parts      THEN Reject("policy_refusal", "content_filter")
  ELSE IF r.envelope                 THEN Success
  ELSE Rejected

-----------------------------------------------------------------------------
(* The neutral contract (live_contract.py).                                *)

ProviderErrorOnly == {"quota_exhausted", "policy_refusal", "incomplete_provider_result"}

\* parse_provider_call_outcome, which every outcome passes where it is built,
\* where the parent reads it and where the journal is inspected: a finish reason
\* is observed for responses only.
ContractAccepts(o) ==
  /\ o.kind = "success" <=> o.category = "none"
  /\ o.kind = "success" => o.finish = "completed"
  /\ o.category \in ProviderErrorOnly => o.kind = "provider_error"
=============================================================================
