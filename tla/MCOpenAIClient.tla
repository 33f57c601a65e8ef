--------------------------- MODULE MCOpenAIClient ---------------------------
(* Model-checking instance of OpenAIClient: every exception and response.   *)
EXTENDS OpenAIClient
AllExceptions == {e \in Exceptions :
  /\ e.class = "APIStatusError" \/ e.status = 429
  /\ e.class \in {"APIStatusError", "RateLimitError"} \/
       (e.code = "rate_limit" /\ e.type = "other")}
=============================================================================
