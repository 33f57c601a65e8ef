----------------------------- MODULE RetryPolicy ----------------------------
(* The categories of a provider failure (live_contract.py) and which of them  *)
(* the runner may retry (retry_policy.py).                                    *)

Retryable == {"transport_connectivity", "transport_provider_timeout",
              "rate_limit", "provider_overload_internal"}

Nonretryable == {"authentication_configuration", "permission",
                 "model_unavailable", "invalid_request", "quota_exhausted",
                 "malformed_provider_protocol", "incomplete_provider_result",
                 "policy_refusal", "unknown_sanitized_failure"}

Categories == Retryable \cup Nonretryable

\* Mutant: every provider failure is worth another attempt.
AnyCandidate(category) == category \in Categories

\* is_retry_candidate
IsRetryCandidate(category) == category \in Retryable
=============================================================================
