--------------------------- MODULE ProviderErrors ---------------------------
(***************************************************************************)
(* How a provider call that fails becomes an error the client knows:       *)
(* DeepSeekProvider.generate (an ordered list of except clauses over the   *)
(* exceptions of the SDK, which are classes below one another), the status *)
(* codes, and the table of Agent._map_provider_error.                      *)
(***************************************************************************)
EXTENDS Integers, SequencesExt

\* What the call may raise, each with the classes an except clause catches it by.
Ancestors ==
    [CancelledError |-> {"CancelledError"},
     TimeoutError |-> {"TimeoutError"},
     APITimeoutError |-> {"APITimeoutError", "APIConnectionError", "APIError"},
     APIConnectionError |-> {"APIConnectionError", "APIError"},
     APIResponseValidationError |-> {"APIResponseValidationError", "APIError"},
     APIStatusError |-> {"APIStatusError", "APIError"},
     APIError |-> {"APIError"}]

SDKErrors == DOMAIN Ancestors \ {"CancelledError"}

\* The except clauses in their order, with what each raises instead.
Clauses ==
    <<<<"CancelledError", "CancelledError">>,
      <<"TimeoutError", "ProviderTimeoutError">>,
      <<"APITimeoutError", "ProviderTimeoutError">>,
      <<"APIConnectionError", "ProviderConnectionError">>,
      <<"APIResponseValidationError", "ProviderResponseError">>,
      <<"APIStatusError", "by status">>,
      <<"APIError", "LLMProviderError">>>>

\* the clause that catches an exception: the first, not the closest
Clause(exception) == SelectInSeq(Clauses, LAMBDA clause : clause[1] \in Ancestors[exception])

StatusError(status) ==
    IF status \in {401, 403} THEN "ProviderAuthenticationError"
    ELSE IF status = 402 THEN "ProviderQuotaError"
    ELSE IF status = 429 THEN "ProviderRateLimitError"
    ELSE IF status \in 400..499 THEN "ProviderRequestError"
    ELSE IF status >= 500 THEN "ProviderUnavailableError"
    ELSE "LLMProviderError"

\* what generate raises; status is looked at for an APIStatusError only
Raised(exception, status) ==
    LET error == Clauses[Clause(exception)][2] IN
    IF error = "by status" THEN StatusError(status) ELSE error

\* an answer without choices or without text, and a request of an unknown role
Unusable == {"ProviderResponseError", "ProviderRequestError"}

Codes ==
    [ProviderConfigurationError |-> "PROVIDER_NOT_CONFIGURED",
     ProviderAuthenticationError |-> "PROVIDER_AUTHENTICATION_FAILED",
     ProviderQuotaError |-> "PROVIDER_QUOTA_EXHAUSTED",
     ProviderRateLimitError |-> "PROVIDER_RATE_LIMITED",
     ProviderTimeoutError |-> "PROVIDER_TIMEOUT",
     ProviderConnectionError |-> "PROVIDER_UNAVAILABLE",
     ProviderUnavailableError |-> "PROVIDER_UNAVAILABLE",
     ProviderRequestError |-> "PROVIDER_REQUEST_FAILED",
     ProviderResponseError |-> "PROVIDER_INVALID_RESPONSE"]

\* each error is a direct subclass of LLMProviderError, which has the code that is left
Code(error) == IF error \in DOMAIN Codes THEN Codes[error] ELSE "PROVIDER_ERROR"

Retryable == {"ProviderRateLimitError", "ProviderTimeoutError", "ProviderConnectionError",
              "ProviderUnavailableError"}

-----------------------------------------------------------------------------

\* No except clause stands behind one that catches all it could catch.
NoClauseIsShadowed ==
    \A i \in DOMAIN Clauses : \E exception \in DOMAIN Ancestors : Clause(exception) = i

\* Whatever error of its own the SDK raises, with whatever status, is a provider error in
\* the end, so that the turn ends with an error reply.  Both ways to time out are one.  What
\* is raised besides, as by an answer of an unexpected shape, keeps its class.
EveryFailureIsNamed(statuses) ==
    /\ \A exception \in SDKErrors, status \in statuses :
          Raised(exception, status) \in DOMAIN Codes \cup {"LLMProviderError"}
    /\ \A exception \in {"TimeoutError", "APITimeoutError"}, status \in statuses :
          Code(Raised(exception, status)) = "PROVIDER_TIMEOUT"

\* A client that knows the code knows whether trying again makes sense.
CodesTellRetryable ==
    \A e, f \in DOMAIN Codes \cup {"LLMProviderError"} :
        Code(e) = Code(f) => (e \in Retryable <=> f \in Retryable)

\* Every documented code is used, but for the one of a provider that was never made.
CodesAreUsed(statuses) ==
    {Code(Raised(exception, status)) : exception \in SDKErrors, status \in statuses}
    \cup {Code(error) : error \in Unusable}
        = {Code(error) : error \in (DOMAIN Codes \ {"ProviderConfigurationError"})
                                     \cup {"LLMProviderError"}}
=============================================================================
