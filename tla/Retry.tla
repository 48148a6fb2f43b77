-------------------------------- MODULE Retry --------------------------------
(***************************************************************************)
(* The retry policy of retry.rs: which gRPC codes are retried and how long *)
(* a retry waits.  Durations are whole ticks of the model's clock.         *)
(***************************************************************************)
EXTENDS Integers, Sequences, FiniteSetsExt

IsRetryable(code) == code \in {"Cancelled", "DeadlineExceeded", "Unavailable", "Aborted"}

IsMutateRetryable(code) == code \in {"DeadlineExceeded", "Unavailable"}

\* The first issue of a sequence of checks, in the order of the code.
FirstIssue(checks) ==
  LET failing == {i \in DOMAIN checks : checks[i] # "None"}
  IN  IF failing = {} THEN "None" ELSE checks[Min(failing)]
Check(holds, issue) == IF holds THEN "None" ELSE issue

PolicyIssues ==
  {"ZeroMaxAttempts", "ZeroInitialBackoff", "ZeroMaxBackoff", "MaxBackoffTooSmall",
   "InvalidBackoffMultiplier", "ZeroOperationTimeout", "ZeroAttemptTimeout"}

\* validate_policies.  The multiplier, a float in the code that must be at least
\* 1.0, is a whole number here.
PolicyIssue(retry, deadlines) ==
  FirstIssue(<<Check(retry.max_attempts > 0, "ZeroMaxAttempts"),
               Check(retry.initial_backoff > 0, "ZeroInitialBackoff"),
               Check(retry.max_backoff > 0, "ZeroMaxBackoff"),
               Check(retry.max_backoff >= retry.initial_backoff, "MaxBackoffTooSmall"),
               Check(retry.multiplier >= 1, "InvalidBackoffMultiplier"),
               Check(deadlines.operation_timeout > 0, "ZeroOperationTimeout"),
               Check(deadlines.attempt_timeout > 0, "ZeroAttemptTimeout")>>)

ValidPolicies(retry, deadlines) == PolicyIssue(retry, deadlines) = "None"

\* The delays backoff may return: every one up to the calculated backoff with
\* full jitter, that one without.
Backoff(retry, failedAttempt) ==
  LET exponent == Max({failedAttempt - 1, 0})
      capped == Min({retry.initial_backoff * retry.multiplier ^ exponent, retry.max_backoff})
  IN  IF retry.jitter = "Full" THEN 0..capped ELSE {capped}

\* The server's RetryInfo, zero when it sends none, is a lower bound.
RetryDelays(retry, failedAttempt, retryInfo) ==
  {Max({delay, retryInfo}) : delay \in Backoff(retry, failedAttempt)}
=============================================================================
