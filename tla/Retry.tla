------------------------------- MODULE Retry -------------------------------
(***************************************************************************)
(* agent_framework/retry.py: what a provider's call that raised is taken   *)
(* for, and whether it is made again.  An exception is what the            *)
(* classification looks at: its status (a number, an HTTP response object  *)
(* or none) and what its text and its type say.  The delays are left out.  *)
(***************************************************************************)
EXTENDS Naturals, FiniteSets, FiniteSetsExt

CONSTANT MaxRetries   \* max_retries

ErrorKind == {"rate_limited", "server_error", "timeout", "connection", "bad_request",
              "unauthorized", "forbidden", "not_found", "invalid_input", "unknown"}
Retryable == {"rate_limited", "server_error", "timeout", "connection"}

StatusToKind(status) ==
    CASE status = 400 -> "bad_request" [] status = 401 -> "unauthorized"
      [] status = 403 -> "forbidden"   [] status = 404 -> "not_found"
      [] status = 429 -> "rate_limited" [] status \in {500, 502, 503} -> "server_error"
      [] status = 504 -> "timeout" [] OTHER -> "unknown"

\* What a text may say, in the order in which it is looked for.
Says == <<"rate_limited", "timeout", "connection", "server_error", "bad_request",
          "unauthorized", "invalid_input">>

None == 0
ResponseObject == 1  \* int(status) raises

Exceptions == [status : {None, ResponseObject, 400, 429, 503, 504}, says : SUBSET {1, 2, 3, 7}]

\* classify_exception.  The TypeError of int() is an exception of no known kind.
Classify(e) ==
    CASE e.status = ResponseObject -> "unknown"
      [] e.status \notin {None, ResponseObject} -> StatusToKind(e.status)
      [] e.status = None /\ e.says # {} -> Says[Min(e.says)]
      [] e.status = None /\ e.says = {} -> "unknown"

Kinds == {Classify(e) : e \in Exceptions}

\* retry_call after that many failures: again, or the error is raised.
Again(kind, failures) == failures < MaxRetries /\ kind \in Retryable

\* The service may have done what was asked before the call failed.
MayHaveAnswered == {"timeout", "connection", "server_error"}
=============================================================================
