------------------------------ MODULE SdkErrors ------------------------------
(***************************************************************************)
(* The typed errors of the TypeScript SDK (sdks/typescript/src/v1/         *)
(* errors.ts) and the catalogue of codes the server publishes              *)
(* (internal/httpapi/error_catalog.go).  A code is a value; the suffix and *)
(* prefix families of resolve() are the sets of catalogue codes they match.*)
(***************************************************************************)
EXTENDS Naturals

\* No code: an envelope that is missing or cannot be parsed.
NoCode == ""

isRetryableStatus(status) == status \in {408, 429} \/ status \in 500..599

NotFoundFamily == {"attachment_not_found", "template_not_found", "starter_template_not_found"}
TakenFamily == {"agent_taken", "domain_taken", "alias_taken"}
InvalidFamily == {"invalid_cursor", "invalid_filter", "invalid_domain", "invalid_slug", "invalid_recipient",
                  "invalid_attachment", "invalid_template", "invalid_event_type", "invalid_webhook_url",
                  "invalid_expires_at", "invalid_scope"}

Verdict(class, retryable) == [class |-> class, retryable |-> retryable]

CODE_TABLE ==
  [unauthorized |-> Verdict("Auth", FALSE),
   forbidden |-> Verdict("Permission", FALSE), blocked_by_policy |-> Verdict("Permission", FALSE),
   not_found |-> Verdict("NotFound", FALSE), gone |-> Verdict("NotFound", FALSE),
   conflict |-> Verdict("Conflict", FALSE), message_not_pending |-> Verdict("Conflict", FALSE),
   webhook_cooldown |-> Verdict("Conflict", FALSE), webhook_disabled |-> Verdict("Conflict", FALSE),
   invalid_request |-> Verdict("Validation", FALSE), bad_request |-> Verdict("Validation", FALSE),
   unprocessable_entity |-> Verdict("Validation", FALSE), domain_not_verified |-> Verdict("Validation", FALSE),
   recipient_suppressed |-> Verdict("Validation", FALSE),
   limit_exceeded |-> Verdict("LimitExceeded", FALSE), template_limit_reached |-> Verdict("LimitExceeded", FALSE),
   webhook_limit_reached |-> Verdict("LimitExceeded", FALSE),
   rate_limited |-> Verdict("RateLimit", TRUE),
   idempotency_in_flight |-> Verdict("Idempotency", TRUE), idempotency_key_reuse |-> Verdict("Idempotency", FALSE),
   not_implemented |-> Verdict("Server", FALSE), events_log_disabled |-> Verdict("Server", FALSE)]

\* Mutant: every server error is retryable advice, whatever its code.
ResolveByStatus(status, code) ==
  CASE status >= 500 -> Verdict("Server", TRUE)
    [] status < 500 /\ code \in DOMAIN CODE_TABLE -> CODE_TABLE[code]
    [] OTHER -> Verdict("E2AError", FALSE)

StatusBucket(status) ==
  CASE status \in {400, 422} -> Verdict("Validation", FALSE)
    [] status = 401 -> Verdict("Auth", FALSE)
    [] status = 402 -> Verdict("LimitExceeded", FALSE)
    [] status = 403 -> Verdict("Permission", FALSE)
    [] status \in {404, 410} -> Verdict("NotFound", FALSE)
    [] status = 409 -> Verdict("Conflict", FALSE)
    [] status = 429 -> Verdict("RateLimit", TRUE)
    [] status # 429 /\ isRetryableStatus(status) -> Verdict("Server", TRUE)
    [] OTHER -> Verdict("E2AError", FALSE)

\* resolve: a known code wins over the status it rides on.
resolve(status, code) ==
  CASE code \in DOMAIN CODE_TABLE -> CODE_TABLE[code]
    [] code \in NotFoundFamily -> Verdict("NotFound", FALSE)
    [] code \in TakenFamily -> Verdict("Conflict", FALSE)
    [] code \in InvalidFamily -> Verdict("Validation", FALSE)
    [] OTHER -> StatusBucket(status)

\* toE2AError fills in a code for the caller when the envelope has none; the
\* class and the retry advice come from the envelope's own code.
DefaultCode(status) ==
  CASE status \in {400, 422} -> "invalid_request"
    [] status = 401 -> "unauthorized"
    [] status = 402 -> "limit_exceeded"
    [] status = 403 -> "forbidden"
    [] status = 404 -> "not_found"
    [] status = 409 -> "conflict"
    [] status = 429 -> "rate_limited"
    [] status >= 500 -> "internal_error"
    [] OTHER -> "error"

toE2AError(status, code) ==
  [code |-> IF code = NoCode THEN DefaultCode(status) ELSE code, status |-> status,
   class |-> resolve(status, code).class, retryable |-> resolve(status, code).retryable]

\* A failure without a response: refused, reset, timed out or aborted.
connectionError == [code |-> "connection_error", status |-> 0, class |-> "Connection", retryable |-> TRUE]
-----------------------------------------------------------------------------
(* errorCodeCatalog: the codes the server answers with, their statuses and  *)
(* whether the published contract calls them retryable.                     *)

RetryableCodes == {"message_not_yet_delivered", "rate_limited", "idempotency_in_flight",
                   "limits_unavailable", "inbound_mx_check_failed", "internal_error"}

CatalogStatus ==
  [s \in {400, 401, 402, 403, 404, 409, 410, 413, 422, 429, 500, 501, 503} |->
     CASE s = 400 -> InvalidFamily \union
            {"invalid_request", "reserved_domain", "too_many_recipients", "template_render_failed",
             "template_rendered_empty", "domain_not_registered", "domain_has_agents",
             "domain_not_verified", "inbound_mx_missing", "template_limit_reached", "webhook_limit_reached"}
       [] s = 401 -> {"unauthorized"}
       [] s = 402 -> {"limit_exceeded"}
       [] s = 403 -> {"forbidden", "blocked_by_policy", "domain_not_verified"}
       [] s = 404 -> NotFoundFamily \union {"not_found"}
       [] s = 409 -> TakenFamily \union
            {"conflict", "address_in_trash", "message_held", "message_not_pending", "message_not_yet_delivered",
             "not_in_trash", "send_in_progress", "webhook_disabled", "webhook_cooldown", "idempotency_in_flight"}
       [] s = 410 -> {"gone"}
       [] s = 413 -> {"payload_too_large", "attachment_too_large"}
       [] s = 422 -> {"invalid_request", "recipient_suppressed", "idempotency_key_reuse"}
       [] s = 429 -> {"rate_limited"}
       [] s = 500 -> {"internal_error"}
       [] s = 501 -> {"not_implemented", "events_log_disabled"}
       [] s = 503 -> {"limits_unavailable", "inbound_mx_check_failed"}]

\* The answers a handler of the server can refuse a request with.
Catalog == UNION {{[status |-> s, code |-> k] : k \in CatalogStatus[s]} : s \in DOMAIN CatalogStatus}
=============================================================================
