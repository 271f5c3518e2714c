----------------------------- MODULE SdkRequest -----------------------------
(***************************************************************************)
(* One operation of the API called through the TypeScript SDK: the retry   *)
(* transport (sdks/typescript/src/v1/retry.ts) and the error mapping of    *)
(* client.ts on one side, the server's idempotency guard                   *)
(* (internal/httpapi/idempotency.go) over the keys table                   *)
(* (internal/idempotency/store.go) on the other, and a network between     *)
(* them that loses, delays and reorders.  Several calls may carry the same *)
(* caller-supplied key.  Attempt n of call c reaches the server as handler *)
(* <<c, n>>, which keeps running when the client has given up on it.       *)
(***************************************************************************)
EXTENDS SdkErrors

CONSTANTS
  Calls,        \* logical calls of one operation, made by one principal
  Bodies,       \* requests they may make (route and body: HashRequest)
  Operations,   \* SdkApi!SdkOperations: name -> request and responses
  CallerKeyed,  \* operations that accept a caller-supplied key
  Refusals,     \* errors a handler may return before its side effect, by operation
  MaxRetries,   \* RetryOptions.maxRetries
  HasDeadline,  \* RetryOptions.maxElapsedMs is set
  Crowded,      \* bound: operations several calls of which share a key
  Fleeting,     \* bound: operations whose target comes and goes
  MaxFaults,    \* bound: crashes, panics and store errors of the server
  SharedKey,    \* the key a caller supplied, or the server derived
  NoHandler, NoBody

ASSUME RetriesAssumption == MaxRetries \in Nat
ASSUME FaultsAssumption == MaxFaults \in Nat
ASSUME FlagAssumption == HasDeadline \in BOOLEAN
ASSUME KeyAssumption == SharedKey \notin Calls
\* Every code a handler answers with is one of the published catalogue.
ASSUME RefusalsAssumption == Refusals \in [DOMAIN Operations -> SUBSET Catalog]

Handlers == Calls \X (0..MaxRetries)
Keys == Calls \union {SharedKey}

VARIABLES
  op, mode,            \* the operation, and how its handler is guarded
  callerKey, body,     \* a key was supplied; what each call asks for
  cpc, attempt,        \* each call: next step, index of the current attempt
  outcome,             \* what each call returned or threw
  hpc, reply,          \* each handler: next step, the response it wrote
  row,                 \* idempotency_keys by key
  executed,            \* handlers whose side effect has committed
  licence,             \* no event has voided the deduplication guarantee
  target,              \* what the request addresses: there, gone or not yet sent
  faults               \* how many of the MaxFaults faults have happened

reqVars == <<op, mode, callerKey, body>>
cliVars == <<cpc, attempt, outcome>>
srvVars == <<hpc, reply, row, executed, licence, faults>>
vars == <<reqVars, cliVars, srvVars, target>>

request == Operations[op].request
responses == Operations[op].responses

\* Handlers claim the key the request carries.  Direct handlers have no key but
\* find the resource already gone (a delete) or resolved (an inbound review);
\* plain handlers simply run.
Guarded == mode \in {"atomic", "posthoc", "auto"}
KeyOf(c) == IF Guarded /\ callerKey THEN SharedKey ELSE c
Row(h) == row[KeyOf(h[1])]

NoRow == [status |-> "none", hash |-> NoBody, result |-> NoHandler, stale |-> FALSE]
NoReply == [status |-> 0, code |-> NoCode, result |-> NoHandler]
NoError == [code |-> NoCode, status |-> 0, class |-> "none", retryable |-> FALSE]
Pending == [kind |-> "pending", result |-> NoHandler, error |-> NoError]
Returned(h) == [kind |-> "ok", result |-> h, error |-> NoError]
Thrown(e) == [kind |-> "error", result |-> NoHandler, error |-> e]

Refusal(status, code) == [status |-> status, code |-> code, result |-> NoHandler]
StoreError == Refusal(500, "internal_error")
InFlight == Refusal(409, "idempotency_in_flight")
KeyReuse == Refusal(422, "idempotency_key_reuse")
NotFound == Refusal(404, "not_found")
NotYetDelivered == Refusal(409, "message_not_yet_delivered")
-----------------------------------------------------------------------------
(* internal/httpapi: how each operation's handler is guarded.              *)

\* deliver completes the key in the accept transaction, but a draft held for
\* review is completed after it; an approval releases an inbound hold without
\* a key; redeliver derives its own key; the rest of the guarded operations
\* complete theirs afterwards.  Moving a message to the trash may be repeated;
\* deleting it for good finds it gone.
Modes(o) ==
  CASE o \in {"sendMessage", "replyToMessage", "forwardMessage"} -> {"atomic", "posthoc"}
    [] o = "approveReview" -> {"atomic", "direct"}
    [] o = "createWebhook" -> {"atomic"}
    [] o \in {"createApiKey", "rotateWebhookSecret"} -> {"posthoc"}
    [] o = "redeliverEvent" -> {"auto"}
    [] o = "deleteMessage" -> {"plain", "direct"}
    [] Operations[o].request.method = "DELETE" -> {"direct"}
    [] OTHER -> {"plain"}

\* Processors return a body for success statuses only, the generated layer emits
\* the header stub for no POST whose handler lacks a guard, and the account is
\* deleted with a DELETE.
ASSUME OperationsAssumption ==
  \A o \in DOMAIN Operations :
    /\ Operations[o].responses.ok \subseteq 200..299
    /\ Operations[o].request.method = "POST" /\ Operations[o].request.stub => "plain" \notin Modes(o)
    /\ o = "deleteAccount" => Operations[o].request.method = "DELETE"

\* Guarded operations that look up, before they claim the key, the inbox that
\* sends or gets the key, the message that is answered, or the held draft.
Answering == {"replyToMessage", "forwardMessage"}
Addressed == Answering \union {"sendMessage", "approveReview", "createApiKey"}

\* The statuses the handlers answer success with.
ServerSuccess(o) ==
  CASE o \in {"createAgent", "createApiKey", "registerDomain", "createTemplate", "createWebhook"} -> {201}
    [] o = "redeliverEvent" -> {202}
    [] o \in {"sendMessage", "replyToMessage", "forwardMessage", "approveReview", "testAgent"} -> {200, 202}
    [] OTHER -> {200}
-----------------------------------------------------------------------------
(* retry.ts                                                                *)

\* Mutant: any POST is repeated.
RetrySafePost ==
  CASE request.method \in {"GET", "HEAD", "OPTIONS", "PUT", "PATCH", "POST"} -> TRUE
    [] request.method = "DELETE" -> op # "deleteAccount"
    [] OTHER -> FALSE

\* Mutant: any DELETE is repeated.
RetrySafeDelete ==
  CASE request.method \in {"GET", "HEAD", "OPTIONS", "PUT", "PATCH", "DELETE"} -> TRUE
    [] request.method = "POST" -> request.stub
    [] OTHER -> FALSE

\* Repeating a POST is safe only where the generated layer emitted the header
\* stub; account deletion is never repeated.
isRetrySafe ==
  CASE request.method \in {"GET", "HEAD", "OPTIONS", "PUT", "PATCH"} -> TRUE
    [] request.method = "DELETE" -> op # "deleteAccount"
    [] request.method = "POST" -> request.stub
    [] OTHER -> FALSE

isIdempotencyInFlight(r) == r.status = 409 /\ r.code = "idempotency_in_flight"

Retryable(r) ==
  /\ isRetrySafe
  /\ \/ r = NoReply
     \/ isRetryableStatus(r.status)
     \/ request.stub /\ isIdempotencyInFlight(r)

\* The processor of the operation and call() of client.ts: a declared status
\* returns the body, any other is mapped by fromApiException, and a throw of
\* the transport is a connection error.
Result(r) ==
  CASE r = NoReply -> Thrown(connectionError)
    [] r # NoReply /\ r.status \in responses.ok -> Returned(r.result)
    [] OTHER -> Thrown(toE2AError(r.status, r.code))

\* The attempt is over: its response, if it wrote one, has been read or lost.
Hear(c) ==
  LET h == <<c, attempt[c]>> IN
  /\ hpc' = [hpc EXCEPT ![h] = IF @ = "replied" THEN "done" ELSE @]
  /\ reply' = [reply EXCEPT ![h] = NoReply]
  /\ UNCHANGED <<row, executed, licence, faults>>

Settle(c, o) ==
  /\ cpc' = [cpc EXCEPT ![c] = "done"]
  /\ outcome' = [outcome EXCEPT ![c] = o]
  /\ UNCHANGED attempt

BackOff(c) ==
  /\ cpc' = [cpc EXCEPT ![c] = "backoff"]
  /\ UNCHANGED <<attempt, outcome>>

\* Mutant: one retry too many.
DecideOffByOne(c, r) ==
  \/ Retryable(r) /\ attempt[c] <= MaxRetries /\ BackOff(c)
  \/ (Retryable(r) /\ attempt[c] <= MaxRetries => HasDeadline) /\ Settle(c, Result(r))

\* After an attempt: retry, or stop with what it produced.  A deadline may
\* stop a retry that is otherwise allowed.
Decide(c, r) ==
  \/ Retryable(r) /\ attempt[c] < MaxRetries /\ BackOff(c)
  \/ (Retryable(r) /\ attempt[c] < MaxRetries => HasDeadline) /\ Settle(c, Result(r))

Start(c) ==
  /\ cpc[c] = "idle"
  /\ cpc' = [cpc EXCEPT ![c] = "sending"]
  /\ UNCHANGED <<attempt, outcome, reqVars, srvVars>>

\* The request factory throws RequiredError; call() reports what is neither an
\* E2AError nor an ApiException as a connection error.
MissingParameter(c) ==
  /\ cpc[c] = "idle"
  /\ request.required # {}
  /\ Settle(c, Thrown(connectionError))
  /\ UNCHANGED <<reqVars, srvVars>>

Send(c) ==
  /\ cpc[c] = "sending"
  /\ cpc' = [cpc EXCEPT ![c] = "waiting"]
  /\ hpc' = [hpc EXCEPT ![<<c, attempt[c]>>] = "sent"]
  /\ UNCHANGED <<attempt, outcome, reqVars, reply, row, executed, licence, faults>>

Receive(c) ==
  /\ cpc[c] = "waiting"
  /\ hpc[<<c, attempt[c]>>] = "replied"
  /\ Decide(c, reply[<<c, attempt[c]>>])
  /\ Hear(c)
  /\ UNCHANGED reqVars

\* Refused, reset or timed out: the handler may be anywhere.
Lose(c) ==
  /\ cpc[c] = "waiting"
  /\ Decide(c, NoReply)
  /\ Hear(c)
  /\ UNCHANGED reqVars

Resume(c) ==
  /\ cpc[c] = "backoff"
  /\ cpc' = [cpc EXCEPT ![c] = "sending"]
  /\ attempt' = [attempt EXCEPT ![c] = @ + 1]
  /\ UNCHANGED <<outcome, reqVars, srvVars>>

\* The caller's AbortSignal stops the attempt, or the wait before the next.
Abort(c) ==
  /\ cpc[c] \in {"sending", "waiting", "backoff"}
  /\ Settle(c, Thrown(connectionError))
  /\ Hear(c)
  /\ UNCHANGED reqVars
-----------------------------------------------------------------------------
(* internal/httpapi/idempotency.go over internal/idempotency/store.go       *)

Step(h, state) == hpc' = [hpc EXCEPT ![h] = state]

\* A response is read by the client that waits for it; one that has lost the
\* connection, given up or moved on to its next attempt reads nothing.
Awaited(h) == cpc[h[1]] = "waiting" /\ attempt[h[1]] = h[2]
Respond(h, r) ==
  /\ Step(h, IF Awaited(h) THEN "replied" ELSE "done")
  /\ reply' = IF Awaited(h) THEN [reply EXCEPT ![h] = r] ELSE reply

SetRow(h, r) == row' = [row EXCEPT ![KeyOf(h[1])] = r]
Fault == faults < MaxFaults /\ faults' = faults + 1

\* Handlers that hold the key of h and have not finished with it.
Owners(h) == {g \in Handlers \ {h} : /\ KeyOf(g[1]) = KeyOf(h[1])
                                     /\ hpc[g] \in {"running", "committed"}}

\* Complete and Release only touch a row that is still in progress.
Completed(r, h) == IF r.status = "in_progress" THEN [r EXCEPT !.status = "completed", !.result = h] ELSE r
Released(r) == IF r.status = "in_progress" THEN NoRow ELSE r

\* resolveOwnedAgent, loadRepliableMessage and requireOwnedReview let the
\* handler go on to its claim, in one step with it: what becomes of the target
\* in between changes nothing.
Found == op \in Addressed => target = "there"

\* What the lookup answers for a target that is gone.  The expiry asked for a
\* new key passes like an inbox that goes away.
Missing == {NotFound} \union IF op = "createApiKey" THEN {Refusal(400, "invalid_expires_at")} ELSE {}

\* The lookup refuses, before runIdempotent: no key is claimed and no answer is
\* replayed, whatever an earlier attempt did.  A failed lookup reads as a
\* missing target.  (A check of the request alone gives every attempt the same
\* answer; it is one of Refusals.)
Unresolved(h) ==
  /\ hpc[h] = "sent"
  /\ Guarded /\ op \in Addressed
  /\ \/ target = "gone" /\ (\E r \in Missing : Respond(h, r)) /\ UNCHANGED faults
     \/ target = "queued" /\ Respond(h, NotYetDelivered) /\ UNCHANGED faults
     \/ Fault /\ Respond(h, NotFound)
  /\ UNCHANGED <<reqVars, cliVars, row, executed, licence>>

\* A handler without a key starts at once.
Run(h) ==
  /\ hpc[h] = "sent"
  /\ ~Guarded
  /\ Step(h, "running")
  /\ UNCHANGED <<reqVars, cliVars, reply, row, executed, licence, faults>>

ClaimedRow(h) == [status |-> "in_progress", hash |-> body[h[1]], result |-> NoHandler, stale |-> FALSE]

\* The UPSERT of Claim: an absent row, or one in progress for longer than
\* StaleClaimWindow, now belongs to h.  Taking it from a handler that is still
\* at work voids the guarantee: nothing stops that handler.
Claim(h) ==
  /\ hpc[h] = "sent"
  /\ Guarded /\ Found
  /\ \/ Row(h).status = "none"
     \/ Row(h).status = "in_progress" /\ Row(h).stale
  /\ SetRow(h, ClaimedRow(h))
  /\ licence' = (licence /\ Owners(h) = {})
  /\ Step(h, "running")
  /\ UNCHANGED <<reqVars, cliVars, reply, executed, faults>>

\* The UPSERT returned no row: the existing one is read in a second statement.
ClaimLost(h) ==
  /\ hpc[h] = "sent"
  /\ Guarded /\ Found
  /\ \/ Row(h).status = "completed"
     \/ Row(h).status = "in_progress" /\ ~Row(h).stale
  /\ Step(h, "classify")
  /\ UNCHANGED <<reqVars, cliVars, reply, row, executed, licence, faults>>

Classify(h) ==
  /\ hpc[h] = "classify"
  /\ \/ Row(h).status = "none" /\ Respond(h, StoreError)
     \/ Row(h).status = "in_progress" /\ Respond(h, InFlight)
     \/ Row(h).status = "completed" /\ Row(h).hash # body[h[1]] /\ Respond(h, KeyReuse)
     \/ /\ Row(h).status = "completed"
        /\ Row(h).hash = body[h[1]]
        /\ \E s \in ServerSuccess(op) : Respond(h, [status |-> s, code |-> NoCode, result |-> Row(h).result])
  /\ UNCHANGED <<reqVars, cliVars, row, executed, licence, faults>>

\* Either statement of Claim may fail: nothing was executed.
ClaimFails(h) ==
  /\ hpc[h] \in {"sent", "classify"}
  /\ Guarded /\ (hpc[h] = "sent" => Found)
  /\ Fault
  /\ Respond(h, StoreError)
  /\ UNCHANGED <<reqVars, cliVars, row, executed, licence>>

\* fn returned an error, before its side effect: the key is released, unless
\* the release itself fails (its error is dropped).
Refuse(h) ==
  /\ hpc[h] = "running"
  /\ \E e \in Refusals[op] : Respond(h, Refusal(e.status, e.code))
  /\ \/ /\ row' = IF Guarded THEN [row EXCEPT ![KeyOf(h[1])] = Released(@)] ELSE row
        /\ UNCHANGED faults
     \/ Guarded /\ Fault /\ UNCHANGED row
  /\ UNCHANGED <<reqVars, cliVars, executed, licence>>

\* A direct handler whose resource an earlier attempt already took care of.
AlreadyGone(h) ==
  /\ hpc[h] = "running"
  /\ mode = "direct"
  /\ executed # {}
  /\ Respond(h, IF request.method = "DELETE" THEN NotFound ELSE Refusal(409, "message_not_pending"))
  /\ UNCHANGED <<reqVars, cliVars, row, executed, licence, faults>>

\* fn commits its side effect; in the atomic mode the key is completed in the
\* same transaction.
Commit(h) ==
  /\ hpc[h] = "running"
  /\ mode = "direct" => executed = {}
  /\ executed' = executed \union {h}
  /\ row' = IF mode = "atomic" THEN [row EXCEPT ![KeyOf(h[1])] = Completed(@, h)] ELSE row
  /\ Step(h, "committed")
  /\ UNCHANGED <<reqVars, cliVars, reply, licence, faults>>

Succeeded(h) == \E s \in ServerSuccess(op) : Respond(h, [status |-> s, code |-> NoCode, result |-> h])

\* Complete after the side effect (a no-op in the atomic mode), then respond.
Finish(h) ==
  /\ hpc[h] = "committed"
  /\ Succeeded(h)
  /\ row' = IF Guarded THEN [row EXCEPT ![KeyOf(h[1])] = Completed(@, h)] ELSE row
  /\ UNCHANGED <<reqVars, cliVars, executed, licence, faults>>

\* An execution that no row records.
Unrecorded(h) == hpc[h] = "committed" /\ mode \in {"posthoc", "auto"}

\* Complete fails and its error is dropped: the client still hears success.
FinishUnrecorded(h) ==
  /\ hpc[h] = "committed"
  /\ Guarded
  /\ Fault
  /\ Succeeded(h)
  /\ licence' = (licence /\ ~Unrecorded(h))
  /\ UNCHANGED <<reqVars, cliVars, row, executed>>

\* The recover of runIdempotentNS releases the key and answers 500.
Panic(h) ==
  /\ hpc[h] \in {"running", "committed"}
  /\ Fault
  /\ Respond(h, StoreError)
  /\ row' = IF Guarded THEN [row EXCEPT ![KeyOf(h[1])] = Released(@)] ELSE row
  /\ licence' = (licence /\ ~Unrecorded(h))
  /\ UNCHANGED <<reqVars, cliVars, executed>>

\* The process dies: no response, no release.
Crash(h) ==
  /\ hpc[h] \in {"classify", "running", "committed"}
  /\ Fault
  /\ Step(h, "done")
  /\ licence' = (licence /\ ~Unrecorded(h))
  /\ UNCHANGED <<reqVars, cliVars, reply, row, executed>>

\* StaleClaimWindow passes over a claim, whether its handler is dead or slow.
Age(k) ==
  /\ row[k].status = "in_progress"
  /\ ~row[k].stale
  /\ row' = [row EXCEPT ![k].stale = TRUE]
  /\ UNCHANGED <<reqVars, cliVars, hpc, reply, executed, licence, faults>>

\* TTL passes over a completed row: the published window has ended.
Sweep(k) ==
  /\ row[k].status = "completed"
  /\ row' = [row EXCEPT ![k] = NoRow]
  /\ licence' = FALSE
  /\ UNCHANGED <<reqVars, cliVars, hpc, reply, executed, faults>>

\* Meanwhile the send worker submits a message that was queued, and the inbox,
\* or the message that is answered, is trashed or purged, or restored.
TargetChanges ==
  /\ Guarded /\ op \in Addressed \intersect Fleeting
  /\ target' \in IF target = "there" THEN {"gone"} ELSE {"there"}
  /\ UNCHANGED <<reqVars, cliVars, srvVars>>
-----------------------------------------------------------------------------
Init ==
  /\ op \in DOMAIN Operations
  /\ mode \in Modes(op)
  /\ callerKey \in IF mode = "auto" THEN {TRUE} ELSE IF op \in CallerKeyed THEN BOOLEAN ELSE {FALSE}
  /\ body \in [Calls -> Bodies]
  /\ mode = "auto" => \A c, d \in Calls : body[c] = body[d]
  /\ cpc \in [Calls -> {"idle", "absent"}]
  /\ (op \in Crowded /\ callerKey) \/ \E c \in Calls : cpc = [d \in Calls |-> IF d = c THEN "idle" ELSE "absent"]
  /\ attempt = [c \in Calls |-> 0]
  /\ outcome = [c \in Calls |-> Pending]
  /\ hpc = [h \in Handlers |-> "none"]
  /\ reply = [h \in Handlers |-> NoReply]
  /\ row = [k \in Keys |-> NoRow]
  /\ executed = {}
  /\ licence = TRUE
  /\ target \in {"there"} \union IF Guarded /\ op \in Answering THEN {"queued"} ELSE {}
  /\ faults = 0

ClientStep(c) == Start(c) \/ MissingParameter(c) \/ Send(c) \/ Receive(c) \/ Lose(c) \/ Resume(c) \/ Abort(c)

HandlerStep(h) ==
  \/ Run(h) \/ Unresolved(h) \/ Claim(h) \/ ClaimLost(h) \/ Classify(h) \/ ClaimFails(h)
  \/ Refuse(h) \/ AlreadyGone(h) \/ Commit(h) \/ Finish(h)
  \/ FinishUnrecorded(h) \/ Panic(h) \/ Crash(h)

Next ==
  \/ /\ \/ \E c \in Calls : ClientStep(c)
        \/ \E h \in Handlers : HandlerStep(h)
        \/ \E k \in Keys : Age(k) \/ Sweep(k)
     /\ UNCHANGED target
  \/ TargetChanges

Spec == Init /\ [][Next]_vars
-----------------------------------------------------------------------------
(* Properties                                                              *)

Errors == [code : STRING, status : Nat, class : STRING, retryable : BOOLEAN]

\* Type invariant of the client's calls, the handlers and the keys table.
TypeOK ==
  /\ op \in DOMAIN Operations
  /\ mode \in {"atomic", "posthoc", "auto", "direct", "plain"}
  /\ callerKey \in BOOLEAN
  /\ body \in [Calls -> Bodies]
  /\ cpc \in [Calls -> {"absent", "idle", "sending", "waiting", "backoff", "done"}]
  /\ attempt \in [Calls -> 0..MaxRetries]
  /\ hpc \in [Handlers -> {"none", "sent", "classify", "running", "committed", "replied", "done"}]
  /\ DOMAIN outcome = Calls /\ DOMAIN reply = Handlers /\ DOMAIN row = Keys
  /\ \A k \in Keys : /\ row[k].status \in {"none", "in_progress", "completed"}
                      /\ row[k].hash \in Bodies \union {NoBody}
                      /\ row[k].result \in Handlers \union {NoHandler}
                      /\ row[k].stale \in BOOLEAN
  /\ executed \subseteq Handlers
  /\ licence \in BOOLEAN
  /\ target \in {"there", "gone", "queued"}
  /\ faults \in 0..MaxFaults

\* A POST is not repeated behind the caller's back, and neither is a guarded
\* operation or the deletion of the account; the rest may be.
Once == Guarded \/ request.method = "POST" \/ op = "deleteAccount"

Answer(c) == [kind |-> outcome[c].kind, report |-> IF outcome[c].kind = "ok" THEN {outcome[c].result} ELSE {}]

Promise == INSTANCE KeyedCall
             WITH Attempts <- 0..MaxRetries, once <- Once, group <- [c \in Calls |-> KeyOf(c)],
                  answer <- [c \in Calls |-> Answer(c)]

\* The SDK, the network and the idempotency guard together implement the
\* promise of KeyedCall: retries, replays, takeovers of stale claims, panics
\* and crashes never execute a keyed or unrepeatable call twice nor report an
\* execution that did not happen or was asked for by another body, until a
\* takeover, a lost Complete or the TTL lets the guarantee lapse.
KeepsPromise == Promise!Spec

\* A success the server answered is never thrown at the caller: the statuses
\* the handlers write are the ones the generated processors declare.
SuccessIsReturned ==
  \A c \in Calls : outcome[c].kind = "error" => outcome[c].error.status \notin 200..299

\* deleteAccount revokes the very credential a retry would present, so
\* isRetrySafe excludes it: a caller that hears not_found did not itself
\* delete the account.
NotFoundIsTruthful ==
  \A c \in Calls :
    op = "deleteAccount" /\ outcome[c].error.code = "not_found" =>
      \A h \in executed : h[1] # c

\* The advice a typed error carries (E2AError.retryable) is the one the
\* server's catalogue publishes for its code, whatever status it rides on.
\* One code is left out: message_not_yet_delivered is published as retryable
\* and has no entry in CODE_TABLE, so its 409 makes it a final conflict.
AdviceMatchesCatalog ==
  \A c \in Calls :
    LET e == outcome[c].error
        published == (UNION {CatalogStatus[s] : s \in DOMAIN CatalogStatus}) \ {"message_not_yet_delivered"}
    IN  outcome[c].kind = "error" /\ e.code \in published => (e.retryable <=> e.code \in RetryableCodes)
=============================================================================
