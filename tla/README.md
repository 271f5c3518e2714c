# e2a in TLA+

e2a gives agents e-mail addresses: it accepts mail over an HTTP API, submits it
to Amazon SES, follows the provider's feedback, receives inbound mail over SMTP,
and tells its users about all of it over webhooks and WebSockets. Everything
durable is in PostgreSQL; background work is River jobs in the same database.
Around the server (Go, `internal/`) stand its clients, all in TypeScript: the
SDK (`sdks/typescript`), a CLI (`cli`), an MCP server (`mcp`) and the web console
(`web`). These modules model the parts whose correctness rests on the order of
steps of several actors, on either side of the API. Server paths in the first
table are relative to `internal/`, all others to the repository's root.

## The system and its parts

| Part | State | Operations | Interacts with | What makes it correct |
|---|---|---|---|---|
| Outbound accept (`agent/api.go`) | a `messages` row in `accepted`, its send job, the idempotency completion | one transaction inserts all three | idempotency, limits, HITL holds before it; the send worker after it | nothing accepted is lost; a retried request is accepted once |
| Send worker (`outboundsend/worker.go`, `agent/outbound_async.go`) | none of its own | claim, ramp gate, suppression check, submit, record | row, ramp, SES | at least once, duplicates only where an outcome was lost; meter and signal once |
| Terminal reconciler (`outboundsend/terminal_reconcile.go`) | none | settle rows whose job is dead, and reservations left behind | row, ramp | every accepted message settles, never as failed when SES took it |
| Feedback consumer (`delivery/`) | recipient rows, evidence, suppressions | one transaction per SNS notification | row | duplicated and reordered feedback never regresses an outcome |
| Message row (`identity/delivery_store.go`) | status, provenance, claim, evidence, provider id | guarded updates | all of the above | compare-and-set guards exclude each other's effects |
| Sending ramp (`sendramp/`) | scope, daily counters, reservations | reserve, confirm, release, resolve, sweep | worker, reconciler | counters exact, allowance kept, progress earned |
| Trash (`identity/store.go`) | `deleted_at` | soft delete, restore, purge | claim | a send and a delete are ordered by the claim |
| Idempotency (`idempotency/`, `httpapi/idempotency.go`) | one row per key | claim, take over, complete, release, sweep | accept, SDK | one execution per key, replay equal to the first answer |
| HITL (`hitlworker/`, `hitlnotify/`, `approvaltoken/`) | review status of a message | hold, approve, reject, expire | accept, webhooks | one decision, and only an approved draft is sent |
| Webhook outbox (`webhookpub/`, `webhookdelivery/`, `webhook/`) | event rows, delivery rows, auto-disable counters | publish, fan out, post, retry, replay | all publishers | every committed event reaches every matching subscriber or a recorded failure |
| Inbound (`relay/`, `inboundprocess/`) | intake rows | accept 250, process, fail | webhooks, WebSocket | what was answered 250 is processed or visibly failed |
| WebSocket hub (`ws/`) | one connection per agent | register, unregister, send, close | inbound | a stale handler never drops its successor |
| Sender identity (`senderidentity/`) | `domains.sending_status` | provision, poll, deprovision | SES, ramp | a verified domain does not flap, polling ends |
| Limits and rate limits (`limits/`, `ratelimit/`) | cached limits, buckets | check, record | accept | plan bounds hold up to the stated slack |
| OAuth (`oauth/`) | codes and tokens | exchange, rotate, revoke | API | one use per code and per refresh token |
| Job glue (`jobs/`) | job columns of five tables | enqueue what has no job | River | one job per row |

| Client | State | Operations | Interacts with | What makes it correct |
|---|---|---|---|---|
| SDK requests (`sdks/typescript/src/v1/retry.ts`, `errors.ts`, `client.ts`, `generated/`) | one call: attempt, deadline | send, back off, retry, abort, map the error | idempotency guard over an unreliable network | nothing that must run once runs twice, errors advise truthfully |
| SDK live events (`ws.ts`) | listener (dials, timer), stream (buffer, pending pull, error) | dial, deliver, reconnect, finish | WebSocket hub | no pull hangs, no error is swallowed, no fight over the connection |
| CLI commands (`cli/src`) | the process | the calls of each command, exit code | SDK | an exit code is a promise to a script |
| `e2a listen` | loop flags, deadline | pull, filter, render, forward, exit | SDK live events | exit 0 is a hand-off, exit 1 is safe to repeat |
| `e2a doctor` | recorder | checks in order, report | API, DNS, MCP | blindness is not health, a failed probe is not a fault |
| MCP server (`mcp/src`) | cache of principals | resolve, dispatch, drain | API | scope of the credential, bounded staleness, tools that work |
| Protection editors (CLI, MCP tool, console) | a copy of the config | read, edit, replace | `httpapi/protection.go` | a save changes what was asked for |
| Web console (`web/src/app`) | SWR cache, page state, review editor | open, load, poll, submit, refresh | API, review holds | what was done shows, what is approved is what was reviewed |

The hard behaviours: three writers (worker, reconciler, consumer) race for one
row without holding a lock between their calls; a submission is not atomic with
its record; River runs a job again after a crash; SNS repeats and reorders; the
terminal write itself may fail; the reservation of capacity lives through
midnight, correction, purge and retention. On the clients' side an answer can be
lost after the server has acted, an attempt can outlive the client that made it,
two listeners compete for one connection, a principal is cached while its
credential is revoked, a form is filled from a cache that is being reloaded, and a
decision races the expiry sweep. `PROJECT.json` lists these hazards
with the line where each bites.

## Modules

* `DeliveryStatus` — the statuses and the pure functions of
  `internal/delivery/status.go`: `rank`, `Merge`, `Correctable`,
  `ResolveMessageRollup`, and the rollup of recipient statuses.
* `OutboundSend` — one accepted message: its row (`row`), job (`job`), worker
  (`pc`, `plan`), reconciler (`rpc`, `rplan`), ramp reservation (`resv`), outbox
  (`sentEvt`, `failEvt`, set once because event ids are deterministic), usage
  events (`metered`), the copies SES took (`copies`; those in `refused` it
  rejects later), and history (`faults`, `lost`). Messages share no row, so one
  message is enough.
* `OutboundSendProofs` — the theorems about `OutboundSend`.
* `SendRamp` — many messages sharing one allowance: `scope`, `ctr` per day,
  `resv` per message, with the histories `orphan` (units whose reservation row
  was deleted) and `corrected` (units confirmed after their release).
* `SendRampProofs` — the theorems about `SendRamp`.
* `KeyedCall` — the abstract promise to a caller: calls that share a key execute
  once between them, a success reports an execution of the same body, until the
  guarantee has lapsed. `SdkRequest` implements it.
* `SdkApi` — the 61 operations of the generated client: method, required
  parameters, whether the `Idempotency-Key` header is emitted, declared statuses.
* `SdkErrors` — the code table and status buckets of `errors.ts`, and the server's
  published catalogue of codes.
* `SdkRequest` — calls of one operation through the retry transport, the network,
  and the idempotency guard over the keys table. `SdkRequestProofs` — the theorems
  about it, the refinement of `KeyedCall` among them.
* `CliCommands` — the calls of each one-shot command and its exit codes.
  `CliCommandsProofs` — the theorem about exit 5, and what the theorems about
  `SdkRequest` say of the generated client's own table.
* `EventStream` — hub, connection handlers, relay push, `WSListener`, `WSStream`.
* `CliListen` — `e2a listen` over `EventStream`; `CliListenProofs` — the theorems about
  both.
* `CliDoctor` — the checks of `e2a doctor`; `CliDoctorProofs` — the theorems about it.
* `McpTools` — every MCP tool: the operations it calls, its tier, its annotations,
  and what the API's scope check says to them.
* `McpServer` — requests interleaving over the principal cache; `McpServerProofs` —
  the theorems about it.
* `Protection` — the config and its three editors.
* `ReviewHold` — a held message: decisions and the expiry sweep.
* `ConsolePages` — the console's views, pages and operations as data.
* `WebConsole` — one tab performing one operation, with its loads and its editor;
  extends `ReviewHold` and `ConsolePages`. `WebConsoleProofs` — the theorems about it.
* `MC...` — instances for TLC.

### How OutboundSend corresponds to the code

Every store call is one transaction that locks the row, hence one action; the
operators named after store functions (`MarkOutboundSent`, `RecordProviderReject`
...) are the new row, and the actions add what else commits with it. Between two
calls anything may happen. `pc` names the call the worker makes next. A trashed
row is claimed as `ClaimOutboundForSend` does it: cancelled, without an event. An
unclaimable row ends in `Resolve`, whose read and whose settlement are two steps
because they are two transactions in `sendramp/store.go`.

`Deliver` has the four answers `worker.go` tells apart: accepted, permanent (5xx),
outage (connection errors; snoozed until the retry horizon), temporary. A lost
answer is `DeliverAmbiguously`: SES took the message and the worker sees an
outage or a temporary error. `StoreError` is a failed call, including one on an
expired job context; `PreserveTerminalFailure` is the fallback write of
`markFailed`; `Crash` leaves the job running until River rescues it. They share
the budget `MaxFaults`.

`FailurePlans` tabulates what `Work` does around each terminal failure:
provenance, reason, whether the reservation is released and whether an error of
that release matters, and how the job ends.

`Process` takes any notification about any copy at any time, repeatedly or never:
that is SNS. Only a copy in `refused` is rejected, and such a copy gets no other
feedback than Send. `HeaderEcho` says whether SES echoes `X-E2A-Message-ID`;
TRUE allows strictly more behaviours than FALSE and is what the runs use.

`PurgeMessage` stands for every deletion of the row: `DeleteAgent` and
`DeleteExpiredMessages` remove rows in states that a soft delete and a purge can
reach as well. `metered` counts the finalizations of an account whose class is
metered (`usage.PolicyFor`).

Left out of the model: the lifecycle log (append-only, same transactions), the
text of diagnostics, which recipients a suppression blocks (a flag for the
envelope), the events of individual recipient outcomes.

### How SendRamp corresponds to the code

`Reserve`, `Confirm`, `Release`, `Exempt` and `Sweep` are one action each. Calls
that change nothing (an ungated domain, a released or same-day reservation) are
stuttering steps. The day passed to `Reserve` was computed before its
transaction, so it may be yesterday. `Release` is possible for `OpenDays` days
after the reservation: the retry horizon is three days and the reconciler runs
every minute, far less than the 28 days between the retention of settled
reservations (7) and of counters (35); `RetentionAssumption` states what the
retention needs. The capacity of a purged message stays consumed until its day
is swept; `orphan` records this, it is not treated as an error.

### How SdkRequest, KeyedCall and CliCommands correspond to the code

Attempt `n` of call `c` is the handler `<<c, n>>` on the server; it keeps running
when the client has timed out, which is how a retry meets its own predecessor.
The client's steps (`Start`, `Send`, `Receive`, `Lose`, `Resume`, `Abort`) are the
loop of `retry.ts`; `Decide` is its condition, the deadline a nondeterministic
stop. `Unresolved` is the lookup a handler
makes before it claims its key: the inbox (`resolveOwnedAgent`), the message that is
answered (`loadRepliableMessage`), the held draft; `target` says what it finds, and
`TargetChanges` is the trash, the purge, the restore or the send worker at any moment
between two attempts. (`createWebhook`, `rotateWebhookSecret` and `redeliverEvent` look
up inside the claim, where a refusal is one of `Refuse`.) `Claim`, `ClaimLost` and
`Classify` are the two statements of
`Store.Claim` and the interpretation of what the second one read. `Modes` says how
each operation is guarded: `deliver` completes the key in the accept transaction,
a held draft afterwards, `redeliver` under a key it derives; permanent deletions and
inbound reviews find their work done, a message is moved to the trash any number of
times; the rest simply run. `Complete` and `Release` match
the key only, so a handler that was overtaken after `StaleClaimWindow` can touch its
successor's row. Three events let the guarantee lapse, and each sets `licence` to
FALSE: a takeover from a handler that is still at work, an execution whose
`Complete` is lost, and the TTL. `CliCommands` adds the exit code each command
would end with on an answer; `FinalMeansUnsent` is stated about the answer as it is
written, because an attempt still in the network may run afterwards.

### How EventStream and CliListen correspond to the code

Connection `<<s, n>>` is the n-th dial of stream s; a rival is a client of the same
agent whose own end is not modelled. `hnd` follows `handler.go`: register (and evict
the previous connection outside the lock), drain a page of at most
`DrainLimit` unread messages (100 in the code), read loop, unregister. The code lists
the newest ones; `Pages` allows any page of that size, which is more. `page` and `left`
record what was listed and what was not. `push` is the relay's `Send`: it takes the connection under the read
lock and writes after releasing it. `wire` is the order of frames and close notices
one connection has in flight. The hub lives in one process: a second replica has
its own, and a message pushed by the other one waits for the next drain.
`CliListen` is the for-await loop around the stream; `INTERRUPTED` is exit 0 by
SIGINT, kept apart from the exit 0 of a match.

### How McpServer and McpTools correspond to the code

A request is `idle`, `resolving` (awaiting `whoami`) or `parsing` (dispatching);
`Slots` are the requests in flight. The cache is a sequence in insertion order, as
the `Map` behind `ResolveCache`. `Writes` says which operations change state: among the
GETs these are the ones that load a message through `GetMessageWithContent`, which marks
it read (`getMessage` and `getAttachment`; `getReview` reads the row without it). `RevocationTakesHold` bounds the staleness by one
probe and one cache lifetime. `McpTools` tabulates the tools as they are registered;
`OfferedToolsWork` evaluates the API's scope check for every tool the server would
offer to the request's principal.

### How Protection corresponds to the code

A config has one leaf of each kind that the editors treat differently; the other
direction behaves as the first. `handlePutProtection` stores the body as it is and
the default for a leaf that is left out. The CLI and the MCP tool read just before
they write; the form reads when it is mounted and stays open.

### How ReviewHold, ConsolePages and WebConsole correspond to the code

Every transition out of `pending_review` is one UPDATE guarded by the status, so one
action. `ApproveAndAccept` also stands for an approved message to oneself, which
`ApproveAndDeliverLocal` delivers under a row lock with the same effect on the hold, and
its guard against a trashed inbox is one of the refusals a tab may see; the sweep lists and loads the row first and resolves it later, two actions.
`ConsolePages` is a table: how a view is held (the SWR cache, or the state of one
page), which page mounts it, and for every operation what it changes in the API's
answers, which views its handler refreshes, awaits and refreshes afterwards, and
where it goes. `WebConsole` gives the table its dynamics: mounting revalidates
unless the last load is younger than `dedupingInterval`, loads in flight are shared,
`mutate` discards an answer that is under way and forgets the last load, a failed load is
repeated once or given up at once (a 4xx), a page that loads by hand applies answers as
they arrive. `last` is how the last load of a view ended; the poll passes over a view
whose last load ended in an error, focus and reconnection do not. The intervals, focus and
deduplication are SWR's, a library outside the repository, as `SWRProvider.tsx` and
`livePolling.ts` configure it.
Views do not influence each other, so a behaviour follows one view (`watch`) that its
operation changes, and the queue too for a row of it. `LeftToTheNextVisit` lists what
an operation changes without refreshing it.

### How CliDoctor corresponds to the code

`setup` gives every part of the deployment a value, classified as sound, odd,
broken or the credential's fault; a check turns the value, or the failure of its
probe, into an outcome and an exit class, in the order of `runDoctor`. One domain
and one webhook stand for those that are enumerated, `others` for those beyond the
cap. `denied` is a key revoked in mid-run or an API whose database fails: then it answers
401 to the credential, or 404 for a resource it looks up, where it had another answer
(`requirePrincipal`, `resolveOwnedAgent`). A malformed `--mcp-url` is modelled where the command refuses it.

## Runs

| Run | Instance | Checks |
|---|---|---|
| `send` | 1 ramped recipient, 2 attempts, 2 faults; 586,938 states | types, `EvidenceSettles`, `MeteredOnce`, `DuplicatesOnlyFromLostOutcomes`, `NoSubmitAfterFallback`, `OutcomesAreKept` |
| `send_live` | 2 ramped recipients, 1 fault, with fairness; 268,654 states | `EveryAcceptSettles`, `ReservationsSettle`, `RecipientsMonotonic` |
| `send_signal` | 1 fault, violation expected | `EverySettleIsSignalled` |
| `send_conflict` | 1 fault, violation expected | `SignalsDoNotConflict` |
| `ramp` | messages of 30, 30 and 50 recipients, 2 sibling domains, 3 days; 610,074 states | types, `CountersAccount`, `OverrunOnlyByCorrection`, `ProgressIsEarned`, `CompletionIsEarned` |
| `ramp_retention` | 2 messages, 2 configurations, 5 days, windows of 1 and 2 days; 334,998 states | `CountersAccount`, `CounterOutlivesReservation` |
| `sdk_send` | 2 calls, 2 bodies, 1 retry each, 1 fault, every operation, targets that come and go; 876,384 states | types, `KeepsPromise` (refinement of `KeyedCall`), `FinalMeansUnsent`, `SuccessIsReturned`, `NotFoundIsTruthful`, `AdviceMatchesCatalog` |
| `listen` | 1 listener, 1 rival, 2 messages (one of the conversation waited for), pages of 1, 2 dials, 1 fault, buffer of 1; 2.60 million states | types, `NothingUnannounced`, `NoOrphanPull`, `ErrorsSurface`, `NoStealBack`, `RetryOnOneIsSafe`, `ExitZeroIsHandOff` |
| `mcp` | 2 requests, 2 credentials, cache of 1, 1 revocation, 4 ticks; 348,250 states | types, `TierIsTheCredentials`, `RevocationTakesHold`, `OfferedToolsWork` |
| `protection` | one user of each editor, 2 saves, violation expected | `SaveKeepsTheRest` |
| `console` | every operation with every view it changes, 2 submissions, 2 failures; 640,326 states | types, `SentAsReviewed`, `VerdictHolds`, `WritesShow`, `QueueDrains` |
| `doctor` | setups with up to 2 peculiarities, 2 failing probes, 1 revocation or failure of the database; 386,102 states | `CleanBillIsEarned`, `ExitCodeIsWarranted` |

What they show:

* `EvidenceSettles`: once the provider's acceptance is known, no race leaves the
  row unsettled or under an inferred failure. A consequence is that the branch of
  the claim that settles a row with evidence (`worker.go`, after the claim) is
  defensive: the consumer settles in the transaction that records evidence.
* `MeteredOnce`: one usage event and one `email.sent` per message settled as sent.
  It says nothing about a failure confirmed by the provider that later bounces
  (feedback about an earlier, lost copy): that row shows `bounced`, unmetered.
* `DuplicatesOnlyFromLostOutcomes`: `docs/design/async-message-pipeline.md` calls
  the crash before MarkSent the only duplicate window; a failed MarkSent and a lost
  answer are the same window seen from SES, and the bound counts all three.
* `EveryAcceptSettles` includes messages that are trashed or purged, and needs the
  reconciler: the last attempt deliberately leaves the row pre-terminal.
* `send_signal`: a queued send cancelled from the trash settles with no event,
  against the contract's "exactly one terminal push signal".
* `send_conflict`: an SES Reject after `email.sent` publishes `email.failed` too, and
  late evidence does the reverse.
* `OverrunOnlyByCorrection`: the daily allowance is exceeded only by volume that was
  released as failed and proved to have been sent.

* `KeepsPromise`: the transport's retries, the guard's replays and the takeover of
  stale claims execute a keyed or unrepeatable call once, as long as the guarantee
  stands. It lapses exactly where the code drops an error or matches by key only.
* `FinalMeansUnsent`: an answer that makes the CLI exit with 5 is never written while
  an attempt of the same invocation has executed; an earlier attempt that is still
  at work surfaces as the retryable `idempotency_in_flight`, and an answered message
  that is still queued can only refuse attempts of which none has executed. There are two
  exceptions. A deletion: `keys delete` repeated after a lost answer exits 5 with
  `not_found`. And a lost target (`TargetLost`): the lookups run before the claim, so
  when a send has gone out, its answer is lost and the inbox, or the message it answers,
  is trashed before the retry (or the lookup fails on a database error, which reads
  as missing), the retry is refused with 404 instead of replayed and exits 5 although the
  message was sent. The comment of `deliver` (`internal/httpapi/outbound.go:789`), that
  "everything that consults MUTABLE state" runs after the claim, does not hold for
  these lookups; likewise for `createApiKey`, whose expiry may have passed by then.
* `AdviceMatchesCatalog` holds for every code but `message_not_yet_delivered`, which
  the server publishes as retryable and `CODE_TABLE` does not know.
* `NothingUnannounced`: neither a takeover nor the gap between storing, registering,
  draining and pushing loses a message. A failed listing, or a failed load of the
  envelope, does; and so does the limit of the listing: with more than 100 unread
  messages a connection serves its agent after the drain while the rest are unannounced,
  until they are fetched or a later drain lists them. (The comment of `drainUnread` speaks
  of "all unread messages".) What was beyond the page is excepted, only when a full page
  was written. The property is about the server's side: what the client's bounded
  buffer drops afterwards is only bounded, by `ListenTypeOK`.
* `RetryOnOneIsSafe`: a wrapper that repeats exit 1 never steals the connection back
  from the listener that replaced it.
* `OfferedToolsWork`: no offered tool is refused for its scope, and a tool announced as
  read-only writes nothing, with one exception (`MarksRead`): `get_attachment` and its
  older name `get_attachment_data` are announced as read-only, so that "hosts can
  auto-approve reads" (`mcp/README.md:133`), and mark the message read, for which `get_message` is deliberately not read-only.
* `RevocationTakesHold`: the cache never extends a revoked credential beyond one
  probe and one lifetime, even when an answer arrives after the revocation. (The API
  refuses the credential at once in any case; this is about what is offered.)
* `protection`: saving the form resets `suppress_notifications`, which the form does
  not show, although a comment says that it submits the whole config.
* `SentAsReviewed`: whatever the cache, the reloads and the editor do, an approval
  sends the agent's words except where the reviewer typed.
* `VerdictHolds`: the console reports a decision as its own only if this submission
  made it.
* `WritesShow` excuses three weaknesses of the code: a load that failed and was given up, an overtaken answer on a page that loads by hand (webhooks, API keys,
  templates), and a handler that finishes after such a page was left.
* `QueueDrains`: a hold resolved anywhere leaves the queue of an open tab, unless a load
  of the queue was given up. Then nothing but focus, reconnection or a decision made
  in this tab asks again: the interval passes over a key in error, and `onErrorRetry`
  gives up at once on a 4xx and otherwise after one repetition.
* `CleanBillIsEarned` and `ExitCodeIsWarranted`: the second excuses a key revoked in
  the middle of a run, which the domain and webhook checks report as a configuration
  failure although `doctor.ts:206` says that "a bad credential (4) must win", and an API
  that calls a failure of its own database 401 or 404, which doctor cannot tell from a
  bad credential or a missing resource.

Observations met on the way that no run is about: `VerifyDomainCard.tsx:23` takes any
200 of `verifyDomain` for success, while `internal/httpapi/domains.go:304` says to
branch on `verified`. `SWRProvider.tsx` announces a cap of 2 retries and
`onErrorRetry` allows one. `view/page.tsx:241` awaits its refreshes so that the inbox
"renders fresh data", but SWR does not refetch a key that is not mounted; the inbox
revalidates when it mounts. The shortcut of the message's page submits without
looking at whether a submission is under way; the second one loses the
compare-and-set with a 409. `resolve.ts:46` promises a single `whoami` for a burst,
concurrent requests with a cold cache make one each. `e2a protection set
--outbound-review on` sets an action that an open policy never applies.

Bounds. Two attempts distinguish a first, a repeated and a last one. Two faults
reach a fault during the recovery from another. Recipients interact only through
the rollup, for which two are enough to disagree; `send` has one and `send_live` two,
and what `send` checks is proved for any number. The ramp's 30 + 30 + 50 units against limits of 50 and 100 hit
the limit exactly, pass it, and qualify a day with one or with two messages;
three days cover a midnight before and after the ramp completes. The retention
windows are scaled from 7 and 35 days to 1 and 2, keeping `RetentionAssumption`.
Two calls with one retry each give a key four handlers: an owner, its own retry, a
competitor and a takeover. Only `sendMessage`, which has both ways of completing a
key, is called by several callers at once. Two dials reach every reaction to a close;
one rival is enough to replace a listener, and a buffer of one overflows with one
message and its repetition by a drain. A page of one message stands for the code's 100:
a listener that runs on starts with two waiting, more than a drain lists, or with one that
arrives at an empty inbox, and a wait with one message of its conversation or of another
(`MCStart`; the proofs allow any start, page and number of messages). The targets of `Fleeting` operations come and
go; in the run these are all but `sendMessage`, whose several callers make its state space
the largest: there a lookup fails only by a fault, as the proof allows for both. A cache of one entry evicts with two
credentials, and four ticks exceed the probe's timeout plus the lifetime. Two
submissions are a lost answer and its repetition. A draft has one field, because the
editor treats fields alike (the proofs are for any number). Doctor's checks combine outcomes by their worst, so two
peculiarities and two failures cover masking of one by the other.

Fairness. Weak fairness of `StartJob` and `RescueStuckJob` (River fetches and
rescues), of `WorkerStep` and `ReconcileStep` (a live worker goes on; the
reconciler is a periodic job), of `GraceElapses` and `HorizonPasses` (time
passes). Nothing is assumed of notifications, restores or purges. Ramp denials
and outages may go on for ever: the horizon ends them. For the console: a request
that was made is answered or fails, the interval of a view that is not in error fires
while the tab is visible, and a handler runs on once its answer is there. Nothing is
assumed of focus and reconnection, which alone revive a view in error, of the user, of
other reviewers or of the sweep.

## Proofs

`OutboundSendProofs` proves, for every non-empty envelope, positive attempt
budget and number of faults (`RecipientsAssumption`, `AttemptsAssumption`,
`FaultsAssumption`):

| Theorem | Property |
|---|---|
| `TypeCorrect` | `TypeOK` |
| `EvidenceAlwaysSettles` | `EvidenceSettles` |
| `SentIsMeteredOnce` | `MeteredOnce` |
| `DuplicatesNeedALostOutcome` | `DuplicatesOnlyFromLostOutcomes` |
| `FallbackIsFinal` | `NoSubmitAfterFallback` |
| `OutcomesAreAlwaysKept` | `OutcomesAreKept` |
| `RecipientsNeverRegress` | `RecipientsMonotonic` |

The argument. `TypeInv` strengthens the types with what River guarantees: the
worker stands inside a running job only, and an available job has an attempt
left, so starting one stays within the budget. `RowSteps` then reduces the many
actions to the few ways a row, its meter and its events can change (`RowStep`).
`RowInv` is inductive under these: evidence and `email.sent` exclude the unsettled
states, an unsettled row has no recipient outcomes, and a settled one has a
recipient at least as bad as its status — without the last part the rollup of a
later notification could lower the status. `SubmitInv` counts copies: while the
row may still be submitted every copy is a lost one, except between the answer
and `MarkSent`; and a preserved failure is complete, so the claim refuses it.
`OutcomesAreKept` follows from `RowInv` step by step, and `RecipientsMonotonic` from
what `Merge` does to ranks: only `Process` writes the recipients of a row.

`SendRampProofs` proves, for every finite set of messages of any positive sizes
(`MessagesAssumption`, `UnitsAssumption`), any domains, any succession of configured
schedules, any number of days and all windows with `OpenDays + KeepResv <=
KeepCounter` (`RetentionAssumption`; the code's are 3, 7 and 35 days):

| Theorem | Property |
|---|---|
| `Types` | `TypeOK` |
| `Completion` | `CompletionIsEarned` |
| `Overrun` | `OverrunOnlyByCorrection` |
| `Retention` | `CounterOutlivesReservation` |
| `ExactCounters` | `CountersAccount` |
| `Progressing` | `ProgressIsEarned` |

The argument. Completion and overrun are inductive next to the types. The other
three need to know that a counter, once swept, is not created anew while units of
its day are held: `Kept` says that whatever holds units of a day has its counter or
lies so far back that nothing can reserve on that day any more, and that a released
reservation was last touched within `OpenDays` of its day. `Account` is the exact
bookkeeping. Its sums are counted as cardinalities of a disjoint union, about which
the library has theorems; how `MapThenSumSet` relates to them is shown by a minimal
counterexample in the order of strict subsets, since an induction scheme with an
operator parameter cannot be used. `Earned` counts only days on which no reservation
can be taken any more, or which qualify: `ProgressIsEarned` alone is not inductive,
because a day without a counter could still get one that does not qualify.

`SdkRequestProofs` proves, for any number of calls, of callers that share a key, of
bodies, retries and faults, and any table of operations that satisfies
`OperationsAssumption`, with handlers that refuse with catalogued codes
(`RefusalsAssumption`, which `internal/httpapi/errorcode_vocab_test.go` enforces on
the source). `CliCommandsProofs` adds the CLI on top:

| Theorem | Property |
|---|---|
| `Types` | `TypeOK` |
| `Refinement` | `KeepsPromise` |
| `Truthful` | `NotFoundIsTruthful` |
| `Advice` | `AdviceMatchesCatalog` |
| `SuccessReturned`, `SdkSuccessIsReturned` | `SuccessIsReturned` |
| `ExitFiveIsUnsent`, `SdkExitFiveIsUnsent` | `FinalMeansUnsent` |

The argument. `HandlerFacts` reduces the thirteen steps of a handler to the eight
effects it can have on its row, its answer and the guarantee. `Inv` has one part per
concern: attempts are made one after the other and only where the transport may
retry (`Sequential`); a handler executes once (`Executing`); while the guarantee
stands a key has one holder, and its row is the holder's claim or records the one
execution (`Claims`, the heart of it: takeovers, releases and completions match by
key only); a completed row names an execution of its key (`Recorded`); an answer on
its way is a success of the same key and body or a catalogued refusal (`Answers`); a
thrown error stems from such an answer (`Throws`). The refinement maps `outcome` to
the abstract answer and `KeyOf` to the groups; every step is a step of `KeyedCall` or
a stutter, and the three lapses are its `Lapse`. `FinalMeansUnsent` needs one
more fact, `TargetInvariant`: a message that is still queued has been so since the call
began, so no attempt to answer it has executed or is past its lookup. Otherwise a handler that refuses while it runs holds a key under which
nothing has executed, or is the only attempt of its call; a reused key has another
body than any execution of the call; and every other answer is a success or advises
to retry. The last two rows of the table rest on `SuccessDeclared` (the processors
declare what the handlers answer success with); the theorems named `Sdk...` prove it
for the 61 operations of the generated client.

`CliListenProofs` proves, for any listeners, rivals, messages, options, buffer size,
dials and faults (`BufferAssumption`, `DialsAssumption`, `StreamFaultsAssumption`,
`RivalsAssumption`, `NoMsgAssumption`, `OptionsAssumption`) and any length of a page
(`DrainAssumption`):

| Theorem | Property |
|---|---|
| `Types` | `ListenTypeOK` |
| `Announcements` | `NothingUnannounced` |
| `PullsAnswered` | `NoOrphanPull` |
| `Surfaced` | `ErrorsSurface` |
| `NoFight` | `NoStealBack` |
| `Retry` | `RetryOnOneIsSafe` |
| `HandOff` | `ExitZeroIsHandOff` |

The argument. `ServerInv` is about the hub: a handler runs only for a connection that
has been dialed (`Dialed`), one that is up is the registered one or is being evicted
(`Registered`), and every unread message is owed to the registered connection by its drain, by a push or by being announced
already, or was left out by its listing (`Announced`), and a listing that left anything
out is a full page that has been written or still will be (`Paged`) — from the moment of the registration, not only in the read
loop, which is what makes it inductive. `StreamInv` is about one stream and its
process: listener, socket and stream close together (`Closing`), a waiting pull has
an open stream and an empty buffer (`Pulling`), an error is parked or thrown
(`Surfacing`), the flags of the loop mean what the exit codes claim (`Handling`,
`Exiting`), and without a fault there is one dial (`Quiet`). The streams see a step of
the server only through their own connections (`ServerView`), so each half is proved
on its own.

`CliDoctorProofs` proves `CleanBill` (`CleanBillIsEarned`) and `Warrants`
(`ExitCodeIsWarranted`) of `AnySpec`, which starts from every combination of the values
of a setup; the run starts from the usual setup changed in two places, and `Wider`
shows that its behaviours are among these. `Inv` says of each step what the checks
before it have looked at (`Judged`): without a failed check so far it is not broken,
without a warning it is sound, and nothing was skipped for want of an account; and
every failed check has its cause (`Warrant`).

`WebConsoleProofs` proves, for every set of fields, number of submissions and of
faults, and either setting of `on_expiry` (`BoundsAssumption`):

| Theorem | Property |
|---|---|
| `VerdictAlwaysHolds` | `VerdictHolds` |
| `AlwaysSentAsReviewed` | `SentAsReviewed` |
| `TypesHold` | `TypeOK` |

The argument. Everyone who resolves a hold finds it pending, so in `SubmissionInv` a
submission that committed is the one that resolved the hold, with its own verdict,
and the handler goes on after its own submission only. `EditorInv`, for the two
operations that have an editor, says that the form on screen holds the draft except
in the fields that were typed in, and that nothing is marked as edited while it is
not on screen; reloads, cancelling and reopening are the cases to look at. `PayloadInv` says that
a submission under way, applied to the draft, gives what its reviewer meant, and
that the text in the row is the intent of the submission that won. `SentAsReviewed`
needs all three: the payload is right because the form was, and the row is right
because only one submission resolved it. `TypeOK` goes through the tables: every
operation names pages and views that exist (`OperationsPlaced`, `ChangesPlaced`), and a
view in the SWR cache has at most one load under way, because mounting, polling and
`mutate` join a load or replace it (`LoadInv`).

`McpServerProofs` proves, for every set of credentials and of requests in flight,
all positive lifetimes, cache sizes and lengths of time (`TimesAssumption`), and any number of
revocations:

| Theorem | Property |
|---|---|
| `TierIsAlwaysTheCredentials` | `TierIsTheCredentials` |
| `RevocationAlwaysTakesHold` | `RevocationTakesHold` |
| `CacheIsAlwaysBounded` | `TypeOK` |
| `OfferedToolsAlwaysWork` | `OfferedToolsWork` |

The argument. The property bounds when a served request began; `Inv` follows the
answer from the API to that request. An answer on its way was given while its
bearer was valid, to a request that began no later than the revocation and whose
timer has not passed; a cache entry therefore expires at most one probe and one
lifetime after the revocation (`Entries`), and a hit began before that (`Requests`). A
revocation itself is the only step that brings the bound forward, and whatever was
known then began and expires early enough for the new one. `CacheInv` adds that the
cache has one entry per bearer and never more than its cap: an insertion removes what
it replaces, or the oldest. `OfferedToolsAlwaysWork` goes through the tables of
`McpTools`: every tool of the runtime tier calls methods that are open to any
principal or bound to the credential's inbox, and the read-only ones call GETs
that do not mark a message read, the attachment tools excepted (`Behaves`); that each tool has a tier is `TiersAssumption`, the check the server makes
when it starts.

Only model-checked: liveness (`EveryAcceptSettles`, `ReservationsSettle`, `WritesShow`,
`QueueDrains`), since fairness and `ENABLED` are beyond the prover. Every invariant and
every action property of a passing run is proved. The three runs that expect a
violation are counterexamples and need no proof.
No module declares a RECURSIVE operator.

## Plan

1. `WebhookOutbox`: publish, fan-out, delivery, terminal write, auto-disable and
   replay; an abstract "every event reaches every subscriber" that it implements.
2. `InboundIntake` and `PendingReconcile` (`jobs.ReconcilePending`).
3. `SenderIdentity`, `PlanLimits` (check-then-act on a count and on cached limits),
   `RefreshRotation` (two exchanges of one refresh token).

## Not modelled

Parsing, screening, composition, templates, DKIM, telemetry, the self-test prober and
the HTTP layer keep no protocol state of their own. Of the clients: the generated
model classes and `ObjectParamAPI.ts` copy fields (the client does not use the
latter); pagination is a loop of reads; `webhook-signature` verification is
cryptography; the MCP server's metrics and readiness probe are observability; login
and configuration files of the CLI are I/O; the landing, documentation, consent and
login pages of the console render text. The Python SDK mirrors the TypeScript one.
