---------------------------- MODULE OutboundSend ----------------------------
(***************************************************************************)
(* One accepted outbound message on its way to the provider: the messages  *)
(* row, its River job, the send worker (internal/outboundsend/worker.go),  *)
(* the terminal reconciler (terminal_reconcile.go), the SES feedback       *)
(* consumer (internal/delivery/consumer.go), the sending-ramp reservation  *)
(* of the message and the trash.  Messages share no row, so one message is *)
(* enough; the capacity that reservations share is module SendRamp.        *)
(*                                                                         *)
(* Every store call is one PostgreSQL transaction that locks the row, so   *)
(* each is one atomic step; between two calls of the worker or of the      *)
(* reconciler anything else may happen.  The row operators below keep the  *)
(* names of the store functions they translate.                            *)
(***************************************************************************)
EXTENDS DeliveryStatus

CONSTANTS
  Recipients,       \* the message's immutable envelope (to, cc and bcc)
  MaxSendAttempts,  \* MaxSendAttempts of worker.go, the River attempt budget
  MaxFaults,        \* bound: crashes, store errors and ambiguous submits
  HeaderEcho,       \* SES echoes X-E2A-Message-ID in its notifications
  RampEligible      \* the message is ramped (own_address and not a test)

ASSUME RecipientsAssumption == Recipients # {}
ASSUME AttemptsAssumption == MaxSendAttempts \in Nat \ {0}
ASSUME FaultsAssumption == MaxFaults \in Nat
ASSUME FlagsAssumption == HeaderEcho \in BOOLEAN /\ RampEligible \in BOOLEAN

VARIABLES
  row,      \* the messages row and its message_recipients rows
  trashed,  \* deleted_at of the message or of its agent is set
  metered,  \* usage events written for this message
  sentEvt,  \* email.sent is in the webhook outbox (deterministic id)
  failEvt,  \* email.failed is in the webhook outbox (deterministic id)
  resv,     \* state of the sending_ramp_reservations row
  job,      \* the River job: state, attempt, finalized past the grace window
  pc, plan, \* the send worker: its next call, the failure it is recording
  rpc, rplan,       \* the terminal reconciler: next call, snapshot
  copies, refused,  \* submissions SES took, and those of them it later rejects
  horizon,          \* the accept is older than sendRetryHorizon
  suppressed,       \* an envelope address is on an effective suppression list
  faults,           \* how many of the MaxFaults faults have happened
  lost              \* submissions whose acceptance the worker never recorded

rowVars == <<row, metered, sentEvt, failEvt>>
workVars == <<pc, plan>>
recVars == <<rpc, rplan>>
netVars == <<copies, refused>>
envVars == <<trashed, horizon, suppressed>>
faultVars == <<faults, lost>>
vars == <<rowVars, resv, job, workVars, recVars, netVars, envVars, faultVars>>

SentLike == Feedback \ {"failed"}
Final == {"completed", "cancelled", "discarded"}
Reasons == {"provider_rejected", "local_retries_exhausted", "cancelled"}
Sources == {"local", "provider"}

\* What the worker does around each terminal failure it records: provenance,
\* reason, whether the reservation is released afterwards ("must": an error of
\* Release is returned, "try": it is ignored), and how the job ends.
FailurePlans ==
  [rampInvalid   |-> [source |-> "local", reason |-> "cancelled", release |-> "no", end |-> "cancel"],
   rampError     |-> [source |-> "local", reason |-> "local_retries_exhausted", release |-> "try", end |-> "cancel"],
   rampTimeout   |-> [source |-> "local", reason |-> "local_retries_exhausted", release |-> "must", end |-> "cancel"],
   suppression   |-> [source |-> "local", reason |-> "cancelled", release |-> "must", end |-> "cancel"],
   rejection     |-> [source |-> "provider", reason |-> "provider_rejected", release |-> "must", end |-> "cancel"],
   outageTimeout |-> [source |-> "local", reason |-> "local_retries_exhausted", release |-> "try", end |-> "error"]]

Plans == DOMAIN FailurePlans

WorkerSteps == {"claim", "reserve", "check", "deliver", "markSent", "settle", "confirm",
                "markFailed", "release", "unclaimSnooze", "unclaimError", "defer",
                "resolve", "resolveConfirm", "resolveRelease"}
-----------------------------------------------------------------------------
(* The messages row: one operator per store function.                      *)

\* isCompleteTerminalFallback: a preserved failure whose richer terminal
\* transaction could not be written (attempt stands for attempt+occurred_at).
CompleteTerminalFallback(w) ==
  w.attempt /\ \/ w.reason = "provider_rejected" /\ w.source = "provider"
               \/ w.reason \in Reasons \ {"provider_rejected"} /\ w.source = "local"

\* What can go wrong in the claim: a forgotten status, a forgotten fallback.
ClaimableInAnyStatus(w) == w.status # "gone" /\ ~CompleteTerminalFallback(w)
ClaimableDespiteFallback(w) == w.status \in PreSend

\* The rows ClaimOutboundForSend may claim.
Claimable(w) == w.status \in PreSend /\ ~CompleteTerminalFallback(w)

NoFailure(w) == [w EXCEPT !.source = "none", !.reason = "none", !.attempt = FALSE]

\* addSentRecipientRowsTx: a 'sent' row for every recipient that has none.
AddSentRecipientRows(w) ==
  [w EXCEPT !.rcpt = [r \in Recipients |-> IF w.rcpt[r] = "none" THEN "sent" ELSE w.rcpt[r]]]

\* ClaimOutboundForSend's cancel of a trashed queued send.
CancelTrashed(w) ==
  [w EXCEPT !.status = "failed", !.source = "local", !.reason = "cancelled", !.claim = "none"]

Claimed(w) == [w EXCEPT !.status = "sending", !.claim = "fresh"]

\* ReleaseOutboundSendClaim and RecordTemporaryFailure change the row alike.
Unclaimed(w) ==
  IF w.status = "sending" THEN [w EXCEPT !.status = "accepted", !.claim = "none"] ELSE w

\* DeferTerminalFailure: the diagnostic is stored, the row stays pre-terminal.
DeferOutboundTerminalFailure(w) ==
  IF w.status \in PreSend THEN [w EXCEPT !.claim = "none"] ELSE w

PreserveOutboundTerminalFailure(w, source, reason) ==
  IF w.status \in PreSend
  THEN [w EXCEPT !.status = "accepted", !.source = source, !.reason = reason,
                 !.attempt = TRUE, !.claim = "none"]
  ELSE w

\* The compare-and-set left out: any live row is marked sent again.
MarkOutboundSentUnguarded(w) == w.status # "gone"

\* MarkOutboundSentTx applies only to a row in 'sending'.
MarkOutboundSentApplies(w) == w.status = "sending"
MarkOutboundSent(w, id) ==
  AddSentRecipientRows([NoFailure(w) EXCEPT !.status = "sent", !.claim = "none", !.provId = id])

\* The correction of a failure that e2a inferred, forgotten.
PendingPreSendOnly(w) == w.evidence /\ w.status \in PreSend

\* ProviderAcceptancePendingTx, and the guard of ResolveOutboundProviderAcceptedTx.
ProviderAcceptancePending(w) ==
  /\ w.evidence
  /\ w.status \in PreSend \/ (w.status = "failed" /\ Correctable(w.source))
ResolveOutboundProviderAccepted(w) ==
  AddSentRecipientRows([NoFailure(w) EXCEPT !.status = "sent", !.claim = "none"])

\* MarkOutboundFailedTx: the compare-and-set that must not fail a row the
\* provider demonstrably accepted.
MarkOutboundFailedApplies(w) == w.status \in PreSend /\ ~w.evidence
MarkOutboundFailed(w, source, reason) ==
  [w EXCEPT !.status = "failed", !.source = source, !.reason = reason, !.claim = "none"]

\* RecordProviderAcceptEvidenceTx: first evidence wins; a provider id that the
\* crash window lost is repaired from the notification.
RecordProviderAcceptEvidence(w, c) ==
  [w EXCEPT !.evidence = TRUE, !.provId = IF w.provId = 0 THEN c ELSE w.provId]

\* RecordDeliveryOutcomeTx for the recipients R of one notification, all with
\* the same outcome: merge, re-roll up, resolve against the stored status.
RecordDeliveryOutcome(w, R, outcome) ==
  LET rcpt == [r \in Recipients |->
                 IF r \in R THEN Merge(w.rcpt[r], outcome) ELSE w.rcpt[r]]
      next == ResolveMessageRollup(w.status, w.source,
                Rollup({rcpt[r] : r \in {x \in Recipients : rcpt[x] # "none"}}))
      v == [w EXCEPT !.rcpt = rcpt, !.status = next]
  IN CASE next = w.status     -> v
       [] next = "failed" /\ w.status # "failed" ->
            [v EXCEPT !.source = IF w.source = "none" THEN "provider" ELSE w.source]
       [] w.status = "failed" /\ next # "failed" -> NoFailure(v)
       [] OTHER               -> v

\* A Reject that overwrites whatever is recorded.
RejectUnguarded(w) ==
  [w EXCEPT !.status = "failed", !.source = "provider", !.reason = "provider_rejected",
            !.attempt = FALSE, !.claim = "none"]

\* RecordProviderRejectTx: an SES Reject is authoritative unless a bounce or a
\* complaint is already recorded.
RecordProviderReject(w) ==
  IF w.status \in {"bounced", "complained"}
  THEN [w EXCEPT !.claim = "none"]
  ELSE [w EXCEPT !.status = "failed", !.source = "provider", !.reason = "provider_rejected",
                 !.attempt = FALSE, !.claim = "none"]
-----------------------------------------------------------------------------
(* Initial state: the accept transaction has committed the row and its job. *)

NewRow == [status |-> "accepted", source |-> "none", reason |-> "none", attempt |-> FALSE,
           claim |-> "none", evidence |-> FALSE, provId |-> 0,
           rcpt |-> [r \in Recipients |-> "none"]]

NoPlan == [source |-> "none", reason |-> "none"]

Init ==
  /\ row = NewRow
  /\ trashed = FALSE
  /\ metered = 0 /\ sentEvt = FALSE /\ failEvt = FALSE
  /\ resv = "none"
  /\ job = [state |-> "available", attempt |-> 0, grace |-> FALSE]
  /\ pc = "idle" /\ plan = "none"
  /\ rpc = "idle" /\ rplan = NoPlan
  /\ copies = 0 /\ refused = {}
  /\ horizon = FALSE /\ suppressed = FALSE
  /\ faults = 0 /\ lost = 0
-----------------------------------------------------------------------------
(* The transactions that settle a row.                                     *)

\* finalizeSentTx: meter the send and publish email.sent in the same commit.
FinalizeSent == metered' = metered + 1 /\ sentEvt' = TRUE /\ UNCHANGED failEvt

\* outboundSendStore.MarkFailed: evidence settles the row as sent; otherwise the
\* compare-and-set fails it and publishes email.failed; otherwise nothing.
MarkFailed(source, reason) ==
  \/ /\ ProviderAcceptancePending(row)
     /\ row' = ResolveOutboundProviderAccepted(row)
     /\ FinalizeSent
  \/ /\ ~ProviderAcceptancePending(row) /\ MarkOutboundFailedApplies(row)
     /\ row' = MarkOutboundFailed(row, source, reason)
     /\ failEvt' = TRUE /\ UNCHANGED <<metered, sentEvt>>
  \/ /\ ~ProviderAcceptancePending(row) /\ ~MarkOutboundFailedApplies(row)
     /\ UNCHANGED rowVars

\* sendramp.Store.Confirm and Release, seen from the reservation row.
ConfirmResv(s) == IF s \in {"reserved", "released"} THEN "confirmed" ELSE s
ReleaseResv(s) == IF s = "reserved" THEN "released" ELSE s
-----------------------------------------------------------------------------
(* River: claiming, ending, rescuing and pruning the job.                  *)

StartJob ==
  /\ job.state = "available" /\ pc = "idle"
  /\ job' = [job EXCEPT !.state = "running", !.attempt = @ + 1]
  /\ pc' = "claim"
  /\ UNCHANGED <<rowVars, resv, plan, recVars, netVars, envVars, faultVars>>

\* A job that is retried whatever its budget.
JobAfterUnbounded(end) ==
  [job EXCEPT !.state = CASE end = "complete" -> "completed"
                          [] end = "cancel"   -> "cancelled"
                          [] OTHER            -> "available"]

\* An error retries until the attempts are used up; a snooze burns none.
JobAfter(end) ==
  [job EXCEPT
     !.state = CASE end = "complete" -> "completed"
                 [] end = "cancel"   -> "cancelled"
                 [] end = "snooze"   -> "available"
                 [] OTHER -> IF job.attempt >= MaxSendAttempts THEN "discarded" ELSE "available",
     !.attempt = IF end = "snooze" THEN @ - 1 ELSE @]

\* Work returns: River records the outcome of the job.
Return(end) == pc' = "idle" /\ plan' = "none" /\ job' = JobAfter(end)

Goto(step) == pc' = step /\ UNCHANGED <<plan, job>>
Fail(kind) == pc' = "markFailed" /\ plan' = kind /\ UNCHANGED job

\* A running job whose worker died is rescued once it is stuck long enough.
RescueStuckJob ==
  /\ job.state = "running" /\ pc = "idle"
  /\ job' = JobAfter("error")
  /\ UNCHANGED <<rowVars, resv, workVars, recVars, netVars, envVars, faultVars>>

\* River's cleaner; its retention is longer than the evidence grace.
PruneJob ==
  /\ job.state \in Final /\ job.grace
  /\ job' = [job EXCEPT !.state = "missing"]
  /\ UNCHANGED <<rowVars, resv, workVars, recVars, netVars, envVars, faultVars>>

\* providerEvidenceGrace elapses after the job was finalized.
GraceElapses ==
  /\ job.state \in Final /\ ~job.grace
  /\ job' = [job EXCEPT !.grace = TRUE]
  /\ UNCHANGED <<rowVars, resv, workVars, recVars, netVars, envVars, faultVars>>
-----------------------------------------------------------------------------
(* The send worker, one action per call it makes.                          *)

\* ClaimSend / ClaimOutboundForSend: the send/trash linearization point.  An
\* unclaimable row, and a trashed one after its cancellation, only has its
\* reservation resolved; a row with provider evidence is settled, not resent.
ClaimSend ==
  /\ pc = "claim"
  /\ \/ ~Claimable(row) /\ row' = row /\ Goto("resolve")
     \/ Claimable(row) /\ trashed /\ row' = CancelTrashed(row) /\ Goto("resolve")
     \/ /\ Claimable(row) /\ ~trashed /\ row' = Claimed(row)
        /\ Goto(IF row.evidence THEN "settle" ELSE "reserve")
  /\ UNCHANGED <<metered, sentEvt, failEvt, resv, recVars, netVars, envVars, faultVars>>

\* A fault of the worker; one between the submit and MarkSent loses the outcome.
Fault == /\ faults' = faults + 1
         /\ lost' = IF pc = "markSent" THEN lost + 1 ELSE lost

\* The ramp gate.  Reserve allows (a fresh, a same-day or no reservation at
\* all), denies for the day (an earlier day's reservation is given back),
\* refuses permanently (always after a release), or is unavailable.
Reserve ==
  /\ pc = "reserve"
  /\ \/ ~RampEligible /\ resv' = resv /\ Goto("check")
     \/ /\ RampEligible /\ resv # "released"
        /\ resv' \in IF resv = "none" /\ row.status # "gone" THEN {"none", "reserved"} ELSE {resv}
        /\ Goto("check")
     \/ /\ RampEligible /\ resv \in {"none", "reserved"} /\ resv' = "none"
        /\ IF horizon THEN Fail("rampTimeout") ELSE Goto("unclaimSnooze")
     \/ RampEligible /\ resv' = resv /\ Fail("rampInvalid")
     \/ /\ RampEligible /\ resv' = resv
        /\ IF horizon THEN Fail("rampError") ELSE Goto("unclaimSnooze")
  /\ UNCHANGED <<rowVars, recVars, netVars, envVars, faultVars>>

\* The final suppression guard before provider I/O.
CheckSuppression ==
  /\ pc = "check"
  /\ IF suppressed THEN Fail("suppression") ELSE Goto("deliver")
  /\ UNCHANGED <<rowVars, resv, recVars, netVars, envVars, faultVars>>

\* SES takes one more copy of the message, which it may yet reject.
Submit == /\ copies' = copies + 1
          /\ refused' \in {refused, refused \cup {copies + 1}}

\* Work after a failed submit: an outage snoozes until the horizon, the last
\* attempt defers its outcome to the reconciler, any other error is retried.
AfterOutage == IF horizon THEN Fail("outageTimeout") ELSE Goto("unclaimSnooze")
AfterTemporaryFailure ==
  Goto(IF job.attempt >= MaxSendAttempts THEN "defer" ELSE "unclaimError")

\* Deliver: accepted, rejected with a 5xx, relay unreachable, or a 4xx.
Deliver ==
  /\ pc = "deliver"
  /\ \/ Submit /\ Goto("markSent")
     \/ UNCHANGED netVars /\ (Fail("rejection") \/ AfterOutage \/ AfterTemporaryFailure)
  /\ UNCHANGED <<rowVars, resv, recVars, envVars, faultVars>>

\* SES took the message but its answer was lost: a read timeout or a reset after
\* DATA is classified as an outage, an unclassified error as temporary.
DeliverAmbiguously ==
  /\ pc = "deliver" /\ faults < MaxFaults
  /\ Submit /\ (AfterOutage \/ AfterTemporaryFailure)
  /\ faults' = faults + 1 /\ lost' = lost + 1
  /\ UNCHANGED <<rowVars, resv, recVars, envVars>>

\* outboundSendStore.MarkSent, a no-op when the row left 'sending' meanwhile.
MarkSent ==
  /\ pc \in {"markSent", "settle"}
  /\ IF MarkOutboundSentApplies(row)
     THEN /\ row' = MarkOutboundSent(row, IF pc = "settle" THEN row.provId ELSE copies)
          /\ FinalizeSent
     ELSE UNCHANGED rowVars
  /\ IF RampEligible THEN Goto("confirm") ELSE Return("complete")
  /\ UNCHANGED <<resv, recVars, netVars, envVars, faultVars>>

Confirm ==
  /\ pc = "confirm"
  /\ resv' = ConfirmResv(resv)
  /\ Return("complete")
  /\ UNCHANGED <<rowVars, recVars, netVars, envVars, faultVars>>

\* Work's continuation once markFailed returned nil.
AfterMarkFailed ==
  IF RampEligible /\ FailurePlans[plan].release # "no"
  THEN Goto("release")
  ELSE Return(FailurePlans[plan].end)

WorkerMarkFailed ==
  /\ pc = "markFailed"
  /\ MarkFailed(FailurePlans[plan].source, FailurePlans[plan].reason)
  /\ AfterMarkFailed
  /\ UNCHANGED <<resv, recVars, netVars, envVars, faultVars>>

\* markFailed's fallback after its write failed terminalWriteRetries times.
PreserveTerminalFailure ==
  /\ pc = "markFailed" /\ faults < MaxFaults
  /\ row' = PreserveOutboundTerminalFailure(row, FailurePlans[plan].source,
                                            FailurePlans[plan].reason)
  /\ Fault
  /\ AfterMarkFailed
  /\ UNCHANGED <<metered, sentEvt, failEvt, resv, recVars, netVars, envVars>>

Release ==
  /\ pc = "release"
  /\ resv' = ReleaseResv(resv)
  /\ Return(FailurePlans[plan].end)
  /\ UNCHANGED <<rowVars, recVars, netVars, envVars, faultVars>>

\* ReleaseSend or RecordTemporaryFailure, then JobSnooze or an error.
ReleaseClaim ==
  /\ pc \in {"unclaimSnooze", "unclaimError"}
  /\ row' = Unclaimed(row)
  /\ Return(IF pc = "unclaimSnooze" THEN "snooze" ELSE "error")
  /\ UNCHANGED <<metered, sentEvt, failEvt, resv, recVars, netVars, envVars, faultVars>>

DeferTerminalFailure ==
  /\ pc = "defer"
  /\ row' = DeferOutboundTerminalFailure(row)
  /\ Return("error")
  /\ UNCHANGED <<metered, sentEvt, failEvt, resv, recVars, netVars, envVars, faultVars>>

\* sendramp.Store.Resolve reads the status and settles the reservation in a
\* later transaction, so the status it acts on may be stale.
ResolveReservation ==
  /\ pc = "resolve"
  /\ \/ row.status \in SentLike /\ Goto("resolveConfirm")
     \/ row.status = "failed" /\ Goto("resolveRelease")
     \/ row.status \in PreSend \cup {"gone"} /\ Return("complete")
  /\ UNCHANGED <<rowVars, resv, recVars, netVars, envVars, faultVars>>

SettleReservation ==
  /\ pc \in {"resolveConfirm", "resolveRelease"}
  /\ resv' = IF pc = "resolveConfirm" THEN ConfirmResv(resv) ELSE ReleaseResv(resv)
  /\ Return("complete")
  /\ UNCHANGED <<rowVars, recVars, netVars, envVars, faultVars>>

\* A store call of the worker fails (a database error, or a job context that has
\* expired) and changes nothing.  Work returns the error, except that a failed
\* suppression check first releases the claim and that the errors of Defer and
\* of a best-effort Release are dropped.
StoreError ==
  /\ pc \in WorkerSteps \ {"reserve", "deliver"} /\ faults < MaxFaults
  /\ Fault
  /\ IF pc = "check" THEN Goto("unclaimError")
     ELSE IF pc = "release" /\ FailurePlans[plan].release = "try"
          THEN Return(FailurePlans[plan].end)
          ELSE Return("error")
  /\ UNCHANGED <<rowVars, resv, recVars, netVars, envVars>>

\* The process dies; its job stays running until it is rescued.
Crash ==
  /\ pc # "idle" /\ faults < MaxFaults
  /\ Fault
  /\ pc' = "idle" /\ plan' = "none"
  /\ UNCHANGED <<rowVars, resv, job, recVars, netVars, envVars>>

WorkerStep ==
  \/ ClaimSend \/ Reserve \/ CheckSuppression \/ Deliver \/ MarkSent \/ Confirm
  \/ WorkerMarkFailed \/ Release \/ ReleaseClaim \/ DeferTerminalFailure
  \/ ResolveReservation \/ SettleReservation
-----------------------------------------------------------------------------
(* The terminal reconciler, a periodic maintenance job.                    *)

\* A sweep that overlooks the rows a dead worker left in 'sending'.
TerminalCandidateAcceptedOnly ==
  /\ row.status = "accepted"
  /\ job.state \in Final \cup {"missing"}
  /\ row.evidence \/ job.state = "missing" \/ job.grace

\* Rows whose job can never run again: at once with evidence or without a job
\* row, otherwise only after the evidence grace.
TerminalCandidate ==
  /\ row.status \in PreSend
  /\ job.state \in Final \cup {"missing"}
  /\ row.evidence \/ job.state = "missing" \/ job.grace

\* The provenance a sweep declares: a preserved reason wins, then a preserved
\* provider source, then the state of the job.
SweepReason ==
  IF row.reason # "none" THEN row.reason
  ELSE IF row.source = "provider" THEN "provider_rejected"
  ELSE IF job.state = "cancelled" THEN "cancelled"
  ELSE "local_retries_exhausted"

ReconcileSelect ==
  /\ rpc = "idle" /\ TerminalCandidate
  /\ rpc' = "mark"
  /\ rplan' = [source |-> IF SweepReason = "provider_rejected" THEN "provider" ELSE "local",
               reason |-> SweepReason]
  /\ UNCHANGED <<rowVars, resv, job, workVars, netVars, envVars, faultVars>>

ReconcileMarkFailed ==
  /\ rpc = "mark"
  /\ MarkFailed(rplan.source, rplan.reason)
  /\ rpc' = "resolve" /\ rplan' = NoPlan
  /\ UNCHANGED <<resv, job, workVars, netVars, envVars, faultVars>>

\* A sweep that takes a released reservation for settled.
RampCandidateReservedOnly == resv = "reserved" /\ row.status \in Feedback

\* resolveTerminalRampReservations: reservations their message's outcome left
\* behind, including one released for a failure that was corrected later.
RampCandidate ==
  \/ resv = "reserved" /\ row.status \in Feedback
  \/ resv = "released" /\ row.status \in SentLike

ReconcileSelectRamp ==
  /\ rpc = "idle" /\ RampCandidate
  /\ rpc' = "resolve"
  /\ UNCHANGED <<rowVars, resv, job, workVars, rplan, netVars, envVars, faultVars>>

ReconcileResolve ==
  /\ rpc = "resolve"
  /\ rpc' = CASE row.status \in SentLike -> "confirm"
              [] row.status = "failed"   -> "release"
              [] OTHER                   -> "idle"
  /\ UNCHANGED <<rowVars, resv, job, workVars, rplan, netVars, envVars, faultVars>>

ReconcileSettle ==
  /\ rpc \in {"confirm", "release"}
  /\ resv' = IF rpc = "confirm" THEN ConfirmResv(resv) ELSE ReleaseResv(resv)
  /\ rpc' = "idle"
  /\ UNCHANGED <<rowVars, job, workVars, rplan, netVars, envVars, faultVars>>

\* A store error ends the pass, a crash the process: the next pass starts over.
ReconcileAborts ==
  /\ rpc # "idle" /\ faults < MaxFaults
  /\ faults' = faults + 1 /\ UNCHANGED lost
  /\ rpc' = "idle" /\ rplan' = NoPlan
  /\ UNCHANGED <<rowVars, resv, job, workVars, netVars, envVars>>

ReconcileStep == \/ ReconcileSelect \/ ReconcileMarkFailed \/ ReconcileSelectRamp
                 \/ ReconcileResolve \/ ReconcileSettle
-----------------------------------------------------------------------------
(* The SES feedback consumer.  SNS delivers at least once and in any order, *)
(* so a notification about a copy may be processed at any time after the    *)
(* copy was taken, again, or never.                                         *)

\* CorrelateBySESMessageID, then CorrelateByE2AMessageID when SES echoes it.
Correlated(c) == row.status # "gone" /\ (row.provId = c \/ HeaderEcho)

\* A Send, Delivery, DeliveryDelay, Bounce or Complaint notification: evidence,
\* the finalization it may call for, the recipient outcome and a suppression
\* (a complaint always, a bounce when it is permanent), in one transaction.
ProcessAcceptance(c, r, outcome) ==
  LET seen == RecordProviderAcceptEvidence(row, c)
      pending == ProviderAcceptancePending(seen)
      settled == IF pending THEN ResolveOutboundProviderAccepted(seen) ELSE seen
  IN /\ Correlated(c) /\ (c \in refused => outcome = "sent")
     /\ row' = IF outcome = "sent" THEN settled ELSE RecordDeliveryOutcome(settled, {r}, outcome)
     /\ IF pending THEN FinalizeSent ELSE UNCHANGED <<metered, sentEvt, failEvt>>
     /\ suppressed' \in CASE outcome = "complained" -> {TRUE}
                          [] outcome = "bounced"    -> {suppressed, TRUE}
                          [] OTHER                  -> {suppressed}
     /\ UNCHANGED <<resv, job, workVars, recVars, netVars, trashed, horizon, faultVars>>

\* A Reject notification names every recipient and is message-level terminal.
ProcessReject(c) ==
  /\ c \in refused /\ Correlated(c)
  /\ row' = RecordProviderReject(RecordDeliveryOutcome(row, Recipients, "failed"))
  /\ failEvt' = TRUE /\ UNCHANGED <<metered, sentEvt>>
  /\ UNCHANGED <<resv, job, workVars, recVars, netVars, envVars, faultVars>>

Process ==
  \E c \in 1..copies :
     \/ \E r \in Recipients, outcome \in SentLike : ProcessAcceptance(c, r, outcome)
     \/ ProcessReject(c)
-----------------------------------------------------------------------------
(* The API, the clock and the trash.                                       *)

SoftDelete ==
  /\ ~trashed /\ row.status # "gone"
  /\ trashed' = TRUE
  /\ UNCHANGED <<rowVars, resv, job, workVars, recVars, netVars, horizon, suppressed, faultVars>>

Restore ==
  /\ trashed /\ row.status # "gone"
  /\ trashed' = FALSE
  /\ UNCHANGED <<rowVars, resv, job, workVars, recVars, netVars, horizon, suppressed, faultVars>>

\* PurgeMessage: refused while a provider call holds a fresh claim; deleting the
\* row deletes its reservation (ON DELETE CASCADE).
PurgeMessage ==
  /\ trashed /\ row.status # "gone"
  /\ ~(row.status = "sending" /\ row.claim = "fresh")
  /\ row' = [NewRow EXCEPT !.status = "gone"]
  /\ resv' = "none"
  /\ UNCHANGED <<metered, sentEvt, failEvt, job, workVars, recVars, netVars, envVars, faultVars>>

\* OutboundSendClaimStaleWindow outlasts any single attempt.
ClaimGoesStale ==
  /\ row.claim = "fresh" /\ pc = "idle"
  /\ row' = [row EXCEPT !.claim = "stale"]
  /\ UNCHANGED <<metered, sentEvt, failEvt, resv, job, workVars, recVars, netVars, envVars, faultVars>>

HorizonPasses ==
  /\ ~horizon
  /\ horizon' = TRUE
  /\ UNCHANGED <<rowVars, resv, job, workVars, recVars, netVars, trashed, suppressed, faultVars>>

\* A recipient is added to, or taken off, an effective suppression list.
ChangeSuppression ==
  /\ suppressed' = ~suppressed
  /\ UNCHANGED <<rowVars, resv, job, workVars, recVars, netVars, trashed, horizon, faultVars>>

Next ==
  \/ StartJob \/ RescueStuckJob \/ PruneJob \/ GraceElapses
  \/ WorkerStep \/ DeliverAmbiguously \/ PreserveTerminalFailure \/ StoreError \/ Crash
  \/ ReconcileStep \/ ReconcileAborts
  \/ Process
  \/ SoftDelete \/ Restore \/ PurgeMessage
  \/ ClaimGoesStale \/ HorizonPasses \/ ChangeSuppression

\* River fetches, rescues and periodically reconciles; time passes; a worker or
\* a reconciler that lives goes on.  Nobody owes us a notification or a delete.
Fairness ==
  /\ WF_vars(StartJob) /\ WF_vars(RescueStuckJob) /\ WF_vars(GraceElapses)
  /\ WF_vars(WorkerStep) /\ WF_vars(ReconcileStep) /\ WF_vars(HorizonPasses)

Spec == Init /\ [][Next]_vars
FairSpec == Spec /\ Fairness
-----------------------------------------------------------------------------
(* Properties.                                                             *)

RowType ==
  [status : Status \cup {"gone"}, source : Sources \cup {"none"}, reason : Reasons \cup {"none"},
   attempt : BOOLEAN, claim : {"none", "fresh", "stale"}, evidence : BOOLEAN, provId : Nat,
   rcpt : [Recipients -> Feedback \cup {"none"}]]

\* Every variable keeps its type: in particular the worker has a failure plan
\* exactly while it is recording one, and a running attempt never exceeds the
\* budget River gives the send job (EnqueueSendTx).
TypeOK ==
  /\ row \in RowType
  /\ trashed \in BOOLEAN /\ horizon \in BOOLEAN /\ suppressed \in BOOLEAN
  /\ metered \in Nat /\ sentEvt \in BOOLEAN /\ failEvt \in BOOLEAN
  /\ resv \in {"none", "reserved", "confirmed", "released"}
  /\ job \in [state : {"available", "running", "missing"} \cup Final,
              attempt : 0..MaxSendAttempts, grace : BOOLEAN]
  /\ pc \in {"idle"} \cup WorkerSteps
  /\ plan \in Plans \cup {"none"} /\ (plan # "none" <=> pc \in {"markFailed", "release"})
  /\ rpc \in {"idle", "mark", "resolve", "confirm", "release"}
  /\ rplan \in [source : Sources \cup {"none"}, reason : Reasons \cup {"none"}]
  /\ copies \in Nat /\ refused \in SUBSET (1..copies)
  /\ faults \in 0..MaxFaults /\ lost \in 0..faults

\* Provider-accept evidence never rests on a row that a sender could still
\* submit or fail, nor under a failure e2a inferred itself: whoever races with
\* the consumer, the notification settles the row in its own transaction
\* (the guard MarkOutboundFailedTx's comment promises, for every writer).
EvidenceSettles ==
  row.evidence => /\ row.status \notin PreSend
                  /\ row.status = "failed" => row.source = "provider"

\* finalizeSentTx runs exactly once per message that was ever settled as sent:
\* the usage meter counts it once, email.sent is published with it, and no row
\* shows sent, deferred or delivered without both.
MeteredOnce ==
  /\ metered = IF sentEvt THEN 1 ELSE 0
  /\ row.status \in {"sent", "deferred", "delivered"} => sentEvt

\* At-least-once, with the one duplicate window worker.go's package comment
\* names: beyond the first, every copy SES took follows a submission whose
\* acceptance was never recorded (crash, failed MarkSent or lost answer).
DuplicatesOnlyFromLostOutcomes == copies <= 1 + lost

\* A preserved terminal failure (PreserveOutboundTerminalFailure) is final for
\* the worker: no later attempt, restore or retry gets as far as the provider.
NoSubmitAfterFallback ==
  pc \in {"reserve", "check", "deliver", "markSent"} => ~CompleteTerminalFallback(row)

\* A row leaves the pre-send states once: no late worker, reconciler or
\* notification puts it back; a provider-confirmed failure is never revived,
\* except by a bounce or a complaint; nothing outranks a recorded complaint.
OutcomesAreKept ==
  [][/\ row.status \in Feedback => row'.status \in Feedback \cup {"gone"}
     /\ row.status = "failed" /\ row.source = "provider" =>
          \/ row'.status = "failed" /\ row'.source = "provider"
          \/ row'.status \in {"bounced", "complained", "gone"}
     /\ row.status \in SentLike /\ row'.status # "gone" => rank[row'.status] >= rank[row.status]
    ]_vars

\* Out-of-order and duplicate notifications never regress a recipient.
RecipientsMonotonic ==
  [][row'.status # "gone" =>
       \A r \in Recipients : rank[row'.rcpt[r]] >= rank[row.rcpt[r]]]_vars

\* The async-send contract: once a message is settled, its owner has been told.
\* "Every accepted send reaches exactly one terminal push signal", "including
\* ones that are never sent" (docs/design/async-send-contract.md).
EverySettleIsSignalled == row.status \in Feedback => sentEvt \/ failEvt

\* "Subscribers can never receive two conflicting terminal events for one
\* message" (internal/delivery/consumer_crosspath_test.go).
SignalsDoNotConflict == ~(sentEvt /\ failEvt)

\* An accepted message does not rest there: it is settled as sent or failed, or
\* its owner deletes it, whatever finite number of faults happens.
EveryAcceptSettles == row.status \in PreSend ~> row.status \notin PreSend

\* The ramp reservation catches up with the outcome: a message SES took ends up
\* confirmed even when its reservation was released first, and a failed one
\* does not keep its capacity.
ReservationsSettle ==
  /\ (row.status \in SentLike /\ resv \in {"reserved", "released"})
        ~> (row.status \notin SentLike \/ resv \in {"none", "confirmed"})
  /\ (row.status = "failed" /\ resv = "reserved") ~> resv # "reserved"
=============================================================================
