----------------------------- MODULE ReviewHold -----------------------------
(***************************************************************************)
(* A message held for review (internal/identity, internal/agent/hitl_api,  *)
(* internal/hitlworker): the row, the decision of a reviewer, and the      *)
(* expiry sweep that resolves a hold nobody decided.  The sweep lists and  *)
(* loads the draft first and competes for the row afterwards.              *)
(***************************************************************************)
EXTENDS Naturals

CONSTANTS
  Fields,       \* the parts of a draft a reviewer may change
  OnExpiry      \* holds.on_expiry of the inbox

ASSUME OnExpiryAssumption == OnExpiry \in {"approve", "reject"}

VARIABLES
  hold,      \* the held row: status, who resolved it, and the text accepted for sending
  sweep      \* hitlworker on this row: "idle", or "loaded" between its read and its write

holdVars == <<hold, sweep>>

\* The draft as the agent wrote it.
Draft == [f \in Fields |-> "draft"]

Resolved == {"sent", "review_approved", "review_rejected", "review_expired_approved", "review_expired_rejected"}
Pending == hold.status = "pending_review"

\* Mutant: the accept transaction trusts the status read before composing.
AcceptUnchecked(status, by, text) == hold' = [status |-> status, by |-> by, text |-> text]

\* ApproveAndAccept: the UPDATE is guarded by the status (and by the inbox not
\* being in the trash, which callers see as a refusal), and stores the composed
\* text in the same statement.  A message to the inbox itself is resolved the
\* same way under a lock on its row (ApproveAndDeliverLocal).
ApproveAndAccept(status, by, text) ==
  /\ Pending
  /\ hold' = [status |-> status, by |-> by, text |-> text]

\* RejectPending, ExpireReject and the inbound transitions: the same guard.
Transition(status, by) ==
  /\ Pending
  /\ hold' = [status |-> status, by |-> by, text |-> Draft]

\* PendingApprovalEdit.Apply: a field that is present replaces the draft's.
Apply(edits) == [f \in Fields |-> IF f \in DOMAIN edits THEN edits[f] ELSE "draft"]
-----------------------------------------------------------------------------
(* hitlworker.Worker: ListExpiredPending or ListExpiredReviews picks the    *)
(* row, LoadOutboundDraft reads it again, and only then it is resolved.     *)

LoadExpired ==
  /\ sweep = "idle" /\ Pending
  /\ sweep' = "loaded"
  /\ UNCHANGED hold

\* Auto-approval; a draft that cannot be sent any more is rejected instead.
ResolveExpired(inbound) ==
  /\ sweep = "loaded"
  /\ \/ /\ OnExpiry = "approve"
        /\ IF inbound THEN Transition("review_expired_approved", "expiry")
                      ELSE ApproveAndAccept("review_expired_approved", "expiry", Draft)
     \/ /\ OnExpiry = "reject" \/ ~inbound
        /\ Transition("review_expired_rejected", "expiry")
  /\ sweep' = "idle"

\* ErrNotPendingApproval, or a transient error: the row is left alone.
SweepGivesUp ==
  /\ sweep = "loaded"
  /\ sweep' = "idle"
  /\ UNCHANGED hold

\* Another reviewer, the CLI, an MCP client or a link of the notification.
DecideElsewhere(inbound) ==
  /\ \/ Transition("review_rejected", "elsewhere")
     \/ IF inbound THEN Transition("review_approved", "elsewhere")
                   ELSE ApproveAndAccept("sent", "elsewhere", Draft)
  /\ UNCHANGED sweep

HoldInit == hold = [status |-> "pending_review", by |-> "nobody", text |-> Draft] /\ sweep = "idle"
HoldStep(inbound) == LoadExpired \/ ResolveExpired(inbound) \/ SweepGivesUp \/ DecideElsewhere(inbound)
=============================================================================
