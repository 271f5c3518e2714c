--------------------------- MODULE DeliveryStatus ---------------------------
(***************************************************************************)
(* The delivery-status vocabulary of an outbound message and the pure      *)
(* functions of internal/delivery/status.go that decide how an observed    *)
(* status changes a stored one.  "none" stands for an absent recipient row *)
(* (and for Go's empty Status), "gone" for a deleted message row; the      *)
(* deprecated alias "queued" is never written and is left out.             *)
(***************************************************************************)
EXTENDS Naturals

\* The states a message passes through before the provider has answered.
PreSend == {"accepted", "sending"}

\* What provider feedback can report for one recipient.
Feedback == {"sent", "deferred", "delivered", "failed", "bounced", "complained"}

Status == PreSend \cup Feedback

\* rank: the monotonic precedence of decision 9.  An unknown status has Go's
\* zero value, the lowest rank.
rank == [s \in Status \cup {"none", "gone"} |->
           CASE s = "sending"    -> 1
             [] s = "sent"       -> 2
             [] s = "deferred"   -> 3
             [] s = "delivered"  -> 4
             [] s = "failed"     -> 5
             [] s = "bounced"    -> 6
             [] s = "complained" -> 7
             [] OTHER            -> 0]

\* A plausible slip: the latest notification wins.
MergeLatest(current, incoming) == incoming

\* Merge: the higher-ranked of the stored and the incoming status wins.
Merge(current, incoming) ==
  IF rank[incoming] > rank[current] THEN incoming ELSE current

\* ProvesProviderAcceptance: outcomes that only follow an accepted submission.
ProvesProviderAcceptance(s) == s \in Feedback \ {"failed"}

\* Correctable: only a failure e2a inferred itself ("local", or the legacy
\* unknown provenance "none") may be corrected by provider evidence.
Correctable(source) == source # "provider"

\* The rollup of a set of recipient statuses: the worst one by precedence.
Rollup(S) == CHOOSE s \in S : \A t \in S : rank[t] <= rank[s]

\* ResolveMessageRollup: the message status after re-rolling up its recipients
\* while the row holds `current` with failure provenance `source`.
ResolveMessageRollup(current, source, rollup) ==
  IF \/ current # "failed"
     \/ rank[rollup] > rank["failed"]
     \/ Correctable(source) /\ ProvesProviderAcceptance(rollup)
  THEN rollup
  ELSE "failed"
=============================================================================
