------------------------- MODULE OutboundSendProofs -------------------------
(***************************************************************************)
(* Theorems about module OutboundSend, for every envelope, attempt budget  *)
(* and number of faults.                                                   *)
(***************************************************************************)
EXTENDS OutboundSend, TLAPS

-----------------------------------------------------------------------------
(* The status operators.                                                   *)

\* The precedence of decision 9, as numbers.
LEMMA RankValues ==
  /\ rank["none"] = 0 /\ rank["gone"] = 0 /\ rank["accepted"] = 0 /\ rank["sending"] = 1
  /\ rank["sent"] = 2 /\ rank["deferred"] = 3 /\ rank["delivered"] = 4 /\ rank["failed"] = 5
  /\ rank["bounced"] = 6 /\ rank["complained"] = 7
BY DEF rank, Status, PreSend, Feedback

\* The rollup of recipient statuses is one of them, and none outranks it.
LEMMA RollupIsWorst ==
  ASSUME NEW S \in SUBSET Feedback, S # {}
  PROVE  Rollup(S) \in S /\ \A t \in S : rank[t] <= rank[Rollup(S)]
<1>1. \E s \in S : \A t \in S : rank[t] <= rank[s]
  <2>1. CASE "complained" \in S BY <2>1, RankValues DEF Feedback
  <2>2. CASE "complained" \notin S /\ "bounced" \in S BY <2>2, RankValues DEF Feedback
  <2>3. CASE S \cap {"complained", "bounced"} = {} /\ "failed" \in S
    BY <2>3, RankValues DEF Feedback
  <2>4. CASE S \cap {"complained", "bounced", "failed"} = {} /\ "delivered" \in S
    BY <2>4, RankValues DEF Feedback
  <2>5. CASE S \cap {"complained", "bounced", "failed", "delivered"} = {} /\ "deferred" \in S
    BY <2>5, RankValues DEF Feedback
  <2>6. CASE S = {"sent"} BY <2>6, RankValues
  <2> QED BY <2>1, <2>2, <2>3, <2>4, <2>5, <2>6 DEF Feedback
<1> QED BY <1>1 DEF Rollup

\* Merge (monotonic precedence) never lowers a recipient's rank.
LEMMA MergeGrows ==
  ASSUME NEW a \in Feedback \cup {"none"}, NEW b \in Feedback
  PROVE  /\ Merge(a, b) \in Feedback
         /\ rank[Merge(a, b)] >= rank[a] /\ rank[Merge(a, b)] >= rank[b]
BY RankValues DEF Merge, Feedback
-----------------------------------------------------------------------------
(* The row operators.                                                      *)

\* Every store write keeps the row's type.
LEMMA RowWritesTyped ==
  ASSUME NEW w \in RowType, NEW source \in Sources, NEW reason \in Reasons, NEW n \in Nat
  PROVE  /\ CancelTrashed(w) \in RowType /\ Claimed(w) \in RowType
         /\ Unclaimed(w) \in RowType /\ DeferOutboundTerminalFailure(w) \in RowType
         /\ PreserveOutboundTerminalFailure(w, source, reason) \in RowType
         /\ MarkOutboundSent(w, n) \in RowType
         /\ ResolveOutboundProviderAccepted(w) \in RowType
         /\ MarkOutboundFailed(w, source, reason) \in RowType
         /\ RecordProviderAcceptEvidence(w, n) \in RowType
         /\ RecordProviderReject(w) \in RowType
<1>1. CancelTrashed(w) \in RowType
  BY DEF CancelTrashed, RowType, Status, Feedback, Sources, Reasons
<1>2. Claimed(w) \in RowType
  BY DEF Claimed, RowType, Status, PreSend
<1>3. Unclaimed(w) \in RowType
  BY DEF Unclaimed, RowType, Status, PreSend
<1>4. DeferOutboundTerminalFailure(w) \in RowType
  BY DEF DeferOutboundTerminalFailure, RowType
<1>5. PreserveOutboundTerminalFailure(w, source, reason) \in RowType
  BY DEF PreserveOutboundTerminalFailure, RowType, Status, PreSend
<1>6. NoFailure(w) \in RowType
  BY DEF NoFailure, RowType
<1>7. ASSUME NEW v \in RowType PROVE AddSentRecipientRows(v) \in RowType
  BY <1>7 DEF AddSentRecipientRows, RowType, Feedback
<1>8. MarkOutboundSent(w, n) \in RowType
  <2>1. [NoFailure(w) EXCEPT !.status = "sent", !.claim = "none", !.provId = n] \in RowType
    BY <1>6 DEF RowType, Status, Feedback
  <2> QED BY <2>1, <1>7 DEF MarkOutboundSent
<1>9. ResolveOutboundProviderAccepted(w) \in RowType
  <2>1. [NoFailure(w) EXCEPT !.status = "sent", !.claim = "none"] \in RowType
    BY <1>6 DEF RowType, Status, Feedback
  <2> QED BY <2>1, <1>7 DEF ResolveOutboundProviderAccepted
<1>10. MarkOutboundFailed(w, source, reason) \in RowType
  BY DEF MarkOutboundFailed, RowType, Status, Feedback
<1>11. RecordProviderAcceptEvidence(w, n) \in RowType
  BY DEF RecordProviderAcceptEvidence, RowType
<1>12. RecordProviderReject(w) \in RowType
  BY DEF RecordProviderReject, RowType, Status, Feedback, Sources, Reasons
<1> QED BY <1>1, <1>2, <1>3, <1>4, <1>5, <1>8, <1>9, <1>10, <1>11, <1>12

\* What RecordDeliveryOutcomeTx makes of row w for the outcome o of recipients R:
\* recipients only climb, and the row v ends in a settled status that one of
\* them carries and none outranks, or stays failed.
Recorded(w, R, o, v) ==
  /\ v \in RowType /\ v.status \in Feedback
  /\ v.evidence = w.evidence /\ (v.attempt => w.attempt)
  /\ \A r \in Recipients : rank[v.rcpt[r]] >= rank[w.rcpt[r]]
  /\ \A r \in R : rank[v.rcpt[r]] >= rank[o]
  /\ \A r \in Recipients : v.rcpt[r] \in {w.rcpt[r], o}
  /\ \E r \in Recipients : v.rcpt[r] = v.status \/ (w.status = "failed" /\ v.status = "failed")
  /\ w.status # "failed" => \A r \in Recipients : rank[v.rcpt[r]] <= rank[v.status]
  /\ w.status = "failed" /\ v.status # "failed" =>
        v.source = "none" /\ (rank[v.status] > rank["failed"] \/ w.source # "provider")
  /\ w.status = "failed" /\ v.status = "failed" => v.source = w.source
  /\ w.status # "failed" /\ v.status = "failed" /\ w.source = "none" => v.source = "provider"
  /\ w.status # "failed" /\ v.status # "failed" => v.source = w.source

\* RecordDeliveryOutcome does what Recorded says.
LEMMA OutcomeRecorded ==
  ASSUME NEW w \in RowType, NEW R \in SUBSET Recipients, R # {}, NEW o \in Feedback,
         NEW v, v = RecordDeliveryOutcome(w, R, o)
  PROVE  Recorded(w, R, o, v)
<1> DEFINE rcpt == [r \in Recipients |-> IF r \in R THEN Merge(w.rcpt[r], o) ELSE w.rcpt[r]]
           S == {rcpt[r] : r \in {x \in Recipients : rcpt[x] # "none"}}
           next == ResolveMessageRollup(w.status, w.source, Rollup(S))
           u == [w EXCEPT !.rcpt = rcpt, !.status = next]
<1>1. rcpt \in [Recipients -> Feedback \cup {"none"}]
  BY MergeGrows DEF RowType
<1>2. \A r \in R : rcpt[r] \in Feedback /\ rank[rcpt[r]] >= rank[o]
  BY MergeGrows DEF RowType
<1>3. \A r \in Recipients : rank[rcpt[r]] >= rank[w.rcpt[r]]
  BY MergeGrows, RankValues DEF RowType, Feedback
<1>3a. \A r \in Recipients : rcpt[r] \in {w.rcpt[r], o}
  BY DEF Merge
<1>4. S \in SUBSET Feedback /\ S # {}
  BY <1>1, <1>2 DEF Feedback
<1>5. Rollup(S) \in S /\ \A t \in S : rank[t] <= rank[Rollup(S)]
  BY <1>4, RollupIsWorst
<1>6. PICK x \in Recipients : rcpt[x] = Rollup(S)
  BY <1>5
<1>7. \A r \in Recipients : rank[rcpt[r]] <= rank[Rollup(S)]
  <2> TAKE r \in Recipients
  <2>0. Rollup(S) \in Feedback BY <1>4, <1>5
  <2>1. CASE rcpt[r] = "none"
    <3> HIDE DEF S, rcpt
    <3>1. \A t \in Feedback : rank["none"] <= rank[t] BY RankValues DEF Feedback
    <3> QED BY <3>1, <2>0, <2>1
  <2>2. CASE rcpt[r] # "none" BY <2>2, <1>5
  <2> QED BY <2>1, <2>2
<1>8. /\ next \in Feedback
      /\ w.status # "failed" => next = Rollup(S)
      /\ next \in {"failed", Rollup(S)}
      /\ w.status = "failed" /\ next # "failed" =>
            rank[next] > rank["failed"] \/ w.source # "provider"
  BY <1>4, <1>5, RankValues DEF ResolveMessageRollup, Feedback, Correctable, ProvesProviderAcceptance
<1> HIDE DEF next, S, rcpt
<1>9. u \in RowType /\ u.status = next /\ u.rcpt = rcpt /\ u.evidence = w.evidence
       /\ u.attempt = w.attempt /\ u.source = w.source
  BY <1>1, <1>8 DEF RowType, Status
<1>10. v = CASE next = w.status -> u
             [] next = "failed" /\ w.status # "failed" ->
                  [u EXCEPT !.source = IF w.source = "none" THEN "provider" ELSE w.source]
             [] w.status = "failed" /\ next # "failed" -> NoFailure(u)
             [] OTHER -> u
  BY DEF RecordDeliveryOutcome, next, S, rcpt
<1> HIDE DEF u
<1>11. v \in RowType /\ v.status = next /\ v.rcpt = rcpt /\ v.evidence = w.evidence
        /\ (v.attempt => w.attempt)
  <2>1. CASE next = w.status BY <2>1, <1>9, <1>10
  <2>2. CASE next = "failed" /\ w.status # "failed"
    <3>1. v = [u EXCEPT !.source = IF w.source = "none" THEN "provider" ELSE w.source]
      BY <2>2, <1>10
    <3> QED BY <3>1, <1>9 DEF RowType, Sources
  <2>3. CASE w.status = "failed" /\ next # "failed"
    <3>1. v = NoFailure(u) BY <2>3, <1>10
    <3> QED BY <3>1, <1>9 DEF RowType, NoFailure
  <2>4. CASE w.status # "failed" /\ next # "failed" /\ next # w.status BY <2>4, <1>9, <1>10
  <2> QED BY <2>1, <2>2, <2>3, <2>4
<1>12. /\ w.status = "failed" /\ next # "failed" => v.source = "none"
       /\ w.status = "failed" /\ next = "failed" => v.source = w.source
       /\ w.status # "failed" /\ next = "failed" /\ w.source = "none" => v.source = "provider"
       /\ w.status # "failed" /\ next # "failed" => v.source = w.source
  BY <1>8, <1>9, <1>10 DEF NoFailure, RowType
<1> QED BY <1>2, <1>3, <1>3a, <1>6, <1>7, <1>8, <1>11, <1>12 DEF Recorded
-----------------------------------------------------------------------------
(* Type correctness.                                                       *)

JobType == [state : {"available", "running", "missing"} \cup Final,
            attempt : 0..MaxSendAttempts, grace : BOOLEAN]

\* The worker runs only inside a running job, and a job that may still run has
\* an attempt left.
WorkerInv ==
  /\ job \in JobType
  /\ pc \in {"idle"} \cup WorkerSteps
  /\ plan \in Plans \cup {"none"} /\ (plan # "none" <=> pc \in {"markFailed", "release"})
  /\ pc # "idle" => job.state = "running"
  /\ job.state = "running" => job.attempt >= 1
  /\ job.state = "available" => job.attempt < MaxSendAttempts

\* TypeOK without the row and the worker.
EventType == metered \in Nat /\ sentEvt \in BOOLEAN /\ failEvt \in BOOLEAN
EnvType == trashed \in BOOLEAN /\ horizon \in BOOLEAN /\ suppressed \in BOOLEAN
ResvType == resv \in {"none", "reserved", "confirmed", "released"}
RecType ==
  /\ rpc \in {"idle", "mark", "resolve", "confirm", "release"}
  /\ rplan \in [source : Sources \cup {"none"}, reason : Reasons \cup {"none"}]
  /\ rpc = "mark" => rplan.source \in Sources /\ rplan.reason \in Reasons
NetType == copies \in Nat /\ refused \in SUBSET (1..copies)
FaultType == faults \in 0..MaxFaults /\ lost \in 0..faults

TypeInv ==
  /\ row \in RowType
  /\ WorkerInv
  /\ EventType /\ EnvType /\ ResvType /\ RecType /\ NetType /\ FaultType

\* The failure plans.
LEMMA PlansTyped ==
  /\ Plans = {"rampInvalid", "rampError", "rampTimeout", "suppression", "rejection", "outageTimeout"}
  /\ \A p \in Plans : /\ FailurePlans[p].source \in Sources /\ FailurePlans[p].reason \in Reasons
                      /\ FailurePlans[p].end \in {"cancel", "error"}
<1>1. Plans = {"rampInvalid", "rampError", "rampTimeout", "suppression", "rejection", "outageTimeout"}
  BY DEF Plans, FailurePlans
<1>2. \A p \in Plans : /\ FailurePlans[p].source \in Sources /\ FailurePlans[p].reason \in Reasons
                       /\ FailurePlans[p].end \in {"cancel", "error"}
  BY <1>1 DEF FailurePlans, Sources, Reasons
<1> QED BY <1>1, <1>2

\* How Work goes on keeps the worker's invariant: it returns to River ...
LEMMA ReturnKeeps ==
  ASSUME WorkerInv, job.state = "running", NEW end, Return(end)
  PROVE  WorkerInv'
<1> DEFINE st == CASE end = "complete" -> "completed"
                   [] end = "cancel"   -> "cancelled"
                   [] end = "snooze"   -> "available"
                   [] OTHER -> IF job.attempt >= MaxSendAttempts THEN "discarded" ELSE "available"
           at == IF end = "snooze" THEN job.attempt - 1 ELSE job.attempt
<1>1. job' = [job EXCEPT !.state = st, !.attempt = at]
  BY DEF Return, JobAfter, WorkerInv, JobType
<1>2. st \in Final \cup {"available"} /\ at \in 0..MaxSendAttempts
       /\ (st = "available" => at < MaxSendAttempts)
  BY AttemptsAssumption DEF WorkerInv, JobType, Final
<1> HIDE DEF st, at
<1>3. job' \in JobType /\ job'.state = st /\ job'.attempt = at
  BY <1>1, <1>2 DEF WorkerInv, JobType, Final
<1> QED BY <1>2, <1>3 DEF WorkerInv, Return, Final

\* ... goes on to another call ...
LEMMA GotoKeeps ==
  ASSUME WorkerInv, plan = "none", pc # "idle",
         NEW step \in WorkerSteps \ {"markFailed", "release"}, Goto(step)
  PROVE  WorkerInv'
BY DEF WorkerInv, Goto

\* ... or starts to record a failure.
LEMMA FailKeeps ==
  ASSUME WorkerInv, pc # "idle", NEW kind \in Plans, Fail(kind)
  PROVE  WorkerInv'
BY PlansTyped DEF WorkerInv, Fail, WorkerSteps

\* The end of a failure plan.
LEMMA AfterMarkFailedKeeps ==
  ASSUME WorkerInv, pc = "markFailed", AfterMarkFailed
  PROVE  WorkerInv'
<1>1. plan \in Plans /\ job.state = "running" BY PlansTyped DEF WorkerInv
<1>2. CASE Goto("release") BY <1>1, <1>2 DEF WorkerInv, Goto, WorkerSteps
<1>3. CASE Return(FailurePlans[plan].end) BY <1>1, <1>3, ReturnKeeps
<1> QED BY <1>2, <1>3 DEF AfterMarkFailed

\* The strengthening implies the type invariant.
LEMMA TypeInvImplies == TypeInv => TypeOK
BY DEF TypeInv, WorkerInv, EventType, EnvType, ResvType, RecType, NetType, FaultType, TypeOK, JobType

\* The types hold at first.
LEMMA TypeInit == Init => TypeInv
<1> SUFFICES ASSUME Init PROVE TypeInv OBVIOUS
<1>1. row \in RowType BY DEF Init, NewRow, RowType, Status, PreSend
<1>2. WorkerInv BY AttemptsAssumption DEF Init, WorkerInv, JobType
<1>3. NetType /\ FaultType BY FaultsAssumption DEF Init, NetType, FaultType
<1>4. EventType /\ EnvType /\ ResvType BY DEF Init, EventType, EnvType, ResvType
<1>5. RecType BY DEF Init, RecType, NoPlan
<1> QED BY <1>1, <1>2, <1>3, <1>4, <1>5 DEF TypeInv

\* MarkFailed, by whoever calls it.
LEMMA MarkFailedTyped ==
  ASSUME row \in RowType, EventType, NEW source \in Sources, NEW reason \in Reasons,
         MarkFailed(source, reason)
  PROVE  row' \in RowType /\ EventType'
<1>1. row' \in RowType
  <2>1. \/ row' = ResolveOutboundProviderAccepted(row)
        \/ row' = MarkOutboundFailed(row, source, reason)
        \/ row' = row
    BY DEF MarkFailed, rowVars
  <2> QED BY <2>1, RowWritesTyped
<1>2. metered' \in {metered, metered + 1} BY DEF MarkFailed, FinalizeSent, rowVars
<1>3. sentEvt' \in {sentEvt, TRUE} /\ failEvt' \in {failEvt, TRUE}
  BY Zenon DEF MarkFailed, FinalizeSent, rowVars
<1>4. EventType'
  <2>1. metered' \in Nat BY <1>2 DEF EventType
  <2>2. sentEvt' \in BOOLEAN /\ failEvt' \in BOOLEAN BY <1>3, Zenon DEF EventType
  <2> QED BY <2>1, <2>2 DEF EventType
<1> QED BY <1>1, <1>4

\* One notification keeps the types.
LEMMA ProcessTyped ==
  ASSUME TypeInv, Process
  PROVE  TypeInv'
<1>1. PICK c \in 1..copies :
        \/ \E r \in Recipients, outcome \in SentLike : ProcessAcceptance(c, r, outcome)
        \/ ProcessReject(c)
  BY DEF Process
<1>2. c \in Nat BY DEF TypeInv, NetType
<1>3. CASE \E r \in Recipients, outcome \in SentLike : ProcessAcceptance(c, r, outcome)
  <2>1. PICK r \in Recipients, outcome \in SentLike : ProcessAcceptance(c, r, outcome) BY <1>3
  <2> DEFINE seen == RecordProviderAcceptEvidence(row, c)
             pending == ProviderAcceptancePending(seen)
             settled == IF pending THEN ResolveOutboundProviderAccepted(seen) ELSE seen
  <2>2. seen \in RowType BY <1>2, RowWritesTyped DEF TypeInv, Sources, Reasons
  <2>3. settled \in RowType BY <1>2, <2>2, RowWritesTyped DEF Sources, Reasons
  <2>4. outcome \in Feedback BY DEF SentLike
  <2>5. row' = IF outcome = "sent" THEN settled ELSE RecordDeliveryOutcome(settled, {r}, outcome)
    BY <2>1 DEF ProcessAcceptance
  <2>6. EventType'
    <3>1. metered' \in Nat BY <2>1 DEF ProcessAcceptance, FinalizeSent, TypeInv, EventType
    <3>2. sentEvt' \in BOOLEAN /\ failEvt' \in BOOLEAN
      BY <2>1, Zenon DEF ProcessAcceptance, FinalizeSent, TypeInv, EventType
    <3> QED BY <3>1, <3>2 DEF EventType
  <2>7. EnvType' BY <2>1 DEF ProcessAcceptance, TypeInv, EnvType
  <2> HIDE DEF settled
  <2>8. row' \in RowType
    <3>1. {r} \in SUBSET Recipients /\ {r} # {} OBVIOUS
    <3>2. RecordDeliveryOutcome(settled, {r}, outcome) \in RowType
      BY <3>1, <2>3, <2>4, OutcomeRecorded DEF Recorded
    <3> QED BY <3>2, <2>3, <2>5
  <2>9. UNCHANGED <<resv, job, workVars, recVars, netVars, faultVars>>
    BY <2>1 DEF ProcessAcceptance
  <2> QED BY <2>6, <2>7, <2>8, <2>9
          DEF TypeInv, WorkerInv, ResvType, RecType, NetType, FaultType,
              workVars, recVars, netVars, faultVars
<1>4. CASE ProcessReject(c)
  <2>1. RecordDeliveryOutcome(row, Recipients, "failed") \in RowType
    BY OutcomeRecorded, RecipientsAssumption DEF Recorded, TypeInv, Feedback
  <2>2. row' \in RowType
    BY <1>2, <1>4, <2>1, RowWritesTyped DEF ProcessReject, Sources, Reasons
  <2>3. EventType' BY <1>4 DEF ProcessReject, TypeInv, EventType
  <2>4. UNCHANGED <<resv, job, workVars, recVars, netVars, envVars, faultVars>>
    BY <1>4 DEF ProcessReject
  <2> QED BY <2>2, <2>3, <2>4
          DEF TypeInv, WorkerInv, EnvType, ResvType, RecType, NetType, FaultType,
              workVars, recVars, netVars, envVars, faultVars
<1> QED BY <1>1, <1>3, <1>4

\* Every step keeps the types: one case per action.
LEMMA TypeStep == TypeInv /\ [Next]_vars => TypeInv'
<1> SUFFICES ASSUME TypeInv, [Next]_vars PROVE TypeInv'
  OBVIOUS
<1> USE DEF TypeInv
<1>1. ASSUME UNCHANGED <<rowVars, resv, recVars, netVars, envVars, faultVars>>, WorkerInv'
      PROVE  TypeInv'
  BY <1>1 DEF EventType, EnvType, ResvType, RecType, NetType, FaultType,
              rowVars, recVars, netVars, envVars, faultVars
<1>2. ASSUME UNCHANGED <<metered, sentEvt, failEvt, resv, recVars, netVars, envVars, faultVars>>,
             row' \in RowType, WorkerInv'
      PROVE  TypeInv'
  BY <1>2 DEF EventType, EnvType, ResvType, RecType, NetType, FaultType,
              recVars, netVars, envVars, faultVars
<1>3. ASSUME UNCHANGED <<rowVars, recVars, netVars, envVars, faultVars>>, ResvType', WorkerInv'
      PROVE  TypeInv'
  BY <1>3 DEF EventType, EnvType, RecType, NetType, FaultType,
              rowVars, recVars, netVars, envVars, faultVars
<1>4. ASSUME UNCHANGED <<rowVars, resv, job, workVars, netVars, envVars, faultVars>>, RecType'
      PROVE  TypeInv'
  BY <1>4 DEF WorkerInv, EventType, EnvType, ResvType, NetType, FaultType,
              rowVars, workVars, netVars, envVars, faultVars
<1>5. CASE StartJob
  <2>1. job' \in JobType /\ job'.state = "running" /\ job'.attempt >= 1
    <3>1. job' = [job EXCEPT !.state = "running", !.attempt = job.attempt + 1]
      BY <1>5 DEF StartJob, WorkerInv, JobType
    <3>2. job.attempt \in 0..MaxSendAttempts /\ job.attempt < MaxSendAttempts /\ job \in JobType
      BY <1>5 DEF StartJob, WorkerInv, JobType
    <3>3. job.attempt + 1 \in 0..MaxSendAttempts /\ job.attempt + 1 >= 1
      BY <3>2, AttemptsAssumption
    <3> QED BY <3>1, <3>2, <3>3 DEF JobType
  <2>2. WorkerInv' BY <1>5, <2>1 DEF StartJob, WorkerInv, WorkerSteps
  <2> QED BY <1>5, <2>2, <1>1 DEF StartJob
<1>6. CASE RescueStuckJob
  <2>1. Return("error") BY <1>6 DEF RescueStuckJob, Return, workVars, WorkerInv
  <2>2. WorkerInv' BY <1>6, <2>1, ReturnKeeps DEF RescueStuckJob
  <2> QED BY <1>6, <2>2, <1>1 DEF RescueStuckJob
<1>7. CASE PruneJob
  <2>1. WorkerInv' BY <1>7 DEF PruneJob, WorkerInv, JobType, Final, workVars
  <2> QED BY <1>7, <2>1, <1>1 DEF PruneJob
<1>8. CASE GraceElapses
  <2>1. WorkerInv' BY <1>8 DEF GraceElapses, WorkerInv, JobType, Final, workVars
  <2> QED BY <1>8, <2>1, <1>1 DEF GraceElapses
<1>9. CASE ClaimSend
  <2>1. row' \in {row, CancelTrashed(row), Claimed(row)} BY <1>9 DEF ClaimSend
  <2>2. row' \in RowType BY <2>1, RowWritesTyped DEF Sources, Reasons
  <2>3. plan = "none" /\ pc # "idle" BY <1>9 DEF ClaimSend, WorkerInv
  <2>4. Goto("resolve") \/ Goto("settle") \/ Goto("reserve") BY <1>9 DEF ClaimSend
  <2>5. WorkerInv' BY <2>3, <2>4, GotoKeeps DEF WorkerSteps
  <2> QED BY <1>9, <2>2, <2>5, <1>2 DEF ClaimSend
<1>10. CASE Reserve
  <2>1. plan = "none" /\ pc # "idle" BY <1>10 DEF Reserve, WorkerInv
  <2>2. \/ Goto("check") \/ Goto("unclaimSnooze")
        \/ Fail("rampTimeout") \/ Fail("rampInvalid") \/ Fail("rampError")
    BY <1>10 DEF Reserve
  <2>3. WorkerInv' BY <2>1, <2>2, GotoKeeps, FailKeeps, PlansTyped DEF WorkerSteps
  <2>4. ResvType' BY <1>10 DEF Reserve, ResvType
  <2> QED BY <1>10, <2>3, <2>4, <1>3 DEF Reserve
<1>11. CASE CheckSuppression
  <2>1. plan = "none" /\ pc # "idle" BY <1>11 DEF CheckSuppression, WorkerInv
  <2>2. WorkerInv' BY <1>11, <2>1, GotoKeeps, FailKeeps, PlansTyped DEF CheckSuppression, WorkerSteps
  <2> QED BY <1>11, <2>2, <1>1 DEF CheckSuppression
<1>12. ASSUME Submit PROVE NetType'
  BY <1>12 DEF Submit, NetType
<1>13. ASSUME AfterOutage \/ AfterTemporaryFailure, pc = "deliver" PROVE WorkerInv'
  <2>1. plan = "none" /\ pc # "idle" BY <1>13 DEF WorkerInv
  <2>2. Fail("outageTimeout") \/ Goto("unclaimSnooze") \/ Goto("defer") \/ Goto("unclaimError")
    BY <1>13 DEF AfterOutage, AfterTemporaryFailure
  <2> QED BY <2>1, <2>2, GotoKeeps, FailKeeps, PlansTyped DEF WorkerSteps
<1>14. CASE Deliver
  <2>1. plan = "none" /\ pc # "idle" BY <1>14 DEF Deliver, WorkerInv
  <2>2. WorkerInv'
    BY <1>14, <1>13, <2>1, GotoKeeps, FailKeeps, PlansTyped DEF Deliver, WorkerSteps
  <2>3. NetType' BY <1>14, <1>12 DEF Deliver, NetType, netVars
  <2> QED BY <1>14, <2>2, <2>3
          DEF Deliver, EventType, EnvType, ResvType, RecType, FaultType, rowVars, recVars, envVars, faultVars
<1>15. CASE DeliverAmbiguously
  <2>1. WorkerInv' BY <1>15, <1>13 DEF DeliverAmbiguously
  <2>2. NetType' BY <1>15, <1>12 DEF DeliverAmbiguously
  <2>3. FaultType' BY <1>15, FaultsAssumption DEF DeliverAmbiguously, FaultType
  <2> QED BY <1>15, <2>1, <2>2, <2>3
          DEF DeliverAmbiguously, EventType, EnvType, ResvType, RecType, rowVars, recVars, envVars
<1>16. CASE MarkSent
  <2>1. plan = "none" /\ pc # "idle" /\ job.state = "running" BY <1>16 DEF MarkSent, WorkerInv
  <2>2. WorkerInv' BY <1>16, <2>1, GotoKeeps, ReturnKeeps DEF MarkSent, WorkerSteps
  <2>3. row' \in RowType
    <3>1. row' = row \/ row' = MarkOutboundSent(row, IF pc = "settle" THEN row.provId ELSE copies)
      BY <1>16 DEF MarkSent, rowVars
    <3>2. row.provId \in Nat /\ copies \in Nat BY DEF RowType, NetType
    <3>3. "local" \in Sources /\ "cancelled" \in Reasons BY DEF Sources, Reasons
    <3> QED BY <3>1, <3>2, <3>3, RowWritesTyped
  <2>4. EventType'
    <3>1. metered' \in Nat BY <1>16 DEF MarkSent, FinalizeSent, EventType, rowVars
    <3>2. sentEvt' \in BOOLEAN /\ failEvt' \in BOOLEAN
      BY <1>16, Zenon DEF MarkSent, FinalizeSent, EventType, rowVars
    <3> QED BY <3>1, <3>2 DEF EventType
  <2> QED BY <1>16, <2>2, <2>3, <2>4
          DEF MarkSent, EnvType, ResvType, RecType, NetType, FaultType, recVars, netVars, envVars, faultVars
<1>17. CASE Confirm
  <2>1. WorkerInv' BY <1>17, ReturnKeeps DEF Confirm, WorkerInv
  <2>2. ResvType' BY <1>17 DEF Confirm, ConfirmResv, ResvType
  <2> QED BY <1>17, <2>1, <2>2, <1>3 DEF Confirm
<1>18. CASE WorkerMarkFailed
  <2>1. WorkerInv' BY <1>18, AfterMarkFailedKeeps DEF WorkerMarkFailed
  <2>2. FailurePlans[plan].source \in Sources /\ FailurePlans[plan].reason \in Reasons
    BY <1>18, PlansTyped DEF WorkerMarkFailed, WorkerInv
  <2>3. row' \in RowType /\ EventType' BY <1>18, <2>2, MarkFailedTyped DEF WorkerMarkFailed
  <2> QED BY <1>18, <2>1, <2>3
          DEF WorkerMarkFailed, EnvType, ResvType, RecType, NetType, FaultType,
              recVars, netVars, envVars, faultVars
<1>19. CASE PreserveTerminalFailure
  <2>1. WorkerInv' BY <1>19, AfterMarkFailedKeeps DEF PreserveTerminalFailure
  <2>2. FailurePlans[plan].source \in Sources /\ FailurePlans[plan].reason \in Reasons
    BY <1>19, PlansTyped DEF PreserveTerminalFailure, WorkerInv
  <2>3. row' \in RowType BY <1>19, <2>2, RowWritesTyped DEF PreserveTerminalFailure
  <2>4. FaultType' BY <1>19, FaultsAssumption DEF PreserveTerminalFailure, Fault, FaultType
  <2> QED BY <1>19, <2>1, <2>3, <2>4
          DEF PreserveTerminalFailure, EventType, EnvType, ResvType, RecType, NetType,
              recVars, netVars, envVars
<1>20. CASE Release
  <2>1. WorkerInv' BY <1>20, ReturnKeeps DEF Release, WorkerInv
  <2>2. ResvType' BY <1>20 DEF Release, ReleaseResv, ResvType
  <2> QED BY <1>20, <2>1, <2>2, <1>3 DEF Release
<1>21. CASE ReleaseClaim
  <2>1. WorkerInv' BY <1>21, ReturnKeeps DEF ReleaseClaim, WorkerInv
  <2>2. row' \in RowType BY <1>21, RowWritesTyped DEF ReleaseClaim, Sources, Reasons
  <2> QED BY <1>21, <2>1, <2>2, <1>2 DEF ReleaseClaim
<1>22. CASE DeferTerminalFailure
  <2>1. WorkerInv' BY <1>22, ReturnKeeps DEF DeferTerminalFailure, WorkerInv
  <2>2. row' \in RowType BY <1>22, RowWritesTyped DEF DeferTerminalFailure, Sources, Reasons
  <2> QED BY <1>22, <2>1, <2>2, <1>2 DEF DeferTerminalFailure
<1>23. CASE ResolveReservation
  <2>1. plan = "none" /\ pc # "idle" /\ job.state = "running"
    BY <1>23 DEF ResolveReservation, WorkerInv
  <2>2. Goto("resolveConfirm") \/ Goto("resolveRelease") \/ Return("complete")
    BY <1>23 DEF ResolveReservation
  <2>3. WorkerInv' BY <2>1, <2>2, GotoKeeps, ReturnKeeps DEF WorkerSteps
  <2> QED BY <1>23, <2>3, <1>1 DEF ResolveReservation
<1>24. CASE SettleReservation
  <2>1. WorkerInv' BY <1>24, ReturnKeeps DEF SettleReservation, WorkerInv
  <2>2. ResvType' BY <1>24 DEF SettleReservation, ConfirmResv, ReleaseResv, ResvType
  <2> QED BY <1>24, <2>1, <2>2, <1>3 DEF SettleReservation
<1>25. CASE StoreError
  <2>1. pc # "idle" /\ job.state = "running" BY <1>25 DEF StoreError, WorkerInv, WorkerSteps
  <2>2. (pc = "check" /\ Goto("unclaimError")) \/ Return(FailurePlans[plan].end) \/ Return("error")
    BY <1>25 DEF StoreError
  <2>3. pc = "check" => plan = "none" BY DEF WorkerInv
  <2>4. WorkerInv' BY <2>1, <2>2, <2>3, GotoKeeps, ReturnKeeps DEF WorkerSteps
  <2>5. FaultType' BY <1>25, FaultsAssumption DEF StoreError, Fault, FaultType
  <2> QED BY <1>25, <2>4, <2>5
          DEF StoreError, EventType, EnvType, ResvType, RecType, NetType, rowVars, recVars, netVars, envVars
<1>26. CASE Crash
  <2>1. WorkerInv' BY <1>26 DEF Crash, WorkerInv
  <2>2. FaultType' BY <1>26, FaultsAssumption DEF Crash, Fault, FaultType
  <2> QED BY <1>26, <2>1, <2>2
          DEF Crash, EventType, EnvType, ResvType, RecType, NetType, rowVars, recVars, netVars, envVars
<1>27. CASE ReconcileSelect
  <2>1. SweepReason \in Reasons BY DEF SweepReason, RowType, Reasons
  <2>2. RecType' BY <1>27, <2>1 DEF ReconcileSelect, RecType, Sources
  <2> QED BY <1>27, <2>2, <1>4 DEF ReconcileSelect
<1>28. CASE ReconcileMarkFailed
  <2>1. row' \in RowType /\ EventType'
    BY <1>28, MarkFailedTyped DEF ReconcileMarkFailed, RecType
  <2>2. RecType' BY <1>28 DEF ReconcileMarkFailed, RecType, NoPlan
  <2> QED BY <1>28, <2>1, <2>2
          DEF ReconcileMarkFailed, WorkerInv, EnvType, ResvType, NetType, FaultType,
              workVars, netVars, envVars, faultVars
<1>29. CASE ReconcileSelectRamp
  <2>1. RecType' BY <1>29 DEF ReconcileSelectRamp, RecType
  <2> QED BY <1>29, <2>1, <1>4 DEF ReconcileSelectRamp
<1>30. CASE ReconcileResolve
  <2>1. rpc' \in {"confirm", "release", "idle"} BY <1>30 DEF ReconcileResolve
  <2>2. RecType' BY <1>30, <2>1 DEF ReconcileResolve, RecType
  <2> QED BY <1>30, <2>2, <1>4 DEF ReconcileResolve
<1>31. CASE ReconcileSettle
  <2>1. RecType' BY <1>31 DEF ReconcileSettle, RecType
  <2>2. ResvType' BY <1>31 DEF ReconcileSettle, ConfirmResv, ReleaseResv, ResvType
  <2> QED BY <1>31, <2>1, <2>2
          DEF ReconcileSettle, WorkerInv, EventType, EnvType, NetType, FaultType,
              rowVars, workVars, netVars, envVars, faultVars
<1>32. CASE ReconcileAborts
  <2>1. RecType' BY <1>32 DEF ReconcileAborts, RecType, NoPlan
  <2>2. FaultType' BY <1>32, FaultsAssumption DEF ReconcileAborts, FaultType
  <2> QED BY <1>32, <2>1, <2>2
          DEF ReconcileAborts, WorkerInv, EventType, EnvType, ResvType, NetType,
              rowVars, workVars, netVars, envVars
<1>33. CASE Process BY <1>33, ProcessTyped
<1>34. CASE SoftDelete \/ Restore \/ HorizonPasses \/ ChangeSuppression
  <2>1. EnvType' BY <1>34, Zenon DEF SoftDelete, Restore, HorizonPasses, ChangeSuppression, EnvType
  <2>2. CASE SoftDelete
    BY <2>1, <2>2 DEF SoftDelete, WorkerInv, EventType, ResvType, RecType, NetType, FaultType,
              rowVars, workVars, recVars, netVars, faultVars
  <2>3. CASE Restore
    BY <2>1, <2>3 DEF Restore, WorkerInv, EventType, ResvType, RecType, NetType, FaultType,
              rowVars, workVars, recVars, netVars, faultVars
  <2>4. CASE HorizonPasses
    BY <2>1, <2>4 DEF HorizonPasses, WorkerInv, EventType, ResvType, RecType, NetType, FaultType,
              rowVars, workVars, recVars, netVars, faultVars
  <2>5. CASE ChangeSuppression
    BY <2>1, <2>5 DEF ChangeSuppression, WorkerInv, EventType, ResvType, RecType, NetType, FaultType,
              rowVars, workVars, recVars, netVars, faultVars
  <2> QED BY <1>34, <2>2, <2>3, <2>4, <2>5
<1>35. CASE PurgeMessage
  <2>1. row' \in RowType BY <1>35 DEF PurgeMessage, NewRow, RowType
  <2>2. ResvType' BY <1>35 DEF PurgeMessage, ResvType
  <2> QED BY <1>35, <2>1, <2>2
          DEF PurgeMessage, WorkerInv, EventType, EnvType, RecType, NetType, FaultType,
              workVars, recVars, netVars, envVars, faultVars
<1>36. CASE ClaimGoesStale
  <2>1. row' \in RowType BY <1>36 DEF ClaimGoesStale, RowType
  <2>2. WorkerInv' BY <1>36 DEF ClaimGoesStale, WorkerInv, workVars
  <2> QED BY <1>36, <2>1, <2>2, <1>2 DEF ClaimGoesStale
<1>37. CASE UNCHANGED vars
  BY <1>37 DEF vars, WorkerInv, EventType, EnvType, ResvType, RecType, NetType, FaultType,
               rowVars, workVars, recVars, netVars, envVars, faultVars
<1> QED BY <1>5, <1>6, <1>7, <1>8, <1>9, <1>10, <1>11, <1>14, <1>15, <1>16, <1>17, <1>18, <1>19,
           <1>20, <1>21, <1>22, <1>23, <1>24, <1>25, <1>26, <1>27, <1>28, <1>29, <1>30, <1>31,
           <1>32, <1>33, <1>34, <1>35, <1>36, <1>37
        DEF Next, WorkerStep, ReconcileStep

\* TypeOK holds in every behaviour: in particular River never runs a send past
\* its attempt budget, and the worker has a failure plan exactly while it
\* records a failure.
THEOREM TypeCorrect == Spec => []TypeOK
<1>1. Spec => []TypeInv BY TypeInit, TypeStep, PTL DEF Spec
<1> QED BY <1>1, TypeInvImplies, PTL
-----------------------------------------------------------------------------
(* The inductive invariant of the row.                                     *)

\* A failure e2a inferred itself, which provider evidence may correct.
LocalFailure(w) == w.status = "failed" /\ w.source # "provider"

\* What relates a row w, its recipients and the email.sent event: evidence and
\* email.sent exclude the unsettled states, an unsettled row has no recipient
\* outcome, and a settled one has a recipient that carries its status.
SettledRow(w, sent) ==
  /\ w.evidence => w.status \notin PreSend /\ ~LocalFailure(w)
  /\ w.status \in SentLike =>
        w.source = "none" /\ \E r \in Recipients : rank[w.rcpt[r]] >= rank[w.status]
  /\ w.status \in PreSend \/ LocalFailure(w) => \A r \in Recipients : w.rcpt[r] = "none"
  /\ sent => w.status \notin PreSend /\ ~LocalFailure(w)
  /\ w.status \in {"sent", "deferred", "delivered"} => sent

RowInv == SettledRow(row, sentEvt) /\ metered = IF sentEvt THEN 1 ELSE 0

\* The invariant of the row implies two of the properties.
LEMMA RowInvImplies == RowInv => EvidenceSettles /\ MeteredOnce
BY DEF RowInv, SettledRow, LocalFailure, EvidenceSettles, MeteredOnce

\* finalizeSentTx's row: whatever was unsettled is now sent, with its recipients.
LEMMA AcceptedIsSettled ==
  ASSUME NEW w \in RowType, NEW n \in Nat,
         NEW v \in {MarkOutboundSent(w, n), ResolveOutboundProviderAccepted(w)}
  PROVE  /\ v.status = "sent" /\ v.evidence = w.evidence /\ v.attempt = FALSE
         /\ \A r \in Recipients : v.rcpt[r] = IF w.rcpt[r] = "none" THEN "sent" ELSE w.rcpt[r]
         /\ SettledRow(v, TRUE)
<1>1. /\ v.status = "sent" /\ v.source = "none" /\ v.evidence = w.evidence /\ v.attempt = FALSE
      /\ v.rcpt = [r \in Recipients |-> IF w.rcpt[r] = "none" THEN "sent" ELSE w.rcpt[r]]
  <2>1. CASE v = MarkOutboundSent(w, n)
    BY <2>1 DEF MarkOutboundSent, AddSentRecipientRows, NoFailure, RowType
  <2>2. CASE v = ResolveOutboundProviderAccepted(w)
    BY <2>2 DEF ResolveOutboundProviderAccepted, AddSentRecipientRows, NoFailure, RowType
  <2> QED BY <2>1, <2>2
<1>2. \A r \in Recipients : rank[v.rcpt[r]] >= rank["sent"]
  BY <1>1, RankValues DEF RowType, Feedback
<1> QED BY <1>1, <1>2, RecipientsAssumption DEF SettledRow, LocalFailure, PreSend, SentLike

\* A recipient outcome recorded on a row the provider has accepted.
LEMMA OutcomeKeepsSettled ==
  ASSUME NEW w \in RowType, NEW sent \in BOOLEAN, SettledRow(w, sent), w.evidence,
         w.status # "gone", NEW R \in SUBSET Recipients, R # {}, NEW o \in SentLike,
         NEW v, v = RecordDeliveryOutcome(w, R, o)
  PROVE  SettledRow(v, sent)
<1>1. w.status \in SentLike \/ (w.status = "failed" /\ w.source = "provider")
  BY DEF SettledRow, LocalFailure, RowType, Status, SentLike
<1>2. Recorded(w, R, o, v)
  <2>1. o \in Feedback BY DEF SentLike
  <2> QED BY <2>1, OutcomeRecorded
<1> USE DEF Recorded
<1>3. ~LocalFailure(v) /\ v.status \notin PreSend
  BY <1>1, <1>2 DEF LocalFailure, SettledRow, PreSend, Feedback, SentLike
<1>4. v.status \in SentLike =>
        v.source = "none" /\ \E x \in Recipients : rank[v.rcpt[x]] >= rank[v.status]
  <2> SUFFICES ASSUME v.status \in SentLike
               PROVE  v.source = "none" /\ \E x \in Recipients : rank[v.rcpt[x]] >= rank[v.status]
    OBVIOUS
  <2>1. v.status # "failed" BY DEF SentLike
  <2>2. v.source = "none" BY <1>1, <1>2, <2>1 DEF SettledRow, SentLike
  <2>3. PICK x \in Recipients : v.rcpt[x] = v.status BY <1>2, <2>1
  <2>4. rank[v.status] \in Nat BY RankValues DEF SentLike, Feedback
  <2> QED BY <2>2, <2>3, <2>4
<1>5. v.status \in {"sent", "deferred", "delivered"} => sent
  <2> SUFFICES ASSUME v.status \in {"sent", "deferred", "delivered"} PROVE sent
    OBVIOUS
  <2>1. rank[v.status] \in Nat /\ rank[v.status] <= 4 /\ v.status # "failed" BY RankValues
  <2>2. w.status # "failed"
    <3>1. w.status = "failed" => rank[v.status] > rank["failed"]
      BY <1>1, <1>2, <2>1 DEF SentLike
    <3> QED BY <3>1, <2>1, RankValues
  <2>3. PICK x \in Recipients : rank[w.rcpt[x]] >= rank[w.status]
    BY <1>1, <2>2 DEF SettledRow
  <2>4. rank[w.rcpt[x]] \in Nat /\ rank[v.rcpt[x]] \in Nat /\ rank[w.status] \in Nat
    BY <1>1, <1>2, RankValues DEF RowType, Feedback, SentLike
  <2>5. rank[w.status] <= 4 BY <1>2, <2>1, <2>2, <2>3, <2>4, RankValues
  <2>6. w.status \in {"sent", "deferred", "delivered"}
    BY <1>1, <2>2, <2>5, RankValues DEF SentLike, Feedback
  <2> QED BY <2>6 DEF SettledRow
<1> QED BY <1>3, <1>4, <1>5 DEF SettledRow

\* An SES Reject recorded on any row.
LEMMA RejectKeepsSettled ==
  ASSUME NEW w \in RowType, NEW sent \in BOOLEAN, SettledRow(w, sent), w.status # "gone",
         NEW v, v = RecordProviderReject(RecordDeliveryOutcome(w, Recipients, "failed"))
  PROVE  /\ SettledRow(v, sent)
         /\ v.status \in {"failed", "bounced", "complained"}
         /\ v.status = "failed" => v.source = "provider"
         /\ v.attempt => w.attempt
<1> DEFINE u == RecordDeliveryOutcome(w, Recipients, "failed")
<1>0. v = RecordProviderReject(u) OBVIOUS
<1>1. Recorded(w, Recipients, "failed", u)
  BY OutcomeRecorded, RecipientsAssumption DEF Feedback
<1> HIDE DEF u
<1> USE DEF Recorded
<1>2. CASE u.status \in {"bounced", "complained"}
  <2>1. v = [u EXCEPT !.claim = "none"] BY <1>0, <1>2 DEF RecordProviderReject
  <2>2. v.status = u.status /\ v.source = u.source /\ v.rcpt = u.rcpt /\ v.attempt = u.attempt
    BY <1>1, <2>1 DEF RowType
  <2>3. PICK x \in Recipients : u.rcpt[x] = u.status BY <1>1, <1>2
  <2>4. rank[u.status] \in Nat BY <1>2, RankValues
  <2>5. w.rcpt[x] # "none" BY <1>1, <1>2, <2>3
  <2>6. u.source = "none"
    BY <1>1, <1>2, <2>5 DEF SettledRow, RowType, Status, SentLike
  <2>7. SettledRow(v, sent)
    BY <1>2, <2>2, <2>3, <2>4, <2>6 DEF SettledRow, LocalFailure, PreSend
  <2> QED BY <1>1, <1>2, <2>2, <2>7
<1>3. CASE u.status \notin {"bounced", "complained"}
  <2>1. v.status = "failed" /\ v.source = "provider" /\ v.attempt = FALSE
    <3>1. v = [u EXCEPT !.status = "failed", !.source = "provider", !.reason = "provider_rejected",
                        !.attempt = FALSE, !.claim = "none"]
      BY <1>0, <1>3 DEF RecordProviderReject
    <3> QED BY <3>1, <1>1 DEF RowType
  <2> QED BY <2>1 DEF SettledRow, LocalFailure, PreSend, SentLike
<1> QED BY <1>2, <1>3

\* Every way a step writes the row.
RowStep ==
  \/ UNCHANGED rowVars
  \/ /\ UNCHANGED <<metered, sentEvt, failEvt>>
     /\ \/ Claimable(row) /\ row' \in {row, CancelTrashed(row), Claimed(row)}
        \/ row' \in {Unclaimed(row), DeferOutboundTerminalFailure(row)}
        \/ \E p \in Plans : row' = PreserveOutboundTerminalFailure(row, FailurePlans[p].source,
                                                                   FailurePlans[p].reason)
        \/ row' = [row EXCEPT !.claim = "stale"]
        \/ row' = [NewRow EXCEPT !.status = "gone"]
  \/ \E n \in Nat : /\ MarkOutboundSentApplies(row) /\ row' = MarkOutboundSent(row, n)
                    /\ FinalizeSent
  \/ \E source \in Sources, reason \in Reasons : MarkFailed(source, reason)
  \/ Process

\* Every step writes the row by one of its operations or leaves it alone.
LEMMA RowSteps == TypeInv /\ [Next]_vars => RowStep
<1> SUFFICES ASSUME TypeInv, [Next]_vars PROVE RowStep
  OBVIOUS
<1>1. CASE UNCHANGED rowVars BY <1>1 DEF RowStep
<1>2. CASE ClaimSend BY <1>2 DEF ClaimSend, RowStep, rowVars
<1>3. CASE ReleaseClaim \/ DeferTerminalFailure
  BY <1>3 DEF ReleaseClaim, DeferTerminalFailure, RowStep
<1>4. CASE PreserveTerminalFailure
  <2>1. plan \in Plans BY <1>4 DEF PreserveTerminalFailure, TypeInv, WorkerInv
  <2> QED BY <1>4, <2>1 DEF PreserveTerminalFailure, RowStep
<1>5. CASE ClaimGoesStale \/ PurgeMessage
  BY <1>5 DEF ClaimGoesStale, PurgeMessage, RowStep
<1>6. CASE MarkSent
  <2>1. row.provId \in Nat /\ copies \in Nat BY DEF TypeInv, RowType, NetType
  <2>2. (IF pc = "settle" THEN row.provId ELSE copies) \in Nat BY <2>1
  <2> QED BY <1>6, <2>2 DEF MarkSent, RowStep
<1>7. CASE WorkerMarkFailed
  <2>1. plan \in Plans BY <1>7 DEF WorkerMarkFailed, TypeInv, WorkerInv
  <2>2. FailurePlans[plan].source \in Sources /\ FailurePlans[plan].reason \in Reasons
    BY <2>1, PlansTyped
  <2> QED BY <1>7, <2>2 DEF WorkerMarkFailed, RowStep
<1>8. CASE ReconcileMarkFailed
  <2>1. rplan.source \in Sources /\ rplan.reason \in Reasons
    BY <1>8 DEF ReconcileMarkFailed, TypeInv, RecType
  <2> QED BY <1>8, <2>1 DEF ReconcileMarkFailed, RowStep
<1>9. CASE Process BY <1>9 DEF RowStep
<1> QED BY <1>1, <1>2, <1>3, <1>4, <1>5, <1>6, <1>7, <1>8, <1>9
        DEF Next, WorkerStep, ReconcileStep, vars, StartJob, RescueStuckJob, PruneJob, GraceElapses,
            Reserve, CheckSuppression, Deliver, DeliverAmbiguously, Confirm, Release,
            ResolveReservation, SettleReservation, StoreError, Crash,
            ReconcileSelect, ReconcileSelectRamp, ReconcileResolve, ReconcileSettle, ReconcileAborts,
            SoftDelete, Restore, HorizonPasses, ChangeSuppression

\* One notification, seen from the row.
LEMMA ProcessKeepsRow ==
  ASSUME TypeInv, RowInv, Process
  PROVE  RowInv' /\ row'.status \notin PreSend /\ (row'.attempt => row.attempt)
<1>0. row \in RowType /\ sentEvt \in BOOLEAN /\ SettledRow(row, sentEvt)
  BY DEF TypeInv, EventType, RowInv
<1>1. PICK c \in 1..copies :
        \/ \E r \in Recipients, outcome \in SentLike : ProcessAcceptance(c, r, outcome)
        \/ ProcessReject(c)
  BY DEF Process
<1>2. c \in Nat /\ "local" \in Sources /\ "cancelled" \in Reasons
  BY DEF TypeInv, NetType, Sources, Reasons
<1>3. CASE \E r \in Recipients, outcome \in SentLike : ProcessAcceptance(c, r, outcome)
  <2>1. PICK r \in Recipients, outcome \in SentLike : ProcessAcceptance(c, r, outcome) BY <1>3
  <2> DEFINE seen == RecordProviderAcceptEvidence(row, c)
             pending == ProviderAcceptancePending(seen)
             settled == IF pending THEN ResolveOutboundProviderAccepted(seen) ELSE seen
             sent == sentEvt \/ pending
  <2>2. /\ seen \in RowType /\ seen.evidence = TRUE /\ seen.status = row.status
        /\ seen.source = row.source /\ seen.rcpt = row.rcpt /\ seen.attempt = row.attempt
    <3>1. seen \in RowType BY <1>0, <1>2, RowWritesTyped
    <3>2. /\ seen.evidence = TRUE /\ seen.status = row.status /\ seen.source = row.source
          /\ seen.rcpt = row.rcpt /\ seen.attempt = row.attempt
      BY <1>0 DEF RecordProviderAcceptEvidence, RowType
    <3> QED BY <3>1, <3>2
  <2>3. pending <=> row.status \in PreSend \/ LocalFailure(row)
    BY <2>2 DEF ProviderAcceptancePending, Correctable, LocalFailure
  <2>4. row.status # "gone" BY <2>1 DEF ProcessAcceptance, Correlated
  <2>5. /\ row' = IF outcome = "sent" THEN settled ELSE RecordDeliveryOutcome(settled, {r}, outcome)
        /\ IF pending THEN FinalizeSent ELSE UNCHANGED <<metered, sentEvt, failEvt>>
    BY <2>1 DEF ProcessAcceptance
  <2> HIDE DEF pending, seen
  <2>6. /\ settled \in RowType /\ settled.evidence = TRUE /\ SettledRow(settled, sent)
        /\ settled.status \in Feedback /\ (settled.attempt => row.attempt)
    <3>1. CASE pending
      <4>1. settled = ResolveOutboundProviderAccepted(seen) BY <3>1
      <4>2. settled \in RowType BY <1>2, <2>2, <4>1, RowWritesTyped
      <4>3. /\ settled.status = "sent" /\ settled.evidence = TRUE /\ settled.attempt = FALSE
            /\ SettledRow(settled, TRUE)
        BY <1>2, <2>2, <4>1, AcceptedIsSettled
      <4> QED BY <3>1, <4>2, <4>3 DEF Feedback, SettledRow
    <3>2. CASE ~pending
      <4>1. settled = seen BY <3>2
      <4>2. SettledRow(seen, sentEvt) BY <1>0, <2>2, <2>3, <3>2 DEF SettledRow, LocalFailure
      <4>3. row.status \in Feedback BY <1>0, <2>3, <2>4, <3>2 DEF RowType, Status
      <4>4. SettledRow(seen, sent) BY <3>2, <4>2 DEF SettledRow
      <4> QED BY <2>2, <4>1, <4>3, <4>4
    <3> QED BY <3>1, <3>2
  <2> HIDE DEF settled
  <2>7. /\ SettledRow(row', sent) /\ row'.status \notin PreSend /\ (row'.attempt => row.attempt)
    <3>1. CASE outcome = "sent" BY <2>5, <2>6, <3>1 DEF Feedback, PreSend
    <3>2. CASE outcome # "sent"
      <4>1. row' = RecordDeliveryOutcome(settled, {r}, outcome) BY <2>5, <3>2
      <4>2. {r} \in SUBSET Recipients /\ {r} # {} /\ outcome \in Feedback BY DEF SentLike
      <4>3. sent \in BOOLEAN /\ settled.status # "gone" BY <2>6 DEF Feedback
      <4>4. SettledRow(row', sent) BY <2>6, <4>1, <4>2, <4>3, OutcomeKeepsSettled
      <4>5. Recorded(settled, {r}, outcome, row') BY <2>6, <4>1, <4>2, OutcomeRecorded
      <4> QED BY <2>6, <4>4, <4>5 DEF Recorded, Feedback, PreSend
    <3> QED BY <3>1, <3>2
  <2>8. sentEvt' <=> sent BY <2>5, Zenon DEF FinalizeSent
  <2>9. metered' = IF sentEvt' THEN 1 ELSE 0
    <3>1. CASE pending
      <4>1. ~sentEvt BY <1>0, <2>3, <3>1 DEF SettledRow
      <4>2. metered = 0 BY <4>1 DEF RowInv
      <4>3. metered' = metered + 1 BY <2>5, <3>1 DEF FinalizeSent
      <4> QED BY <2>8, <3>1, <4>2, <4>3
    <3>2. CASE ~pending BY <2>5, <3>2 DEF RowInv
    <3> QED BY <3>1, <3>2
  <2> QED BY <2>7, <2>8, <2>9 DEF RowInv, SettledRow
<1>4. CASE ProcessReject(c)
  <2>1. row.status # "gone" BY <1>4 DEF ProcessReject, Correlated
  <2>2. row' = RecordProviderReject(RecordDeliveryOutcome(row, Recipients, "failed"))
    BY <1>4 DEF ProcessReject
  <2>3. /\ SettledRow(row', sentEvt) /\ row'.status \in {"failed", "bounced", "complained"}
        /\ (row'.attempt => row.attempt)
    BY <1>0, <2>1, <2>2, RejectKeepsSettled
  <2>4. UNCHANGED <<metered, sentEvt>> BY <1>4 DEF ProcessReject
  <2> QED BY <2>3, <2>4 DEF RowInv, PreSend
<1> QED BY <1>1, <1>3, <1>4

\* The invariant of the row holds at first.
LEMMA RowInit == Init => RowInv
BY RecipientsAssumption DEF Init, NewRow, RowInv, SettledRow, LocalFailure, PreSend, SentLike, Feedback

\* Every write of the row keeps its invariant.
LEMMA RowKeeps == TypeInv /\ RowInv /\ RowStep => RowInv'
<1> SUFFICES ASSUME TypeInv, RowInv, RowStep PROVE RowInv'
  OBVIOUS
<1>0. row \in RowType /\ SettledRow(row, sentEvt) /\ metered = IF sentEvt THEN 1 ELSE 0
  BY DEF TypeInv, RowInv
<1>1. ASSUME UNCHANGED <<metered, sentEvt>>, SettledRow(row', sentEvt) PROVE RowInv'
  BY <1>0, <1>1 DEF RowInv
<1>2. ASSUME metered' = metered + 1, sentEvt' = TRUE, ~sentEvt, SettledRow(row', TRUE) PROVE RowInv'
  <2>1. metered' = 1 BY <1>0, <1>2
  <2>2. SettledRow(row', sentEvt') BY <1>2 DEF SettledRow
  <2> QED BY <1>2, <2>1, <2>2 DEF RowInv
<1>3. CASE UNCHANGED rowVars BY <1>3, <1>0, <1>1 DEF rowVars
<1>4. CASE UNCHANGED <<metered, sentEvt, failEvt>> /\ Claimable(row)
            /\ row' \in {row, CancelTrashed(row), Claimed(row)}
  <2>1. row.status \in PreSend BY <1>4 DEF Claimable
  <2>2. ~row.evidence /\ ~sentEvt /\ \A r \in Recipients : row.rcpt[r] = "none"
    BY <1>0, <2>1 DEF SettledRow
  <2>3. row'.evidence = row.evidence /\ row'.rcpt = row.rcpt
        /\ (row'.status \in PreSend \/ LocalFailure(row'))
    BY <1>0, <1>4, <2>1 DEF CancelTrashed, Claimed, RowType, PreSend, LocalFailure
  <2>4. row'.status \in PreSend => SettledRow(row', sentEvt)
    BY <2>2, <2>3 DEF SettledRow, LocalFailure, PreSend, SentLike, Feedback
  <2>5. LocalFailure(row') => SettledRow(row', sentEvt)
    BY <2>2, <2>3 DEF SettledRow, LocalFailure, PreSend, SentLike, Feedback
  <2>6. SettledRow(row', sentEvt) BY <2>3, <2>4, <2>5
  <2> QED BY <1>4, <2>6, <1>1
<1>5. CASE UNCHANGED <<metered, sentEvt, failEvt>>
            /\ \/ row' \in {Unclaimed(row), DeferOutboundTerminalFailure(row)}
               \/ \E p \in Plans : row' = PreserveOutboundTerminalFailure(row, FailurePlans[p].source,
                                                                          FailurePlans[p].reason)
  <2>1. \/ row' = row
        \/ /\ row.status \in PreSend /\ row'.status \in PreSend
           /\ row'.evidence = row.evidence /\ row'.rcpt = row.rcpt
    BY <1>0, <1>5 DEF Unclaimed, DeferOutboundTerminalFailure, PreserveOutboundTerminalFailure,
                      RowType, PreSend
  <2>2. SettledRow(row', sentEvt)
    BY <1>0, <2>1 DEF SettledRow, LocalFailure, PreSend, SentLike, Feedback
  <2> QED BY <1>5, <2>2, <1>1
<1>6. CASE UNCHANGED <<metered, sentEvt, failEvt>> /\ row' = [row EXCEPT !.claim = "stale"]
  <2>1. SettledRow(row', sentEvt) BY <1>0, <1>6 DEF SettledRow, LocalFailure, RowType
  <2> QED BY <1>6, <2>1, <1>1
<1>7. CASE UNCHANGED <<metered, sentEvt, failEvt>> /\ row' = [NewRow EXCEPT !.status = "gone"]
  <2>1. row'.status = "gone" /\ row'.evidence = FALSE BY <1>7 DEF NewRow
  <2>2. SettledRow(row', sentEvt)
    BY <2>1 DEF SettledRow, LocalFailure, PreSend, SentLike, Feedback
  <2> QED BY <1>7, <2>2, <1>1
<1>8. CASE \E n \in Nat : /\ MarkOutboundSentApplies(row) /\ row' = MarkOutboundSent(row, n)
                          /\ FinalizeSent
  <2>1. ~sentEvt BY <1>0, <1>8 DEF MarkOutboundSentApplies, SettledRow, PreSend
  <2>2. SettledRow(row', TRUE) BY <1>0, <1>8, AcceptedIsSettled
  <2>3. metered' = metered + 1 /\ sentEvt' = TRUE BY <1>8 DEF FinalizeSent
  <2> QED BY <2>1, <2>2, <2>3, <1>2
<1>9. CASE \E source \in Sources, reason \in Reasons : MarkFailed(source, reason)
  <2>1. PICK source \in Sources, reason \in Reasons : MarkFailed(source, reason) BY <1>9
  <2>2. CASE /\ ProviderAcceptancePending(row) /\ row' = ResolveOutboundProviderAccepted(row)
             /\ FinalizeSent
    <3>1. ~sentEvt
      BY <1>0, <2>2 DEF ProviderAcceptancePending, Correctable, SettledRow, LocalFailure
    <3>2. SettledRow(row', TRUE) BY <1>0, <2>2, 0 \in Nat, AcceptedIsSettled
    <3>3. metered' = metered + 1 /\ sentEvt' = TRUE BY <2>2 DEF FinalizeSent
    <3> QED BY <3>1, <3>2, <3>3, <1>2
  <2>3. CASE /\ MarkOutboundFailedApplies(row) /\ row' = MarkOutboundFailed(row, source, reason)
             /\ UNCHANGED <<metered, sentEvt>>
    <3>1. row.status \in PreSend /\ ~row.evidence BY <2>3 DEF MarkOutboundFailedApplies
    <3>2. row'.status = "failed" /\ row'.evidence = row.evidence /\ row'.rcpt = row.rcpt
      BY <1>0, <2>3 DEF MarkOutboundFailed, RowType
    <3>3. SettledRow(row', sentEvt)
      BY <1>0, <3>1, <3>2 DEF SettledRow, LocalFailure, PreSend, SentLike
    <3> QED BY <2>3, <3>3, <1>1
  <2> QED BY <2>1, <2>2, <2>3, <1>3 DEF MarkFailed
<1>10. CASE Process BY <1>10, ProcessKeepsRow
<1> QED BY <1>3, <1>4, <1>5, <1>6, <1>7, <1>8, <1>9, <1>10 DEF RowStep

\* The types and the row, in every state.
LEMMA RowInvariant == Spec => [](TypeInv /\ RowInv)
<1>1. Init => TypeInv /\ RowInv BY TypeInit, RowInit
<1>2. (TypeInv /\ RowInv) /\ [Next]_vars => (TypeInv /\ RowInv)' BY TypeStep, RowSteps, RowKeeps
<1> QED BY <1>1, <1>2, PTL DEF Spec

\* Provider evidence never rests on a row that could still be submitted or
\* failed, nor under a failure e2a inferred: the notification's own transaction
\* settles the row, whatever the worker and the reconciler are doing.
THEOREM EvidenceAlwaysSettles == Spec => []EvidenceSettles
BY RowInvariant, RowInvImplies, PTL

\* The meter and email.sent count a message once, and no row shows sent,
\* deferred or delivered without them, whoever settles it.
THEOREM SentIsMeteredOnce == Spec => []MeteredOnce
BY RowInvariant, RowInvImplies, PTL
-----------------------------------------------------------------------------
(* Submissions.                                                            *)

\* The calls between a claim and the record of its submission.
SubmitSteps == {"reserve", "check", "deliver", "markSent"}

\* While a row can still be submitted, every copy SES took is a lost one, save
\* the one whose acceptance the worker is about to record; and only the worker
\* takes a row out of 'sending' back to 'accepted', never during a submission.
CopyInv ==
  /\ row.status \in PreSend /\ pc # "markSent" => copies = lost
  /\ pc \in SubmitSteps \ {"markSent"} => copies = lost
  /\ pc = "markSent" => copies = lost + 1
  /\ pc \in SubmitSteps => row.status # "accepted"
  /\ copies <= lost + 1

\* A preserved failure on an unsettled row is complete, so it cannot be claimed,
\* and none appears while a claim is being submitted.
FallbackInv ==
  /\ row.status \in PreSend /\ row.attempt => CompleteTerminalFallback(row)
  /\ pc \in SubmitSteps => ~row.attempt

SubmitInv == CopyInv /\ FallbackInv

\* Nothing has been submitted at first.
LEMMA SubmitInit == Init => SubmitInv
BY DEF Init, NewRow, SubmitInv, CopyInv, FallbackInv, SubmitSteps, PreSend

\* A row written while the worker stands still, or moves within a submission or
\* out of one: it is settled, or it keeps its status and its fallback.
KeptOrSettled ==
  \/ row'.status \notin PreSend /\ (row'.attempt => row.attempt)
  \/ /\ row'.status = row.status /\ row'.attempt = row.attempt
     /\ row'.source = row.source /\ row'.reason = row.reason

\* Such a write keeps the invariant of the submissions.
LEMMA KeptSubmits ==
  ASSUME SubmitInv, KeptOrSettled, UNCHANGED <<copies, lost>>,
         \/ pc' = pc
         \/ pc' \notin SubmitSteps /\ pc # "markSent"
         \/ pc \in SubmitSteps \ {"markSent"} /\ pc' \in SubmitSteps \ {"markSent"}
  PROVE  SubmitInv'
<1>1. CopyInv' BY DEF SubmitInv, CopyInv, KeptOrSettled, PreSend, SubmitSteps
<1>2. FallbackInv'
  BY DEF SubmitInv, FallbackInv, KeptOrSettled, CompleteTerminalFallback, SubmitSteps
<1> QED BY <1>1, <1>2 DEF SubmitInv

\* The worker leaves the claim with a row that another attempt may take.
LEMMA Relinquished ==
  ASSUME TypeInv, SubmitInv, pc # "markSent", pc' \notin SubmitSteps, UNCHANGED <<copies, lost>>,
         row'.status \in PreSend => row.status \in PreSend,
         row'.status \in PreSend /\ row'.attempt => CompleteTerminalFallback(row')
  PROVE  SubmitInv'
BY DEF SubmitInv, CopyInv, FallbackInv, SubmitSteps, TypeInv, NetType, FaultType

\* MarkFailed settles the row or leaves it alone.
LEMMA MarkFailedSettles ==
  ASSUME row \in RowType, NEW source \in Sources, NEW reason \in Reasons, MarkFailed(source, reason)
  PROVE  KeptOrSettled
<1>1. CASE row' = row BY <1>1 DEF KeptOrSettled
<1>2. CASE row' = ResolveOutboundProviderAccepted(row)
  <2>1. row'.status = "sent" /\ row'.attempt = FALSE BY <1>2, 0 \in Nat, AcceptedIsSettled
  <2> QED BY <2>1 DEF KeptOrSettled, PreSend
<1>3. CASE row' = MarkOutboundFailed(row, source, reason)
  BY <1>3 DEF MarkOutboundFailed, RowType, KeptOrSettled, PreSend
<1> QED BY <1>1, <1>2, <1>3 DEF MarkFailed, rowVars

\* One step per action.
LEMMA SubmitKeeps == TypeInv /\ RowInv /\ SubmitInv /\ [Next]_vars => SubmitInv'
<1> SUFFICES ASSUME TypeInv, RowInv, SubmitInv, [Next]_vars PROVE SubmitInv'
  OBVIOUS
<1>0. /\ row \in RowType /\ copies \in Nat /\ lost \in Nat /\ faults \in Nat
      /\ pc \in {"idle"} \cup WorkerSteps
      /\ plan \in Plans \cup {"none"} /\ (plan # "none" <=> pc \in {"markFailed", "release"})
  BY FaultsAssumption DEF TypeInv, NetType, FaultType, WorkerInv
\* The steps that leave the row alone and do not submit.
<1>1. ASSUME UNCHANGED <<row, copies, lost>>,
             \/ pc' = pc
             \/ pc' \notin SubmitSteps /\ pc # "markSent"
             \/ pc \in SubmitSteps \ {"markSent"} /\ pc' \in SubmitSteps \ {"markSent"}
      PROVE  SubmitInv'
  <2>1. KeptOrSettled BY <1>1 DEF KeptOrSettled
  <2> QED BY <1>1, <2>1, KeptSubmits
\* A fault ends the attempt; what was submitted and not yet recorded is lost.
<1>2. ASSUME UNCHANGED <<row, copies>>, Fault, pc' \notin SubmitSteps PROVE SubmitInv'
  <2>1. CASE pc = "markSent"
    BY <1>0, <1>2, <2>1 DEF Fault, SubmitInv, CopyInv, FallbackInv, SubmitSteps, CompleteTerminalFallback
  <2>2. CASE pc # "markSent" BY <1>1, <1>2, <2>2 DEF Fault
  <2> QED BY <2>1, <2>2
<1>3. CASE StartJob \/ RescueStuckJob \/ PruneJob \/ GraceElapses
  BY <1>1, <1>3 DEF StartJob, RescueStuckJob, PruneJob, GraceElapses, SubmitSteps,
                    rowVars, workVars, netVars, faultVars
<1>4. CASE ClaimSend
  <2>1. pc = "claim" /\ UNCHANGED <<copies, lost>> BY <1>4 DEF ClaimSend, netVars, faultVars
  <2>2. CASE row' = row /\ Goto("resolve") BY <1>1, <2>1, <2>2 DEF Goto, SubmitSteps
  <2>3. CASE row' = CancelTrashed(row) /\ Goto("resolve")
    <3>1. KeptOrSettled BY <1>0, <2>3 DEF CancelTrashed, RowType, KeptOrSettled, PreSend
    <3> QED BY <2>1, <2>3, <3>1, KeptSubmits DEF Goto, SubmitSteps
  <2>4. CASE Claimable(row) /\ row' = Claimed(row) /\ (Goto("settle") \/ Goto("reserve"))
    <3>1. row.status \in PreSend /\ ~row.attempt /\ copies = lost
      BY <2>1, <2>4 DEF Claimable, SubmitInv, CopyInv, FallbackInv
    <3>2. row'.status = "sending" /\ row'.attempt = row.attempt
      BY <1>0, <2>4 DEF Claimed, RowType
    <3>3. pc' \in {"settle", "reserve"} BY <2>4 DEF Goto
    <3> QED BY <1>0, <2>1, <3>1, <3>2, <3>3 DEF SubmitInv, CopyInv, FallbackInv, SubmitSteps
  <2> QED BY <1>4, <2>2, <2>3, <2>4 DEF ClaimSend
<1>5. CASE Reserve \/ CheckSuppression
  <2>1. pc \in {"reserve", "check"} /\ UNCHANGED <<row, copies, lost>>
    BY <1>5 DEF Reserve, CheckSuppression, rowVars, netVars, faultVars
  <2>2. pc' \in {"check", "deliver", "unclaimSnooze", "markFailed"}
    BY <1>5 DEF Reserve, CheckSuppression, Goto, Fail
  <2> QED BY <1>1, <2>1, <2>2 DEF SubmitSteps
<1>6. CASE Deliver
  <2>1. pc = "deliver" /\ UNCHANGED <<row, lost>> BY <1>6 DEF Deliver, rowVars, faultVars
  <2>2. CASE Submit /\ Goto("markSent")
    <3>1. copies' = copies + 1 /\ pc' = "markSent" BY <2>2 DEF Submit, Goto
    <3> QED BY <1>0, <2>1, <3>1 DEF SubmitInv, CopyInv, FallbackInv, SubmitSteps, CompleteTerminalFallback
  <2>3. CASE UNCHANGED netVars /\ (Fail("rejection") \/ AfterOutage \/ AfterTemporaryFailure)
    <3>1. copies' = copies /\ pc' \in {"markFailed", "unclaimSnooze", "defer", "unclaimError"}
      BY <2>3 DEF netVars, Fail, AfterOutage, AfterTemporaryFailure, Goto
    <3> QED BY <1>1, <2>1, <3>1 DEF SubmitSteps
  <2> QED BY <1>6, <2>2, <2>3 DEF Deliver
<1>7. CASE DeliverAmbiguously
  <2>1. pc = "deliver" /\ UNCHANGED row /\ copies' = copies + 1 /\ lost' = lost + 1
    BY <1>7 DEF DeliverAmbiguously, Submit, rowVars
  <2>2. pc' \in {"markFailed", "unclaimSnooze", "defer", "unclaimError"}
    BY <1>7 DEF DeliverAmbiguously, Fail, AfterOutage, AfterTemporaryFailure, Goto
  <2> QED BY <1>0, <2>1, <2>2 DEF SubmitInv, CopyInv, FallbackInv, SubmitSteps, CompleteTerminalFallback
<1>8. CASE MarkSent
  <2>1. pc \in {"markSent", "settle"} /\ UNCHANGED <<copies, lost>> /\ pc' \notin SubmitSteps
    BY <1>8 DEF MarkSent, Goto, Return, SubmitSteps, netVars, faultVars
  <2>2. CASE MarkOutboundSentApplies(row)
              /\ row' = MarkOutboundSent(row, IF pc = "settle" THEN row.provId ELSE copies)
    <3>1. (IF pc = "settle" THEN row.provId ELSE copies) \in Nat BY <1>0 DEF RowType
    <3>2. row'.status = "sent" /\ row'.attempt = FALSE BY <1>0, <2>2, <3>1, AcceptedIsSettled
    <3> QED BY <1>0, <2>1, <3>2 DEF SubmitInv, CopyInv, FallbackInv, SubmitSteps, PreSend
  <2>3. CASE ~MarkOutboundSentApplies(row) /\ row' = row
    <3>1. pc = "markSent" => row'.status \notin PreSend
      BY <2>3 DEF SubmitInv, CopyInv, SubmitSteps, MarkOutboundSentApplies, PreSend
    <3> QED BY <1>0, <2>1, <2>3, <3>1
            DEF SubmitInv, CopyInv, FallbackInv, SubmitSteps, CompleteTerminalFallback
  <2> QED BY <1>8, <2>2, <2>3 DEF MarkSent, rowVars
<1>9. CASE Confirm \/ Release \/ ResolveReservation \/ SettleReservation
  <2>1. pc # "markSent" /\ pc' \notin SubmitSteps /\ UNCHANGED <<row, copies, lost>>
    BY <1>9 DEF Confirm, Release, ResolveReservation, SettleReservation, Return, Goto, SubmitSteps,
                rowVars, netVars, faultVars
  <2> QED BY <1>1, <2>1
<1>10. CASE WorkerMarkFailed
  <2>1. plan \in Plans BY <1>0, <1>10 DEF WorkerMarkFailed
  <2>2. KeptOrSettled BY <1>0, <1>10, <2>1, PlansTyped, MarkFailedSettles DEF WorkerMarkFailed
  <2>3. pc # "markSent" /\ pc' \notin SubmitSteps /\ UNCHANGED <<copies, lost>>
    BY <1>10 DEF WorkerMarkFailed, AfterMarkFailed, Goto, Return, SubmitSteps, netVars, faultVars
  <2> QED BY <2>2, <2>3, KeptSubmits
<1>11. CASE PreserveTerminalFailure
  <2>1. plan \in Plans BY <1>0, <1>11 DEF PreserveTerminalFailure
  <2>2. pc = "markFailed" /\ pc' \notin SubmitSteps /\ UNCHANGED <<copies, lost>>
    BY <1>11 DEF PreserveTerminalFailure, AfterMarkFailed, Fault, Goto, Return, SubmitSteps, netVars
  <2>3. row' = PreserveOutboundTerminalFailure(row, FailurePlans[plan].source, FailurePlans[plan].reason)
    BY <1>11 DEF PreserveTerminalFailure
  <2>4. CASE row.status \notin PreSend
    BY <1>1, <2>2, <2>3, <2>4 DEF PreserveOutboundTerminalFailure
  <2>5. CASE row.status \in PreSend
    <3>1. /\ row'.source = FailurePlans[plan].source /\ row'.reason = FailurePlans[plan].reason
          /\ row'.attempt = TRUE
      BY <1>0, <2>3, <2>5 DEF PreserveOutboundTerminalFailure, RowType
    <3>2. \/ row'.source = "provider" /\ row'.reason = "provider_rejected"
          \/ row'.source = "local" /\ row'.reason \in {"cancelled", "local_retries_exhausted"}
      BY <2>1, <3>1, PlansTyped DEF FailurePlans
    <3>3. CompleteTerminalFallback(row') BY <3>1, <3>2 DEF CompleteTerminalFallback, Reasons
    <3> QED BY <2>2, <2>5, <3>3, Relinquished
  <2> QED BY <2>4, <2>5
<1>12. CASE ReleaseClaim \/ DeferTerminalFailure
  <2>1. pc # "markSent" /\ pc' \notin SubmitSteps /\ UNCHANGED <<copies, lost>>
    BY <1>12 DEF ReleaseClaim, DeferTerminalFailure, Return, SubmitSteps, netVars, faultVars
  <2>2. row' = Unclaimed(row) \/ row' = DeferOutboundTerminalFailure(row)
    BY <1>12 DEF ReleaseClaim, DeferTerminalFailure
  <2>3. /\ row'.status \in PreSend => row.status \in PreSend
        /\ row'.attempt = row.attempt /\ row'.source = row.source /\ row'.reason = row.reason
    BY <1>0, <2>2 DEF Unclaimed, DeferOutboundTerminalFailure, RowType, PreSend
  <2>4. row'.status \in PreSend /\ row'.attempt => CompleteTerminalFallback(row')
    BY <2>3 DEF SubmitInv, FallbackInv, CompleteTerminalFallback
  <2> QED BY <2>1, <2>3, <2>4, Relinquished
<1>13. CASE StoreError
  <2>1. CASE pc = "check"
    BY <1>2, <1>13, <2>1 DEF StoreError, Goto, SubmitSteps, rowVars, netVars
  <2>2. CASE pc # "check"
    BY <1>2, <1>13, <2>2 DEF StoreError, Return, SubmitSteps, rowVars, netVars
  <2> QED BY <2>1, <2>2
<1>14. CASE Crash BY <1>2, <1>14 DEF Crash, SubmitSteps, rowVars, netVars
<1>15. CASE ReconcileMarkFailed
  <2>1. rplan.source \in Sources /\ rplan.reason \in Reasons
    BY <1>15 DEF ReconcileMarkFailed, TypeInv, RecType
  <2>2. KeptOrSettled BY <1>0, <1>15, <2>1, MarkFailedSettles DEF ReconcileMarkFailed
  <2> QED BY <1>15, <2>2, KeptSubmits DEF ReconcileMarkFailed, workVars, netVars, faultVars
<1>16. CASE ReconcileSelect \/ ReconcileSelectRamp \/ ReconcileResolve \/ ReconcileSettle \/ ReconcileAborts
  BY <1>1, <1>16 DEF ReconcileSelect, ReconcileSelectRamp, ReconcileResolve, ReconcileSettle,
                     ReconcileAborts, rowVars, workVars, netVars, faultVars
<1>17. CASE Process
  <2>1. KeptOrSettled BY <1>17, ProcessKeepsRow DEF KeptOrSettled
  <2>2. UNCHANGED <<workVars, netVars, faultVars>>
    BY <1>17 DEF Process, ProcessAcceptance, ProcessReject
  <2> QED BY <2>1, <2>2, KeptSubmits DEF workVars, netVars, faultVars
<1>18. CASE PurgeMessage
  <2>1. KeptOrSettled BY <1>18 DEF PurgeMessage, NewRow, KeptOrSettled, PreSend
  <2> QED BY <1>18, <2>1, KeptSubmits DEF PurgeMessage, workVars, netVars, faultVars
<1>19. CASE ClaimGoesStale
  <2>1. KeptOrSettled BY <1>0, <1>19 DEF ClaimGoesStale, RowType, KeptOrSettled
  <2> QED BY <1>19, <2>1, KeptSubmits DEF ClaimGoesStale, workVars, netVars, faultVars
<1>20. CASE SoftDelete \/ Restore \/ HorizonPasses \/ ChangeSuppression
  BY <1>1, <1>20 DEF SoftDelete, Restore, HorizonPasses, ChangeSuppression,
                     rowVars, workVars, netVars, faultVars
<1>21. CASE UNCHANGED vars
  BY <1>1, <1>21 DEF vars, rowVars, workVars, netVars, faultVars
<1> QED BY <1>3, <1>4, <1>5, <1>6, <1>7, <1>8, <1>9, <1>10, <1>11, <1>12, <1>13, <1>14, <1>15,
           <1>16, <1>17, <1>18, <1>19, <1>20, <1>21 DEF Next, WorkerStep, ReconcileStep

\* The invariant of the submissions implies two of the properties.
LEMMA SubmitInvImplies ==
  TypeInv /\ SubmitInv => DuplicatesOnlyFromLostOutcomes /\ NoSubmitAfterFallback
BY DEF TypeInv, NetType, FaultType, SubmitInv, CopyInv, FallbackInv, SubmitSteps,
       DuplicatesOnlyFromLostOutcomes, NoSubmitAfterFallback, CompleteTerminalFallback

\* All three invariants, in every state.
LEMMA SubmitInvariant == Spec => [](TypeInv /\ RowInv /\ SubmitInv)
<1>1. Init => TypeInv /\ RowInv /\ SubmitInv BY TypeInit, RowInit, SubmitInit
<1>2. (TypeInv /\ RowInv /\ SubmitInv) /\ [Next]_vars => (TypeInv /\ RowInv /\ SubmitInv)'
  BY TypeStep, RowSteps, RowKeeps, SubmitKeeps
<1> QED BY <1>1, <1>2, PTL DEF Spec

\* The worker sends a second copy only after losing the outcome of an earlier
\* one, for any number of faults and attempts and any racing notification.
THEOREM DuplicatesNeedALostOutcome == Spec => []DuplicatesOnlyFromLostOutcomes
BY SubmitInvariant, SubmitInvImplies, PTL

\* Once the worker has preserved a terminal failure, no attempt gets past the
\* claim, so the provider is never called for that row again.
THEOREM FallbackIsFinal == Spec => []NoSubmitAfterFallback
BY SubmitInvariant, SubmitInvImplies, PTL
-----------------------------------------------------------------------------
(* What a step may do to an outcome.                                       *)

\* OutcomesAreKept, of the rows w before and v after a step.
Keeps(w, v) ==
  /\ w.status \in Feedback => v.status \in Feedback \cup {"gone"}
  /\ w.status = "failed" /\ w.source = "provider" =>
       \/ v.status = "failed" /\ v.source = "provider"
       \/ v.status \in {"bounced", "complained", "gone"}
  /\ w.status \in SentLike /\ v.status # "gone" => rank[v.status] >= rank[w.status]

\* An outcome that stays is kept.
LEMMA SameOutcome ==
  ASSUME NEW w \in RowType, NEW v, v.status = w.status, v.source = w.source
  PROVE  Keeps(w, v)
BY RankValues DEF Keeps, SentLike, Feedback

\* An outcome where there was none, or a local failure, is no loss.
LEMMA UnsettledKeeps ==
  ASSUME NEW w \in RowType, NEW v, w.status \in PreSend \/ LocalFailure(w), v.status \in Feedback
  PROVE  Keeps(w, v)
BY DEF Keeps, LocalFailure, PreSend, SentLike, Feedback

\* A recipient outcome on a settled row.
LEMMA OutcomeKeeps ==
  ASSUME NEW w \in RowType, NEW sent \in BOOLEAN, SettledRow(w, sent), w.status \in Feedback,
         ~LocalFailure(w), NEW R \in SUBSET Recipients, R # {}, NEW o \in Feedback,
         NEW v, Recorded(w, R, o, v)
  PROVE  Keeps(w, v)
<1> USE DEF Recorded
<1>1. w.status = "failed" /\ w.source = "provider" =>
        \/ v.status = "failed" /\ v.source = "provider"
        \/ v.status \in {"bounced", "complained"}
  BY RankValues DEF Feedback
<1>2. w.status \in SentLike => rank[v.status] >= rank[w.status]
  <2> SUFFICES ASSUME w.status \in SentLike PROVE rank[v.status] >= rank[w.status]
    OBVIOUS
  <2>1. PICK x \in Recipients : rank[w.rcpt[x]] >= rank[w.status] BY DEF SettledRow
  <2>2. rank[v.rcpt[x]] >= rank[w.rcpt[x]] /\ rank[v.rcpt[x]] <= rank[v.status]
    BY DEF SentLike
  <2>3. /\ rank[w.rcpt[x]] \in Nat /\ rank[v.rcpt[x]] \in Nat
        /\ rank[w.status] \in Nat /\ rank[v.status] \in Nat
    BY RankValues DEF RowType, Feedback, SentLike
  <2> QED BY <2>1, <2>2, <2>3
<1> QED BY <1>1, <1>2 DEF Keeps

\* Every write of the row keeps its outcome.
LEMMA OutcomesStep == TypeInv /\ RowInv /\ RowStep => Keeps(row, row')
<1> SUFFICES ASSUME TypeInv, RowInv, RowStep PROVE Keeps(row, row')
  OBVIOUS
<1>0. row \in RowType /\ sentEvt \in BOOLEAN /\ SettledRow(row, sentEvt)
  BY DEF TypeInv, EventType, RowInv
<1>1. CASE row'.status = row.status /\ row'.source = row.source BY <1>0, <1>1, SameOutcome
<1>2. CASE row.status \in PreSend
  BY <1>2 DEF Keeps, PreSend, SentLike, Feedback
<1>3. CASE row'.status = "gone"
  BY <1>3 DEF Keeps
<1>4. CASE ResolveOutboundProviderAccepted(row) = row' /\ ProviderAcceptancePending(row)
  <2>1. row'.status = "sent" BY <1>0, <1>4, 0 \in Nat, AcceptedIsSettled
  <2> QED BY <1>0, <1>4, <2>1, UnsettledKeeps
          DEF ProviderAcceptancePending, Correctable, LocalFailure, Feedback
<1>5. CASE Process
  <2>1. PICK c \in 1..copies :
          \/ \E r \in Recipients, outcome \in SentLike : ProcessAcceptance(c, r, outcome)
          \/ ProcessReject(c)
    BY <1>5 DEF Process
  <2>2. c \in Nat /\ "local" \in Sources /\ "cancelled" \in Reasons
    BY DEF TypeInv, NetType, Sources, Reasons
  <2>3. CASE \E r \in Recipients, outcome \in SentLike : ProcessAcceptance(c, r, outcome)
    <3>1. PICK r \in Recipients, outcome \in SentLike : ProcessAcceptance(c, r, outcome) BY <2>3
    <3> DEFINE seen == RecordProviderAcceptEvidence(row, c)
               pending == ProviderAcceptancePending(seen)
               settled == IF pending THEN ResolveOutboundProviderAccepted(seen) ELSE seen
    <3>2. seen \in RowType BY <1>0, <2>2, RowWritesTyped
    <3>3. /\ seen.evidence = TRUE /\ seen.status = row.status /\ seen.source = row.source
          /\ seen.rcpt = row.rcpt
      BY <1>0 DEF RecordProviderAcceptEvidence, RowType
    <3>4. pending <=> row.status \in PreSend \/ LocalFailure(row)
      BY <3>3 DEF ProviderAcceptancePending, Correctable, LocalFailure
    <3>5. row' = IF outcome = "sent" THEN settled ELSE RecordDeliveryOutcome(settled, {r}, outcome)
      BY <3>1 DEF ProcessAcceptance
    <3> HIDE DEF pending, seen
    <3>6. settled \in RowType BY <2>2, <3>2, RowWritesTyped
    <3>7. settled.status \in Feedback \cup {"gone"}
      <4>1. CASE pending
        BY <2>2, <3>2, <4>1, AcceptedIsSettled DEF Feedback
      <4>2. CASE ~pending BY <1>0, <3>3, <3>4, <4>2 DEF RowType, Status
      <4> QED BY <4>1, <4>2
    <3>8. row.status # "gone" BY <3>1 DEF ProcessAcceptance, Correlated
    <3>9. settled.status \in Feedback
      <4>1. CASE pending BY <2>2, <3>2, <4>1, AcceptedIsSettled DEF Feedback
      <4>2. CASE ~pending BY <3>3, <3>7, <3>8, <4>2
      <4> QED BY <4>1, <4>2
    <3> HIDE DEF settled
    <3>10. {r} \in SUBSET Recipients /\ {r} # {} /\ outcome \in Feedback BY DEF SentLike
    <3>11. outcome # "sent" => Recorded(settled, {r}, outcome, row')
      BY <3>5, <3>6, <3>10, OutcomeRecorded
    <3>12. row'.status \in Feedback BY <3>5, <3>9, <3>11 DEF Recorded
    <3>13. CASE pending BY <1>0, <3>4, <3>12, <3>13, UnsettledKeeps
    <3>14. CASE ~pending
      <4>1. settled = seen BY <3>14 DEF settled
      <4>2. SettledRow(seen, sentEvt) /\ ~LocalFailure(seen) /\ seen.status \in Feedback
        BY <1>0, <3>3, <3>4, <3>9, <3>14, <4>1 DEF SettledRow, LocalFailure
      <4>3. Keeps(seen, row')
        <5>1. CASE outcome = "sent" BY <3>2, <3>5, <4>1, <5>1, SameOutcome
        <5>2. CASE outcome # "sent" BY <1>0, <3>2, <3>10, <3>11, <4>1, <4>2, <5>2, OutcomeKeeps
        <5> QED BY <5>1, <5>2
      <4> QED BY <3>3, <4>3 DEF Keeps
    <3> QED BY <3>13, <3>14
  <2>4. CASE ProcessReject(c)
    <3>1. row.status # "gone" BY <2>4 DEF ProcessReject, Correlated
    <3> DEFINE u == RecordDeliveryOutcome(row, Recipients, "failed")
    <3>2. row' = RecordProviderReject(u) BY <2>4 DEF ProcessReject
    <3>3. /\ row'.status \in {"failed", "bounced", "complained"}
          /\ row'.status = "failed" => row'.source = "provider"
      BY <1>0, <3>1, <3>2, RejectKeepsSettled
    <3>4. Recorded(row, Recipients, "failed", u)
      BY <1>0, OutcomeRecorded, RecipientsAssumption DEF Feedback
    <3>5. row'.status = u.status \/ (row'.status = "failed" /\ u.status \notin {"bounced", "complained"})
      <4> HIDE DEF u
      <4> QED BY <3>2, <3>4 DEF RecordProviderReject, Recorded, RowType
    <3> HIDE DEF u
    <3>6. CASE row.status \in PreSend \/ LocalFailure(row)
      BY <1>0, <3>3, <3>6, UnsettledKeeps DEF Feedback
    <3>7. CASE ~(row.status \in PreSend \/ LocalFailure(row))
      <4>1. row.status \in Feedback /\ ~LocalFailure(row)
        BY <1>0, <3>1, <3>7 DEF RowType, Status
      <4>2. Keeps(row, u)
        BY <1>0, <3>4, <4>1, RecipientsAssumption, OutcomeKeeps DEF Feedback
      <4>3. u.status \in Feedback BY <3>4 DEF Recorded
      <4>4. row.status \in SentLike => rank[row'.status] >= rank[row.status]
        <5> SUFFICES ASSUME row.status \in SentLike PROVE rank[row'.status] >= rank[row.status]
          OBVIOUS
        <5>1. rank[u.status] >= rank[row.status] BY <4>2, <4>3 DEF Keeps, Feedback
        <5>2. CASE row'.status = u.status BY <5>1, <5>2
        <5>3. CASE row'.status = "failed" /\ u.status \notin {"bounced", "complained"}
          <6>1. rank[row.status] \in Nat BY RankValues DEF SentLike, Feedback
          <6>2. rank[u.status] \in Nat /\ rank[u.status] <= 5
            BY <4>3, <5>3, RankValues DEF Feedback
          <6> QED BY <5>1, <5>3, <6>1, <6>2, RankValues
        <5> QED BY <3>5, <5>2, <5>3
      <4> QED BY <3>3, <4>4 DEF Keeps, Feedback
    <3> QED BY <3>6, <3>7
  <2> QED BY <2>1, <2>3, <2>4
<1>6. CASE UNCHANGED rowVars BY <1>1, <1>6 DEF rowVars
<1>7. CASE row.status \notin PreSend /\ ~UNCHANGED rowVars /\ ~Process
  <2>1. \/ row' = [row EXCEPT !.claim = "stale"]
        \/ row' = [NewRow EXCEPT !.status = "gone"]
        \/ row' = row
        \/ ResolveOutboundProviderAccepted(row) = row' /\ ProviderAcceptancePending(row)
    BY <1>7 DEF RowStep, Claimable, Unclaimed, DeferOutboundTerminalFailure,
                PreserveOutboundTerminalFailure, MarkOutboundSentApplies, MarkFailed,
                MarkOutboundFailedApplies, PreSend, rowVars
  <2>2. CASE row' = [row EXCEPT !.claim = "stale"] BY <1>0, <1>1, <2>2 DEF RowType
  <2>3. CASE row' = [NewRow EXCEPT !.status = "gone"] BY <1>3, <2>3 DEF NewRow
  <2> QED BY <1>1, <1>4, <2>1, <2>2, <2>3
<1> QED BY <1>2, <1>5, <1>6, <1>7

\* No late worker, reconciler or notification puts a settled row back, revives
\* a failure the provider confirmed, or lowers the rank of a recorded outcome.
THEOREM OutcomesAreAlwaysKept == Spec => OutcomesAreKept
<1>1. (TypeInv /\ RowInv) /\ [Next]_vars => Keeps(row, row') BY RowSteps, OutcomesStep
<1>2. (TypeInv /\ RowInv) /\ [Next]_vars =>
        [/\ row.status \in Feedback => row'.status \in Feedback \cup {"gone"}
         /\ row.status = "failed" /\ row.source = "provider" =>
              \/ row'.status = "failed" /\ row'.source = "provider"
              \/ row'.status \in {"bounced", "complained", "gone"}
         /\ row.status \in SentLike /\ row'.status # "gone" => rank[row'.status] >= rank[row.status]
        ]_vars
  BY <1>1 DEF Keeps
<1> QED BY <1>2, RowInvariant, PTL DEF Spec, OutcomesAreKept

-----------------------------------------------------------------------------
(* Recipients.                                                             *)

\* RecipientsMonotonic, of the rows w before and v after a step.
Climbs(w, v) == v.status # "gone" => \A r \in Recipients : rank[v.rcpt[r]] >= rank[w.rcpt[r]]

\* The rank of a recipient is a number.
LEMMA RecipientRanks ==
  ASSUME NEW w \in RowType, NEW r \in Recipients
  PROVE  rank[w.rcpt[r]] \in Nat
BY RankValues DEF RowType, Feedback

\* Recipients that stay do not regress.
LEMMA SameRecipients ==
  ASSUME NEW w \in RowType, NEW v, v.rcpt = w.rcpt
  PROVE  Climbs(w, v)
BY RecipientRanks DEF Climbs

\* addSentRecipientRowsTx fills in what is missing and leaves the rest alone.
LEMMA AcceptedClimbs ==
  ASSUME NEW w \in RowType, NEW n \in Nat, NEW v \in {MarkOutboundSent(w, n), ResolveOutboundProviderAccepted(w)}
  PROVE  Climbs(w, v)
<1>1. \A r \in Recipients : v.rcpt[r] = IF w.rcpt[r] = "none" THEN "sent" ELSE w.rcpt[r]
  BY AcceptedIsSettled
<1> QED BY <1>1, RankValues, RecipientRanks DEF Climbs

\* The writes of the claim, the worker's failures and the stale claim leave the
\* recipients alone.
LEMMA WritesLeaveRecipients ==
  ASSUME NEW w \in RowType, NEW source, NEW reason
  PROVE  /\ CancelTrashed(w).rcpt = w.rcpt /\ Claimed(w).rcpt = w.rcpt
         /\ Unclaimed(w).rcpt = w.rcpt /\ DeferOutboundTerminalFailure(w).rcpt = w.rcpt
         /\ PreserveOutboundTerminalFailure(w, source, reason).rcpt = w.rcpt
         /\ MarkOutboundFailed(w, source, reason).rcpt = w.rcpt
         /\ [w EXCEPT !.claim = "stale"].rcpt = w.rcpt
         /\ RecordProviderReject(w).rcpt = w.rcpt
<1>1. CancelTrashed(w).rcpt = w.rcpt /\ Claimed(w).rcpt = w.rcpt /\ [w EXCEPT !.claim = "stale"].rcpt = w.rcpt
  BY DEF CancelTrashed, Claimed, RowType
<1>2. Unclaimed(w).rcpt = w.rcpt /\ DeferOutboundTerminalFailure(w).rcpt = w.rcpt
  BY DEF Unclaimed, DeferOutboundTerminalFailure, RowType
<1>3. PreserveOutboundTerminalFailure(w, source, reason).rcpt = w.rcpt /\ MarkOutboundFailed(w, source, reason).rcpt = w.rcpt
  BY DEF PreserveOutboundTerminalFailure, MarkOutboundFailed, RowType
<1>4. RecordProviderReject(w).rcpt = w.rcpt
  BY DEF RecordProviderReject, RowType
<1> QED BY <1>1, <1>2, <1>3, <1>4

\* A notification of the provider.
LEMMA ProcessClimbs ==
  ASSUME TypeInv, Process
  PROVE  Climbs(row, row')
<1>0. row \in RowType /\ copies \in Nat BY DEF TypeInv, NetType
<1>1. PICK c \in 1..copies :
        \/ \E r \in Recipients, outcome \in SentLike : ProcessAcceptance(c, r, outcome)
        \/ ProcessReject(c)
  BY DEF Process
<1>2. c \in Nat /\ 0 \in Nat /\ "local" \in Sources /\ "cancelled" \in Reasons BY <1>0 DEF Sources, Reasons
<1>3. CASE \E r \in Recipients, outcome \in SentLike : ProcessAcceptance(c, r, outcome)
  <2>1. PICK r \in Recipients, outcome \in SentLike : ProcessAcceptance(c, r, outcome) BY <1>3
  <2> DEFINE seen == RecordProviderAcceptEvidence(row, c)
             settled == IF ProviderAcceptancePending(seen) THEN ResolveOutboundProviderAccepted(seen) ELSE seen
  <2>2. row' = IF outcome = "sent" THEN settled ELSE RecordDeliveryOutcome(settled, {r}, outcome)
    BY <2>1 DEF ProcessAcceptance
  <2>3. seen \in RowType BY <1>0, <1>2, RowWritesTyped
  <2>4. seen.rcpt = row.rcpt BY <1>0 DEF RecordProviderAcceptEvidence, RowType
  <2>5. \A x \in Recipients : row.rcpt[x] = seen.rcpt[x] BY <2>4
  <2> HIDE DEF seen
  <2>6. settled \in RowType BY <1>2, <2>3, RowWritesTyped
  <2>7. \A x \in Recipients : rank[settled.rcpt[x]] >= rank[seen.rcpt[x]]
    <3>1. CASE settled = seen BY <2>3, <3>1, RecipientRanks
    <3>2. CASE settled = ResolveOutboundProviderAccepted(seen)
      <4>1. settled.status = "sent" BY <1>2, <2>3, <3>2, AcceptedIsSettled
      <4>2. Climbs(seen, settled) BY <1>2, <2>3, <3>2, AcceptedClimbs
      <4> QED BY <4>1, <4>2 DEF Climbs
    <3> QED BY <3>1, <3>2
  <2> HIDE DEF settled
  <2>8. \A x \in Recipients : rank[row'.rcpt[x]] >= rank[settled.rcpt[x]] /\ row' \in RowType
    <3>1. CASE outcome = "sent" BY <2>2, <2>6, <3>1, RecipientRanks
    <3>2. CASE outcome # "sent"
      <4>1. {r} \in SUBSET Recipients /\ {r} # {} /\ outcome \in Feedback BY DEF SentLike
      <4>2. Recorded(settled, {r}, outcome, row') BY <2>2, <2>6, <3>2, <4>1, OutcomeRecorded
      <4> QED BY <4>2 DEF Recorded
    <3> QED BY <3>1, <3>2
  <2> SUFFICES ASSUME NEW x \in Recipients PROVE rank[row'.rcpt[x]] >= rank[row.rcpt[x]]
    BY DEF Climbs
  <2>9. rank[row'.rcpt[x]] \in Nat /\ rank[settled.rcpt[x]] \in Nat /\ rank[row.rcpt[x]] \in Nat
    BY <1>0, <2>6, <2>8, RecipientRanks
  <2>10. rank[settled.rcpt[x]] >= rank[row.rcpt[x]] BY <2>5, <2>7
  <2> QED BY <2>8, <2>9, <2>10
<1>4. CASE ProcessReject(c)
  <2> DEFINE u == RecordDeliveryOutcome(row, Recipients, "failed")
  <2>1. row' = RecordProviderReject(u) BY <1>4 DEF ProcessReject
  <2>2. Recorded(row, Recipients, "failed", u)
    BY <1>0, OutcomeRecorded, RecipientsAssumption DEF Feedback
  <2> HIDE DEF u
  <2>3. u \in RowType BY <2>2 DEF Recorded
  <2>4. row'.rcpt = u.rcpt BY <2>1, <2>3, WritesLeaveRecipients
  <2>5. \A x \in Recipients : rank[u.rcpt[x]] >= rank[row.rcpt[x]] BY <2>2 DEF Recorded
  <2> QED BY <2>4, <2>5 DEF Climbs
<1> QED BY <1>1, <1>3, <1>4

\* No write of the row takes a recipient back.
LEMMA RecipientsStep == TypeInv /\ RowStep => Climbs(row, row')
<1> SUFFICES ASSUME TypeInv, RowStep PROVE Climbs(row, row')
  OBVIOUS
<1>0. row \in RowType BY DEF TypeInv
<1>1. CASE row' = row BY <1>0, <1>1, SameRecipients
<1>2. CASE Process BY <1>2, ProcessClimbs
<1>3. CASE row' \in {CancelTrashed(row), Claimed(row), Unclaimed(row), DeferOutboundTerminalFailure(row),
                     [row EXCEPT !.claim = "stale"]}
  <2>1. /\ CancelTrashed(row).rcpt = row.rcpt /\ Claimed(row).rcpt = row.rcpt
        /\ Unclaimed(row).rcpt = row.rcpt /\ DeferOutboundTerminalFailure(row).rcpt = row.rcpt
    BY <1>0, WritesLeaveRecipients
  <2>2. [row EXCEPT !.claim = "stale"].rcpt = row.rcpt BY <1>0 DEF RowType
  <2>3. row'.rcpt = row.rcpt BY <1>3, <2>1, <2>2, Zenon
  <2> QED BY <1>0, <2>3, SameRecipients
<1>4. CASE \E s, t : row' = PreserveOutboundTerminalFailure(row, s, t) \/ row' = MarkOutboundFailed(row, s, t)
  BY <1>0, <1>4, SameRecipients, WritesLeaveRecipients
<1>5. CASE \E n \in Nat : row' = MarkOutboundSent(row, n) \/ row' = ResolveOutboundProviderAccepted(row)
  BY <1>0, <1>5, AcceptedClimbs
<1>6. CASE row' = [NewRow EXCEPT !.status = "gone"] BY <1>6 DEF Climbs, NewRow
<1>7. CASE \E source \in Sources, reason \in Reasons : MarkFailed(source, reason)
  <2>1. \/ row' = row \/ row' = ResolveOutboundProviderAccepted(row)
        \/ \E s, t : row' = MarkOutboundFailed(row, s, t)
    BY <1>7 DEF MarkFailed, rowVars
  <2> QED BY <1>1, <1>4, <1>5, <2>1, 0 \in Nat
<1> QED BY <1>1, <1>2, <1>3, <1>4, <1>5, <1>6, <1>7 DEF RowStep, rowVars

\* RecipientsMonotonic: duplicate and reordered notifications, late workers and
\* the reconciler never lower the recorded outcome of a recipient
\* (RecordDeliveryOutcomeTx, addSentRecipientRowsTx).
THEOREM RecipientsNeverRegress == Spec => RecipientsMonotonic
<1>1. TypeInv /\ [Next]_vars =>
        [row'.status # "gone" => \A r \in Recipients : rank[row'.rcpt[r]] >= rank[row.rcpt[r]]]_vars
  BY RowSteps, RecipientsStep DEF Climbs
<1> QED BY <1>1, RowInvariant, PTL DEF Spec, RecipientsMonotonic
=============================================================================
