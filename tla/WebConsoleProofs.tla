-------------------------- MODULE WebConsoleProofs --------------------------
(***************************************************************************)
(* Theorems about WebConsole, for every set of fields, every number of     *)
(* submissions and of faults, and either setting of on_expiry.             *)
(***************************************************************************)
EXTENDS WebConsole, FiniteSetTheorems, TLAPS

\* The submissions of a decision: one that committed is the one that resolved
\* the hold, with its own verdict, and the handler goes on after its own only.
SubmissionInv ==
  /\ try \in 0..MaxTries
  /\ req \in [Tries -> {"none", "sent", "committed", "refused"}]
  /\ \A n \in Tries : n > try => req[n] = "none"
  /\ call # "idle" => try \in Tries
  /\ call \in {"settling", "done"} => req[try] = "committed"
  /\ Review => \A n \in Tries : req[n] = "committed" =>
                 hold.by = "tab" /\ hold.status = Verdict /\ winner = n

\* Submissions are numbered from one.
LEMMA TriesFact == Tries \subseteq Nat \ {0} /\ MaxTries \in Nat
  BY BoundsAssumption DEF Tries

\* A decision resolves the hold.
LEMMA VerdictIsResolved == Verdict # "pending_review"
  BY DEF Verdict

\* Whoever resolves a hold finds it pending.
LEMMA OthersFindItPending ==
  ASSUME HoldStep(Inbound)
  PROVE  hold' = hold \/ Pending
  BY DEF HoldStep, LoadExpired, ResolveExpired, SweepGivesUp, DecideElsewhere, Transition, ApproveAndAccept

\* No submission has been made at first.
LEMMA SubmissionInit == Init => SubmissionInv
  BY TriesFact DEF Init, SubmissionInv

\* One step per action.
LEMMA SubmissionStep ==
  ASSUME SubmissionInv, [Next]_vars
  PROVE  SubmissionInv'
<1> USE TriesFact, VerdictIsResolved
<1>same. op' = op /\ try' = try /\ call' = call /\ req' = req /\ hold' = hold /\ winner' = winner
         => SubmissionInv'
  BY DEF SubmissionInv, Review, Inbound, Focused, Approving, Verdict
<1>1. ASSUME NEW p \in Visited, Open(p) PROVE SubmissionInv'
  BY <1>1, <1>same DEF Open, scope, holdVars
<1>2. ASSUME NEW k \in Tracked, Loads(k) PROVE SubmissionInv'
  BY <1>2, <1>same DEF Loads, Poll, Focus, Refresh, Answer, Deliver, LoadFails, scope, holdVars, callVars
<1>3. CASE ReviewersStep
  BY <1>3, <1>same DEF ReviewersStep, StartEdit, Type, CancelEdit, scope, holdVars, callVars
<1>4. CASE Submit
  <2>1. try + 1 \in Tries /\ try' = try + 1 /\ req' = [req EXCEPT ![try + 1] = "sent"]
    BY <1>4, BoundsAssumption DEF Submit, SubmissionInv, Tries
  <2>2. op' = op /\ hold' = hold /\ winner' = winner /\ call' = "waiting"
    BY <1>4 DEF Submit, scope, holdVars
  <2> QED
    BY <2>1, <2>2 DEF SubmissionInv, Tries, Review, Inbound, Focused, Approving, Verdict
<1>5. CASE Accepted
  BY <1>5 DEF Accepted, SubmissionInv, Review, Inbound, Focused, Approving, Verdict, scope, holdVars
<1>6. CASE Rejected
  BY <1>6 DEF Rejected, SubmissionInv, Review, Inbound, Focused, Approving, Verdict, scope, holdVars
<1>7. CASE Settle
  BY <1>7 DEF Settle, SubmissionInv, Review, Inbound, Focused, Approving, Verdict, scope, holdVars
<1>8. ASSUME NEW n \in Tries, Commit(n) PROVE SubmissionInv'
  <2>1. op' = op /\ try' = try /\ call' = call /\ req' = [req EXCEPT ![n] = "committed"] /\ req[n] = "sent"
    BY <1>8 DEF Commit, scope
  <2>2. Review => Pending /\ hold'.by = "tab" /\ hold'.status = Verdict /\ winner' = n
    BY <1>8 DEF Commit, ApproveAndAccept, Transition, Verdict
  <2> QED
    BY <2>1, <2>2 DEF SubmissionInv, Pending, Review, Inbound, Focused, Approving, Verdict
<1>9. ASSUME NEW n \in Tries, Refuse(n) PROVE SubmissionInv'
  BY <1>9 DEF Refuse, SubmissionInv, Review, Inbound, Focused, Approving, Verdict, scope, holdVars
<1>10. CASE OthersStep
  <2>1. op' = op /\ try' = try /\ call' = call /\ req' = req /\ winner' = winner
    BY <1>10 DEF OthersStep, scope, callVars
  <2>2. hold' = hold \/ Pending
    BY <1>10, OthersFindItPending DEF OthersStep
  <2> QED
    BY <1>10, <2>1, <2>2 DEF OthersStep, SubmissionInv, Pending, Review, Inbound, Focused, Approving, Verdict
<1>11. CASE UNCHANGED vars
  BY <1>11, <1>same DEF vars, scope, callVars, holdVars
<1> QED
  BY <1>1, <1>2, <1>3, <1>4, <1>5, <1>6, <1>7, <1>8, <1>9, <1>10, <1>11 DEF Next, HandlerStep

\* VerdictHolds: the handler goes on as after a success (handleResolved,
\* refreshAfterMutation) only when its own submission resolved the hold,
\* whatever other reviewers, the expiry sweep and lost answers do.
THEOREM VerdictAlwaysHolds == Spec => []VerdictHolds
<1>1. SubmissionInv => VerdictHolds
  BY DEF SubmissionInv, VerdictHolds
<1> QED
  BY <1>1, SubmissionInit, SubmissionStep, PTL DEF Spec
-----------------------------------------------------------------------------
\* Approvals of a held draft, which carry the reviewer's edits.
Drafting == Review /\ Approving /\ ~Inbound

\* The form is on screen, filled from the loaded message.
FormShown == page = Operation.on /\ shown["messageDetail"] # "none"

EditorStates == [open : BOOLEAN, edited : BOOLEAN, field : [Fields -> {"blank", "draft", "edit"}]]

\* The form on screen holds the draft except where the reviewer has typed, and
\* whatever is not on screen is refilled when it comes back.
EditorInv ==
  /\ watch = "messageDetail"
  /\ shown = [k \in Tracked |-> shown[k]]
  /\ ed \in EditorStates
  /\ typed \subseteq Editable
  /\ typed # {} => ed.edited
  /\ FormShown => \A f \in Fields : ed.field[f] = IF f \in typed THEN "edit" ELSE "draft"
  /\ ~FormShown => ~ed.edited

\* A submission under way carries what its reviewer meant, and the one that
\* resolved the hold left it in the row.
PayloadInv ==
  /\ payload = [n \in Tries |-> payload[n]]
  /\ intent = [n \in Tries |-> intent[n]]
  /\ \A n \in Tries : req[n] = "sent" => Apply(payload[n]) = intent[n]
  /\ hold.by = "tab" => winner \in Tries /\ req[winner] = "committed" /\ hold.text = intent[winner]

\* The two approvals with an editor, the page they run on and where they go.
LEMMA DraftingPages ==
  ASSUME Drafting
  PROVE  /\ op \in {"approveRow", "approveFocus"}
         /\ Operation.on = IF Focused THEN "focus" ELSE "reviewRow"
         /\ Operation.goes # Stay /\ Operation.goes # Operation.on
         /\ Operation.replaced = {}
<1>1. op \in {"approveRow", "approveFocus"}
  BY DEF Drafting, Review, Approving, Inbound, Focused
<1>2. CASE op = "approveRow"
  BY <1>2 DEF Operation, Operations, handleResolved, Changes, Stay, Focused
<1>3. CASE op = "approveFocus"
  BY <1>3 DEF Operation, Operations, refreshAfterMutation, Changes, Stay, Focused
<1> QED
  BY <1>1, <1>2, <1>3

\* The message is held in the SWR cache.
LEMMA MessageIsCached == Views["messageDetail"].swr
  BY DEF Views, getMessageDetailWire, Cached

\* What a draft's fields may hold.
LEMMA DraftFact == Draft \in [Fields -> {"blank", "draft", "edit"}]
  BY DEF Draft

\* Filling the form takes the draft for every field.
LEMMA SeedFact ==
  ASSUME NEW e \in EditorStates
  PROVE  /\ Seed(e) \in EditorStates
         /\ Seed(e).edited = e.edited
         /\ e.edited => Seed(e) = e
         /\ ~e.edited => Seed(e).field = Draft
  BY DraftFact DEF EditorStates, Seed

\* Leaving a page discards what was typed.
LEMMA LeaveFact ==
  ASSUME NEW e \in EditorStates
  PROVE  Leave(e) \in EditorStates /\ ~Leave(e).edited
  BY DEF EditorStates, Leave, Closed

\* A behaviour is about one operation on one view.
LEMMA ScopeIsFixed ==
  ASSUME [Next]_vars
  PROVE  op' = op /\ watch' = watch
<1>1. ASSUME NEW p \in Visited, Open(p) PROVE op' = op /\ watch' = watch
  BY <1>1 DEF Open, scope
<1>2. ASSUME NEW k \in Tracked, Loads(k) PROVE op' = op /\ watch' = watch
  BY <1>2 DEF Loads, Poll, Focus, Refresh, Answer, Deliver, LoadFails, scope
<1>3. CASE ReviewersStep
  BY <1>3 DEF ReviewersStep, StartEdit, Type, CancelEdit, scope
<1>4. CASE HandlerStep
  BY <1>4 DEF HandlerStep, Submit, Accepted, Rejected, Settle, scope
<1>5. ASSUME NEW n \in Tries, Commit(n) \/ Refuse(n) PROVE op' = op /\ watch' = watch
  BY <1>5 DEF Commit, Refuse, scope
<1>6. CASE OthersStep
  BY <1>6 DEF OthersStep, scope
<1>7. CASE UNCHANGED vars
  BY <1>7 DEF vars, scope
<1> QED
  BY <1>1, <1>2, <1>3, <1>4, <1>5, <1>6, <1>7 DEF Next

\* Opening a page empties the editor or fills it from the warm cache.
LEMMA OpeningKeepsEditorInv ==
  ASSUME Drafting, EditorInv, op' = op, watch' = watch, NEW p, NEW f,
         NEW l, p # page \/ p # Operation.on, OpenViews(p, f, l), MoveEditor(p)
  PROVE  EditorInv'
<1>1. Operation' = Operation /\ Tracked' = Tracked /\ Editable' = Editable /\ Review
  BY DEF Drafting, Operation, Tracked, Editable, Review, Inbound, Focused
<1>2. "messageDetail" \in Tracked
  BY DEF EditorInv, Tracked
<1>3. page' = p /\ shown' = [k \in Tracked |-> shown'[k]] /\ shown'["messageDetail"] = shown["messageDetail"]
  BY <1>2, MessageIsCached DEF OpenViews
<1>4. Leave(ed) \in EditorStates /\ ~Leave(ed).edited
  BY LeaveFact DEF EditorInv
<1>5. Seed(Leave(ed)) \in EditorStates /\ ~Seed(Leave(ed)).edited /\ Seed(Leave(ed)).field = Draft
  BY <1>4, SeedFact
<1>6. typed' = {}
  <2>1. CASE p # page
    BY <2>1, <1>1 DEF MoveEditor
  <2>2. CASE p = page
    BY <2>2, <1>1 DEF MoveEditor, EditorInv, FormShown
  <2> QED
    BY <2>1, <2>2
<1>7. CASE p = Operation.on
  <2>1. ed' = IF shown["messageDetail"] = "none" THEN Leave(ed) ELSE Seed(Leave(ed))
    BY <1>1, <1>7 DEF MoveEditor, EditorOn
  <2> QED
    BY <2>1, <1>1, <1>3, <1>4, <1>5, <1>6, <1>7 DEF EditorInv, FormShown, Draft
<1>8. CASE p # Operation.on
  <2>1. ed' = Leave(ed)
    BY <1>1, <1>8 DEF MoveEditor, EditorOn
  <2> QED
    BY <2>1, <1>1, <1>3, <1>4, <1>6, <1>8 DEF EditorInv, FormShown
<1> QED
  BY <1>7, <1>8

\* The editor is closed at first.
LEMMA EditorInit ==
  ASSUME Init, Drafting
  PROVE  EditorInv
<1>1. watch = "messageDetail" /\ shown = [k \in Tracked |-> "none"] /\ ed = Closed /\ typed = {}
  BY DEF Init, Drafting
<1>2. shown["messageDetail"] = "none"
  BY <1>1 DEF Tracked
<1>3. Closed \in EditorStates /\ ~Closed.edited
  BY DEF EditorStates, Closed
<1> QED
  BY <1>1, <1>2, <1>3 DEF EditorInv, FormShown

\* One step per action.
LEMMA EditorStep ==
  ASSUME Drafting, EditorInv, [Next]_vars
  PROVE  EditorInv'
<1>1. op' = op /\ watch' = watch
  BY ScopeIsFixed
<1>2. Operation' = Operation /\ Tracked' = Tracked /\ Editable' = Editable /\ Review
  BY <1>1 DEF Drafting, Operation, Tracked, Editable, Review, Inbound, Focused
<1>same. page' = page /\ shown' = shown /\ ed' = ed /\ typed' = typed => EditorInv'
  BY <1>1, <1>2 DEF EditorInv, FormShown
<1>3. ASSUME NEW p \in Visited, Open(p) PROVE EditorInv'
  BY <1>1, <1>3, OpeningKeepsEditorInv DEF Open
<1>4. ASSUME NEW k \in Tracked, NEW d \in {"old", "new"}, Deliver(k, d) PROVE EditorInv'
  <2>1. shown' = [shown EXCEPT ![k] = d]
    BY <1>4 DEF Deliver
  <2>2. CASE k = "messageDetail" /\ page = Operation.on
    <3>1. page' = page /\ typed' = typed /\ ed' = Seed(ed)
      BY <1>4, <2>2 DEF Deliver
    <3>2. FormShown' /\ shown' = [l \in Tracked |-> shown'[l]]
      BY <1>2, <2>1, <2>2, <3>1 DEF FormShown, EditorInv
    <3>3. CASE ed.edited
      BY <1>1, <1>2, <3>1, <3>2, <3>3, SeedFact DEF EditorInv
    <3>4. CASE ~ed.edited
      BY <1>1, <1>2, <3>1, <3>2, <3>4, SeedFact DEF EditorInv, Draft
    <3> QED
      BY <3>3, <3>4 DEF EditorInv, EditorStates
  <2>3. CASE page' # page /\ ~(k = "messageDetail" /\ page = Operation.on)
    <3>1. page = "reviewRow" /\ page' = "reviews" /\ typed' = {} /\ ed' = Leave(ed)
      BY <1>4, <2>3 DEF Deliver
    <3>2. ~FormShown'
      BY <1>2, <3>1, DraftingPages DEF FormShown
    <3> QED
      BY <1>1, <1>2, <2>1, <3>1, <3>2, LeaveFact DEF EditorInv
  <2>4. CASE page' = page /\ ~(k = "messageDetail" /\ page = Operation.on)
    <3>1. typed' = typed /\ ed' = ed
      BY <1>4, <2>4 DEF Deliver
    <3>2. FormShown' <=> FormShown
      BY <1>2, <2>1, <2>4 DEF FormShown, EditorInv
    <3> QED
      BY <1>1, <1>2, <2>1, <3>1, <3>2 DEF EditorInv
  <2> QED
    BY <2>2, <2>3, <2>4
<1>5. ASSUME NEW k \in Tracked, Poll(k) \/ Focus(k) \/ Answer(k) \/ LoadFails(k) PROVE EditorInv'
  BY <1>5, <1>same DEF Poll, Focus, Refresh, Answer, LoadFails, editVars
<1>6. CASE StartEdit
  <2>1. FormShown /\ FormShown' /\ typed' = typed /\ shown' = shown /\ ed' = [ed EXCEPT !.open = TRUE, !.edited = TRUE]
    BY <1>2, <1>6 DEF StartEdit, Editing, Offered, FormShown, viewVars
  <2> QED
    BY <1>1, <1>2, <2>1 DEF EditorInv, EditorStates
<1>7. ASSUME NEW f \in Fields, Type(f) PROVE EditorInv'
  <2>1. /\ FormShown /\ FormShown' /\ shown' = shown /\ f \in Editable
        /\ typed' = typed \union {f} /\ ed' = [ed EXCEPT !.field[f] = "edit", !.edited = TRUE]
    BY <1>2, <1>7 DEF Type, Editing, Offered, FormShown, viewVars
  <2> QED
    BY <1>1, <1>2, <2>1 DEF EditorInv, EditorStates
<1>8. CASE CancelEdit
  <2>1. FormShown /\ FormShown' /\ shown' = shown
    BY <1>2, <1>8 DEF CancelEdit, Editing, Offered, FormShown, viewVars
  <2>2. CASE Focused
    BY <1>1, <1>2, <1>8, <2>1, <2>2, DraftFact DEF CancelEdit, EditorInv, EditorStates, Closed, Draft
  <2>3. CASE ~Focused
    BY <1>1, <1>2, <1>8, <2>1, <2>3 DEF CancelEdit, EditorInv, EditorStates
  <2> QED
    BY <2>2, <2>3
<1>9. CASE Submit
  BY <1>9, <1>same DEF Submit, viewVars, editVars
<1>10. CASE Accepted
  <2>1. page' = page /\ ed' = ed /\ typed' = typed /\ shown' = [k \in Tracked |-> shown'[k]]
    BY <1>10 DEF Accepted, editVars
  <2>2. shown'["messageDetail"] = "none" <=> shown["messageDetail"] = "none"
    BY <1>10, DraftingPages DEF Accepted, EditorInv, Tracked
  <2> QED
    BY <1>1, <1>2, <2>1, <2>2 DEF EditorInv, FormShown
<1>11. CASE Rejected
  BY <1>11, <1>same DEF Rejected, viewVars, editVars
<1>12. CASE Settle
  <2>1. PICK f, l : OpenViews(Operation.goes, f, l) /\ MoveEditor(Operation.goes)
    BY <1>12, DraftingPages DEF Settle
  <2> QED
    BY <1>1, <2>1, DraftingPages, OpeningKeepsEditorInv
<1>13. ASSUME NEW n \in Tries, Commit(n) \/ Refuse(n) PROVE EditorInv'
  BY <1>13, <1>same DEF Commit, Refuse, viewVars, editVars
<1>14. CASE OthersStep
  BY <1>14, <1>same DEF OthersStep, viewVars, editVars
<1>15. CASE UNCHANGED vars
  BY <1>15, <1>same DEF vars, viewVars, editVars
<1> QED
  BY <1>3, <1>4, <1>5, <1>6, <1>7, <1>8, <1>9, <1>10, <1>11, <1>12, <1>13, <1>14, <1>15
  DEF Next, Loads, ReviewersStep, HandlerStep

\* What a submission carries makes the server store what the reviewer means.
LEMMA DiffMeansWhatWasTyped ==
  ASSUME Drafting, EditorInv, FormShown
  PROVE  Apply(diffApproveEdits) = Meant
<1>1. \A f \in Fields : ed.field[f] = IF f \in typed THEN "edit" ELSE "draft"
  BY DEF EditorInv
<1>2. Editable \subseteq Fields /\ typed \subseteq Editable
  BY DEF EditorInv, Editable
<1>3. ASSUME NEW f \in Fields
      PROVE  Apply(diffApproveEdits)[f] = Meant[f]
  BY <1>1, <1>2, <1>3 DEF Apply, diffApproveEdits, Meant
<1> QED
  BY <1>3 DEF Apply, Meant

\* Nothing is under way at first.
LEMMA PayloadInit == Init => PayloadInv
  BY DEF Init, HoldInit, PayloadInv

\* One step per action.
LEMMA PayloadStep ==
  ASSUME Drafting, SubmissionInv, EditorInv, PayloadInv, [Next]_vars
  PROVE  PayloadInv'
<1> USE TriesFact
<1>same. req' = req /\ payload' = payload /\ intent' = intent /\ hold' = hold /\ winner' = winner => PayloadInv'
  BY DEF PayloadInv, Apply
<1>1. ASSUME NEW p \in Visited, Open(p) PROVE PayloadInv'
  BY <1>1, <1>same DEF Open, holdVars
<1>2. ASSUME NEW k \in Tracked, Loads(k) PROVE PayloadInv'
  BY <1>2, <1>same DEF Loads, Poll, Focus, Refresh, Answer, Deliver, LoadFails, holdVars, callVars
<1>3. CASE ReviewersStep
  BY <1>3, <1>same DEF ReviewersStep, StartEdit, Type, CancelEdit, holdVars, callVars
<1>4. CASE Submit
  <2>1. try + 1 \in Tries /\ req[try + 1] = "none"
    BY <1>4, BoundsAssumption DEF Submit, SubmissionInv, Tries
  <2>2. Apply(diffApproveEdits) = Meant
    BY <1>4, DiffMeansWhatWasTyped DEF Submit, Offered, FormShown, Drafting
  <2>3. /\ req' = [req EXCEPT ![try + 1] = "sent"] /\ hold' = hold /\ winner' = winner
        /\ payload' = [payload EXCEPT ![try + 1] = diffApproveEdits]
        /\ intent' = [intent EXCEPT ![try + 1] = Meant]
    BY <1>4 DEF Submit, holdVars
  <2>4. ASSUME NEW n \in Tries, req'[n] = "sent" PROVE Apply(payload'[n]) = intent'[n]
    <3>1. CASE n = try + 1
      BY <2>1, <2>2, <2>3, <3>1 DEF PayloadInv
    <3>2. CASE n # try + 1
      BY <2>1, <2>3, <2>4, <3>2 DEF PayloadInv, SubmissionInv
    <3> QED
      BY <3>1, <3>2
  <2> QED
    BY <2>1, <2>3, <2>4 DEF PayloadInv, SubmissionInv, Apply
<1>5. CASE Accepted \/ Rejected \/ Settle
  BY <1>5, <1>same DEF Accepted, Rejected, Settle, holdVars
<1>6. ASSUME NEW n \in Tries, Commit(n) PROVE PayloadInv'
  <2>1. /\ req[n] = "sent" /\ req' = [req EXCEPT ![n] = "committed"] /\ intent' = intent /\ winner' = n
        /\ payload' = [payload EXCEPT ![n] = NoEdits] /\ hold'.text = Apply(payload[n])
    BY <1>6 DEF Commit, ApproveAndAccept, Drafting
  <2>2. hold'.text = intent'[n]
    BY <2>1 DEF PayloadInv
  <2> QED
    BY <2>1, <2>2 DEF PayloadInv, SubmissionInv, Apply
<1>7. ASSUME NEW n \in Tries, Refuse(n) PROVE PayloadInv'
  <2>1. /\ req[n] = "sent" /\ req' = [req EXCEPT ![n] = "refused"] /\ hold' = hold /\ winner' = winner
        /\ payload' = [payload EXCEPT ![n] = NoEdits] /\ intent' = [intent EXCEPT ![n] = Draft]
    BY <1>7 DEF Refuse, holdVars
  <2>2. ASSUME NEW i \in Tries, req'[i] = "sent" PROVE Apply(payload'[i]) = intent'[i]
    <3>1. i # n /\ req[i] = "sent"
      BY <2>1, <2>2 DEF SubmissionInv
    <3> QED
      BY <2>1, <3>1 DEF PayloadInv
  <2>3. hold'.by = "tab" => winner' \in Tries /\ req'[winner'] = "committed" /\ hold'.text = intent'[winner']
    BY <2>1 DEF PayloadInv, SubmissionInv
  <2>4. payload' = [i \in Tries |-> payload'[i]] /\ intent' = [i \in Tries |-> intent'[i]]
    BY <2>1 DEF PayloadInv
  <2> QED
    BY <2>2, <2>3, <2>4 DEF PayloadInv, Apply
<1>8. CASE OthersStep
  <2>1. req' = req /\ payload' = payload /\ intent' = intent /\ winner' = winner
    BY <1>8 DEF OthersStep, callVars
  <2>2. hold' = hold \/ hold'.by # "tab"
    BY <1>8 DEF OthersStep, HoldStep, LoadExpired, ResolveExpired, SweepGivesUp, DecideElsewhere,
                Transition, ApproveAndAccept
  <2> QED
    BY <2>1, <2>2 DEF PayloadInv, Apply
<1>9. CASE UNCHANGED vars
  BY <1>9, <1>same DEF vars, callVars, holdVars
<1> QED
  BY <1>1, <1>2, <1>3, <1>4, <1>5, <1>6, <1>7, <1>8, <1>9 DEF Next, HandlerStep

\* SentAsReviewed: a draft approved in this tab goes out as the reviewer meant
\* it, whatever the cache, the reloads, the editor (PendingRow, the message's
\* page) and repeated submissions did.
THEOREM AlwaysSentAsReviewed == Spec => []SentAsReviewed
<1> DEFINE Inv == SubmissionInv /\ (Drafting => EditorInv /\ PayloadInv)
<1>1. Init => Inv
  BY SubmissionInit, EditorInit, PayloadInit
<1>2. Inv /\ [Next]_vars => Inv'
  <2> SUFFICES ASSUME Inv, [Next]_vars PROVE Inv'
    OBVIOUS
  <2>1. Drafting' <=> Drafting
    BY ScopeIsFixed DEF Drafting, Review, Approving, Inbound, Focused
  <2> QED
    BY <2>1, SubmissionStep, EditorStep, PayloadStep
<1>3. Inv => SentAsReviewed
  BY DEF PayloadInv, SentAsReviewed, Drafting
<1> QED
  BY <1>1, <1>2, <1>3, PTL DEF Spec
-----------------------------------------------------------------------------
(* The tables of ConsolePages.                                             *)

\* The views.
LEMMA ViewNames ==
  DOMAIN Views = {"agents", "domains", "deletedAgents", "pending", "accountUnread", "agentUnread",
                  "agentMessages", "agentTrash", "protection", "messageDetail", "limits", "plan",
                  "webhooks", "apiKeys", "templates", "template", "user"}
  BY DEF Views

\* The pages.
LEMMA PageNames ==
  DOMAIN Pages = {"inboxes", "inbox", "focus", "inboxTrash", "inboxSettings", "reviews", "reviewRow", "trash",
                  "domains", "webhooks", "apiKeys", "templates", "templateEdit", "billing", "settings", "getStarted"}
  BY DEF Pages

\* A view is loaded by one of two disciplines, and a failed load is repeated at
\* most ErrorRetries times.
Loading(v) == v.swr \in BOOLEAN /\ v.retries \in 0..ErrorRetries

\* The two disciplines.
LEMMA CachedLoading ==
  ASSUME NEW polled
  PROVE  Loading(Cached(polled, ErrorRetries)) /\ Loading(Cached(polled, 0)) /\ Loading(ByHand)
  BY DEF Loading, Cached, ByHand, ErrorRetries

\* Every view follows one of them.
LEMMA ViewsFact ==
  ASSUME NEW k \in DOMAIN Views
  PROVE  Loading(Views[k])
<1>1. /\ Loading(listAgents) /\ Loading(listDomains) /\ Loading(listDeletedAgents) /\ Loading(listPendingMessages)
      /\ Loading(loadUnreadCount) /\ Loading(getInboxUnread) /\ Loading(listAgentMessages) /\ Loading(listAgentTrash)
      /\ Loading(getProtection) /\ Loading(getMessageDetailWire) /\ Loading(fetchLimits) /\ Loading(fetchPlan)
      /\ Loading(refreshWebhooks) /\ Loading(fetchKeys) /\ Loading(fetchAllTemplates) /\ Loading(loadTemplate)
      /\ Loading(AuthProvider)
  <2> DEFINE yes == TRUE
             no == FALSE
  <2>1. /\ Loading(Cached(yes, ErrorRetries)) /\ Loading(Cached(no, ErrorRetries)) /\ Loading(Cached(no, 0))
        /\ Loading(ByHand)
    <3> HIDE DEF yes, no
    <3> QED
      BY CachedLoading
  <2> QED
    BY <2>1 DEF listAgents, listDomains, listDeletedAgents, listPendingMessages, loadUnreadCount,
     getInboxUnread, listAgentMessages, listAgentTrash, getProtection, getMessageDetailWire, fetchLimits, fetchPlan,
     refreshWebhooks, fetchKeys, fetchAllTemplates, loadTemplate, AuthProvider
<1> QED
  BY <1>1, ViewNames DEF Views

\* An operation is offered on a page, leads to one or stays, and changes views.
Placed(o) ==
  /\ o.on \in DOMAIN Pages
  /\ o.goes \in DOMAIN Pages \union {Stay}
  /\ o.changes \subseteq DOMAIN Views

\* An operation as the table writes it.
LEMMA ChangesPlaced ==
  ASSUME NEW p \in DOMAIN Pages, NEW c \in SUBSET DOMAIN Views, NEW f, NEW a, NEW t, NEW r,
         NEW g \in DOMAIN Pages \union {Stay}
  PROVE  /\ Placed(Changes(p, c))
         /\ Placed([Changes(p, c) EXCEPT !.first = f])
         /\ Placed([Changes(p, c) EXCEPT !.replaced = r])
         /\ Placed([Changes(p, c) EXCEPT !.goes = g])
         /\ Placed([Changes(p, c) EXCEPT !.first = f, !.goes = g])
         /\ Placed([Changes(p, c) EXCEPT !.first = f, !.awaits = a])
         /\ Placed([Changes(p, c) EXCEPT !.first = f, !.awaits = a, !.then = t])
         /\ Placed([Changes(p, c) EXCEPT !.first = f, !.awaits = a, !.goes = g])
         /\ Placed([Changes(p, c) EXCEPT !.first = f, !.awaits = a, !.then = t, !.goes = g])
<1> USE DEF Placed, Changes
<1>1. Placed(Changes(p, c)) /\ Placed([Changes(p, c) EXCEPT !.first = f]) /\ Placed([Changes(p, c) EXCEPT !.replaced = r])
  OBVIOUS
<1>2. Placed([Changes(p, c) EXCEPT !.goes = g]) /\ Placed([Changes(p, c) EXCEPT !.first = f, !.goes = g])
  OBVIOUS
<1>3. /\ Placed([Changes(p, c) EXCEPT !.first = f, !.awaits = a])
      /\ Placed([Changes(p, c) EXCEPT !.first = f, !.awaits = a, !.then = t])
  OBVIOUS
<1>4. /\ Placed([Changes(p, c) EXCEPT !.first = f, !.awaits = a, !.goes = g])
      /\ Placed([Changes(p, c) EXCEPT !.first = f, !.awaits = a, !.then = t, !.goes = g])
  OBVIOUS
<1> QED
  BY <1>1, <1>2, <1>3, <1>4 
\* Every operation of the table.
LEMMA OperationsPlaced == \A o \in DOMAIN Operations : Placed(Operations[o])
<1>1. Placed(handleCreateWebhook)
  BY ChangesPlaced, ViewNames, PageNames DEF handleCreateWebhook
<1>2. Placed(handleDeleteWebhook)
  BY ChangesPlaced, ViewNames, PageNames DEF handleDeleteWebhook
<1>3. Placed(handleRotateWebhook)
  BY ChangesPlaced, ViewNames, PageNames DEF handleRotateWebhook
<1>4. Placed(handleCreateKey)
  BY ChangesPlaced, ViewNames, PageNames DEF handleCreateKey
<1>5. Placed(handleDeleteKey)
  BY ChangesPlaced, ViewNames, PageNames DEF handleDeleteKey
<1>6. Placed(handleDeleteTemplate)
  BY ChangesPlaced, ViewNames, PageNames DEF handleDeleteTemplate
<1>7. Placed(handleSaveTemplate)
  BY ChangesPlaced, ViewNames, PageNames DEF handleSaveTemplate
<1>8. Placed(createFromStarter)
  BY ChangesPlaced, ViewNames, PageNames DEF createFromStarter
<1>9. Placed(handleSaveName)
  BY ChangesPlaced, ViewNames, PageNames DEF handleSaveName
<1>10. Placed(addDomain)
  BY ChangesPlaced, ViewNames, PageNames DEF addDomain
<1>11. Placed(handleVerifyDomain)
  BY ChangesPlaced, ViewNames, PageNames DEF handleVerifyDomain
<1>12. Placed(handleDeleteDomain)
  BY ChangesPlaced, ViewNames, PageNames DEF handleDeleteDomain
<1>13. Placed(onboardDomain)
  BY ChangesPlaced, ViewNames, PageNames DEF onboardDomain
<1>14. Placed(onboardVerify)
  BY ChangesPlaced, ViewNames, PageNames DEF onboardVerify
<1>15. Placed(createSharedAgent)
  BY ChangesPlaced, ViewNames, PageNames DEF createSharedAgent
<1>16. Placed(createCustomAgent)
  BY ChangesPlaced, ViewNames, PageNames DEF createCustomAgent
<1>17. Placed(sendTestEmail)
  BY ChangesPlaced, ViewNames, PageNames DEF sendTestEmail
<1>18. Placed(onEditorSaved)
  BY ChangesPlaced, ViewNames, PageNames DEF onEditorSaved
<1>19. Placed(onDeleteAgent)
  BY ChangesPlaced, ViewNames, PageNames DEF onDeleteAgent
<1>20. Placed(onDeleteMessage)
  BY ChangesPlaced, ViewNames, PageNames DEF onDeleteMessage
<1>21. Placed(openMessage)
  BY ChangesPlaced, ViewNames, PageNames DEF openMessage
<1>22. Placed(postBilling)
  BY ChangesPlaced, ViewNames, PageNames DEF postBilling
<1>23. Placed(refreshAfterMutation)
  BY ChangesPlaced, ViewNames, PageNames DEF refreshAfterMutation
<1>24. Placed(restoreAgent)
  BY ChangesPlaced, ViewNames, PageNames DEF restoreAgent, runAgentTrash
<1>25. Placed(permanentDeleteAgent)
  BY ChangesPlaced, ViewNames, PageNames DEF permanentDeleteAgent, runAgentTrash
<1>26. Placed(restoreMessage)
  BY ChangesPlaced, ViewNames, PageNames DEF restoreMessage, runMessageTrash
<1>27. Placed(purgeMessage)
  BY ChangesPlaced, ViewNames, PageNames DEF purgeMessage, runMessageTrash
<1>28. Placed(handleResolved({}))
  BY ChangesPlaced, ViewNames, PageNames DEF handleResolved
<1>29. Placed(handleResolved({"accountUnread", "agentUnread"}))
  BY ChangesPlaced, ViewNames, PageNames DEF handleResolved
<1>30. \A o \in {"createWebhook", "deleteWebhook", "rotateWebhookSecret", "createApiKey", "deleteApiKey", "deleteTemplate", "updateTemplate", "createTemplate", "updateName"} : Placed(Operations[o])
  BY <1>1, <1>2, <1>3, <1>4, <1>5, <1>6, <1>7, <1>8, <1>9 DEF Operations
<1>31. \A o \in {"addDomain", "verifyDomain", "deleteDomain", "onboardDomain", "onboardVerify", "createSharedAgent", "createCustomAgent", "testAgent", "setProtection"} : Placed(Operations[o])
  BY <1>10, <1>11, <1>12, <1>13, <1>14, <1>15, <1>16, <1>17, <1>18 DEF Operations
<1>32. \A o \in {"deleteAgent", "restoreAgent", "permanentDeleteAgent", "deleteMessage", "restoreMessage", "purgeMessage", "openMessage", "checkout"} : Placed(Operations[o])
  BY <1>19, <1>20, <1>21, <1>22, <1>24, <1>25, <1>26, <1>27 DEF Operations
<1>33. \A o \in {"approveRow", "rejectRow", "approveInboundRow", "approveFocus", "rejectFocus"} : Placed(Operations[o])
  BY <1>23, <1>28, <1>29 DEF Operations
<1>34. DOMAIN Operations = {"createWebhook", "deleteWebhook", "rotateWebhookSecret", "createApiKey", "deleteApiKey", "deleteTemplate", "updateTemplate", "createTemplate", "updateName"}
         \union {"addDomain", "verifyDomain", "deleteDomain", "onboardDomain", "onboardVerify", "createSharedAgent", "createCustomAgent", "testAgent", "setProtection"}
         \union {"deleteAgent", "restoreAgent", "permanentDeleteAgent", "deleteMessage", "restoreMessage", "purgeMessage", "openMessage", "checkout"}
         \union {"approveRow", "rejectRow", "approveInboundRow", "approveFocus", "rejectFocus"}
  BY DEF Operations
<1> QED
  BY <1>30, <1>31, <1>32, <1>33, <1>34
-----------------------------------------------------------------------------
(* Types.                                                                  *)

\* At most one load.
Single(loads) == \A x, y \in loads : x = y

States == {"asked", "old", "new"}

\* The loads of the followed views, on whatever page.
LoadInv ==
  /\ shown \in [Tracked -> {"none", "old", "new"}]
  /\ fetch \in [Tracked -> SUBSET States]
  /\ tries \in [Tracked -> 0..ErrorRetries]
  /\ last \in [Tracked -> {"none", "made", "error"}]
  /\ \A k \in Tracked : Views[k].swr => Single(fetch[k])

\* The operation, the page, the handler, the held message and the editor.
TabInv ==
  /\ op \in DOMAIN Operations /\ watch \in DOMAIN Views /\ page \in DOMAIN Pages
  /\ overrun \in BOOLEAN /\ left \in BOOLEAN
  /\ call \in {"idle", "waiting", "settling", "done", "failed"}
  /\ winner \in 0..MaxTries /\ faults \in 0..MaxFaults
  /\ hold.status \in Resolved \union {"pending_review"}
  /\ ed \in EditorStates /\ typed \subseteq Fields

\* The operation and the views that are followed.
LEMMA TrackedFact ==
  ASSUME TabInv
  PROVE  /\ Tracked \subseteq DOMAIN Views
         /\ Operation.on \in DOMAIN Pages /\ Operation.goes \in DOMAIN Pages \union {Stay}
<1>1. Tracked \subseteq DOMAIN Views
  BY ViewNames DEF TabInv, Tracked
<1>2. Placed(Operation)
  BY OperationsPlaced DEF TabInv, Operation
<1> QED
  BY <1>1, <1>2 DEF Placed

\* The followed views stay the same.
LEMMA TrackedIsFixed ==
  ASSUME op' = op, watch' = watch
  PROVE  Tracked' = Tracked /\ Operation' = Operation
  BY DEF Tracked, Operation, Review, Inbound, Focused

\* What the API answers is a state of the data.
LEMMA DataFact == Data \in {"old", "new"}
  BY DEF Data

\* A page that opens starts at most one load of a cached view.
LEMMA OpeningKeepsLoads ==
  ASSUME LoadInv, TabInv, op' = op, watch' = watch, tries' = tries, NEW p, NEW f \in [Tracked -> SUBSET States],
         NEW l \in [Tracked -> {"none", "made", "error"}],
         \A k \in Tracked : Views[k].swr => Single(f[k]), OpenViews(p, f, l)
  PROVE  LoadInv'
<1>1. Tracked' = Tracked
  BY TrackedIsFixed
<1>2. shown' \in [Tracked -> {"none", "old", "new"}]
  BY DEF OpenViews, LoadInv
<1>3. last' \in [Tracked -> {"none", "made", "error"}]
  BY DEF OpenViews
<1>4. ASSUME NEW k \in Tracked
      PROVE  fetch'[k] \in {Revalidated(k, f[k]), {"asked"}, f[k], {}}
  BY <1>4, Zenon DEF OpenViews
<1>5. DOMAIN fetch' = Tracked /\ fetch' = [k \in Tracked |-> fetch'[k]]
  BY DEF OpenViews
<1>6. ASSUME NEW k \in Tracked
      PROVE  fetch'[k] \in SUBSET States /\ (Views[k].swr => Single(fetch'[k]))
  BY <1>4, <1>6 DEF Revalidated, Single, States
<1>7. fetch' \in [Tracked -> SUBSET States]
  BY <1>5, <1>6
<1> QED
  BY <1>1, <1>2, <1>3, <1>6, <1>7 DEF LoadInv

\* A handler that asks for a view again leaves one load of it.
LEMMA InvalidatedFact ==
  ASSUME NEW k, NEW loads \in SUBSET States, Views[k].swr => Single(loads)
  PROVE  Invalidated(k, loads) \in SUBSET States /\ (Views[k].swr => Single(Invalidated(k, loads)))
  BY DEF Invalidated, Single, States

\* A load that was forgotten was made again or not at all.
LEMMA ForgottenFact ==
  ASSUME LoadInv, NEW ks
  PROVE  Forgotten(ks) \in [Tracked -> {"none", "made", "error"}]
  BY DEF Forgotten, LoadInv

\* The first loads are those of the layout.
LEMMA LoadInit == Init => LoadInv
<1> SUFFICES ASSUME Init PROVE LoadInv
  OBVIOUS
<1>1. /\ shown = [k \in Tracked |-> "none"] /\ tries = [k \in Tracked |-> 0]
      /\ last = [k \in Tracked |-> IF k \in AppLayout THEN "made" ELSE "none"]
      /\ fetch = [k \in Tracked |-> IF k \in AppLayout THEN {"asked"} ELSE {}]
  BY DEF Init
<1> QED
  BY <1>1 DEF LoadInv, Single, States, ErrorRetries

\* One step per action.
LEMMA LoadStep ==
  ASSUME LoadInv, TabInv, [Next]_vars
  PROVE  LoadInv'
<1>1. op' = op /\ watch' = watch
  BY ScopeIsFixed
<1>2. Tracked' = Tracked /\ Operation' = Operation
  BY <1>1, TrackedIsFixed
<1>same. shown' = shown /\ fetch' = fetch /\ tries' = tries /\ last' = last => LoadInv'
  BY <1>2 DEF LoadInv
<1>3. ASSUME NEW p \in Visited, Open(p) PROVE LoadInv'
  <2>1. OpenViews(p, fetch, last) /\ tries' = tries
    BY <1>3 DEF Open
  <2>2. /\ fetch \in [Tracked -> SUBSET States] /\ last \in [Tracked -> {"none", "made", "error"}]
        /\ \A k \in Tracked : Views[k].swr => Single(fetch[k])
    BY DEF LoadInv
  <2> QED
    BY <1>1, <2>1, <2>2, OpeningKeepsLoads
<1>4. ASSUME NEW k \in Tracked, Refresh(k) PROVE LoadInv'
  <2>1. /\ fetch' = [fetch EXCEPT ![k] = {"asked"}] /\ tries' = [tries EXCEPT ![k] = 0]
        /\ shown' = shown /\ last' = last
    BY <1>4 DEF Refresh, Revalidated, LoadInv
  <2> QED
    BY <1>2, <2>1 DEF LoadInv, Single, States, ErrorRetries
<1>5. ASSUME NEW k \in Tracked, Answer(k) PROVE LoadInv'
  <2> DEFINE F == (fetch[k] \ {"asked"}) \union {Data}
  <2>1. "asked" \in fetch[k] /\ fetch' = [fetch EXCEPT ![k] = F] /\ shown' = shown /\ last' = last /\ tries' = tries
    BY <1>5 DEF Answer, LoadInv
  <2>2. F \in SUBSET States /\ (Views[k].swr => Single(F))
    BY <2>1, DataFact DEF LoadInv, Single, States
  <2> HIDE DEF F
  <2> QED
    BY <1>2, <2>1, <2>2 DEF LoadInv
<1>6. ASSUME NEW k \in Tracked, NEW d \in {"old", "new"}, Deliver(k, d) PROVE LoadInv'
  <2> DEFINE F == fetch[k] \ {d}
             G == IF last[k] = "error" /\ ~Views[k].swr /\ d = "old" THEN "error" ELSE "made"
  <2>1. /\ fetch' = [fetch EXCEPT ![k] = F] /\ shown' = [shown EXCEPT ![k] = d]
        /\ last' = [last EXCEPT ![k] = G] /\ tries' = [tries EXCEPT ![k] = 0]
    BY <1>6 DEF Deliver, LoadInv
  <2>2. F \in SUBSET States /\ (Views[k].swr => Single(F))
    BY DEF LoadInv, Single, States
  <2>3. G \in {"none", "made", "error"}
    OBVIOUS
  <2> HIDE DEF F, G
  <2> QED
    BY <1>2, <2>1, <2>2, <2>3 DEF LoadInv, ErrorRetries
<1>7. ASSUME NEW k \in Tracked, LoadFails(k) PROVE LoadInv'
  <2>1. k \in DOMAIN Views
    BY TrackedFact
  <2>2. Retries(k) \in 0..ErrorRetries
    BY <2>1, ViewsFact DEF Retries, Loading, ErrorRetries
  <2>3. shown' = shown
    BY <1>7 DEF LoadFails
  <2>4. ASSUME tries[k] < Retries(k), fetch' = [fetch EXCEPT ![k] = {"asked"}],
               tries' = [tries EXCEPT ![k] = @ + 1], last' = last
        PROVE  LoadInv'
    <3>1. tries' = [tries EXCEPT ![k] = tries[k] + 1]
      BY <2>4 DEF LoadInv
    <3>2. tries[k] + 1 \in 0..ErrorRetries
      BY <2>2, <2>4 DEF LoadInv, ErrorRetries
    <3> QED
      BY <1>2, <2>3, <2>4, <3>1, <3>2 DEF LoadInv, Single, States
  <2>5. ASSUME NEW x \in fetch[k], fetch' = [fetch EXCEPT ![k] = @ \ {x}],
               last' = [last EXCEPT ![k] = "error"], tries' = tries
        PROVE  LoadInv'
    <3>1. fetch' = [fetch EXCEPT ![k] = fetch[k] \ {x}]
      BY <2>5 DEF LoadInv
    <3> QED
      BY <1>2, <2>3, <2>5, <3>1 DEF LoadInv, Single, States
  <2> QED
    BY <1>7, <2>4, <2>5 DEF LoadFails
<1>8. CASE ReviewersStep
  BY <1>8, <1>same DEF ReviewersStep, StartEdit, Type, CancelEdit, viewVars
<1>9. CASE Submit \/ Rejected
  BY <1>9, <1>same DEF Submit, Rejected, viewVars
<1>10. CASE Accepted
  <2>1. shown' \in [Tracked -> {"none", "old", "new"}] /\ last' \in [Tracked -> {"none", "made", "error"}]
    BY <1>10, ForgottenFact DEF Accepted, LoadInv
  <2>2. tries' \in [Tracked -> 0..ErrorRetries]
    BY <1>10 DEF Accepted, LoadInv, ErrorRetries
  <2>3. fetch' = [k \in Tracked |-> IF k \in Operation.first THEN Invalidated(k, fetch[k]) ELSE fetch[k]]
    BY <1>10 DEF Accepted
  <2>4. ASSUME NEW k \in Tracked
        PROVE  fetch'[k] \in SUBSET States /\ (Views[k].swr => Single(fetch'[k]))
    BY <2>3, <2>4, InvalidatedFact DEF LoadInv
  <2>5. fetch' \in [Tracked -> SUBSET States]
    BY <2>3, <2>4
  <2> QED
    BY <1>2, <2>1, <2>2, <2>4, <2>5 DEF LoadInv
<1>11. CASE Settle
  <2> DEFINE after == [k \in Tracked |-> IF k \in Operation.then THEN Invalidated(k, fetch[k]) ELSE fetch[k]]
             p == IF Operation.goes = Stay THEN page ELSE Operation.goes
             l == Forgotten(Operation.then)
  <2>1. OpenViews(p, after, l) /\ tries' = tries
    BY <1>11 DEF Settle
  <2>2. ASSUME NEW k \in Tracked
        PROVE  after[k] \in SUBSET States /\ (Views[k].swr => Single(after[k]))
    BY <2>2, InvalidatedFact DEF LoadInv
  <2>3. after \in [Tracked -> SUBSET States] /\ \A k \in Tracked : Views[k].swr => Single(after[k])
    BY <2>2
  <2>4. l \in [Tracked -> {"none", "made", "error"}]
    BY ForgottenFact
  <2> HIDE DEF after, p, l
  <2> QED
    BY <1>1, <2>1, <2>3, <2>4, OpeningKeepsLoads
<1>12. ASSUME NEW n \in Tries, Commit(n) \/ Refuse(n) PROVE LoadInv'
  BY <1>12, <1>same DEF Commit, Refuse, viewVars
<1>13. CASE OthersStep
  BY <1>13, <1>same DEF OthersStep, viewVars
<1>14. CASE UNCHANGED vars
  BY <1>14, <1>same DEF vars, viewVars
<1> QED
  BY <1>3, <1>4, <1>5, <1>6, <1>7, <1>8, <1>9, <1>10, <1>11, <1>12, <1>13, <1>14
  DEF Next, Loads, Poll, Focus, HandlerStep

\* At first nothing is open, asked or decided.
LEMMA TabInit == Init => TabInv
<1> SUFFICES ASSUME Init PROVE TabInv
  OBVIOUS
<1>1. op \in DOMAIN Operations /\ watch \in DOMAIN Views
  <2>1. Placed(Operation)
    BY OperationsPlaced DEF Init, Operation
  <2> QED
    BY <2>1, ViewNames DEF Init, Placed
<1>2. page \in DOMAIN Pages
  BY PageNames DEF Init
<1>3. Closed \in EditorStates
  BY DEF EditorStates, Closed
<1>4. hold.status \in Resolved \union {"pending_review"}
  BY DEF Init, HoldInit
<1>5. overrun \in BOOLEAN /\ left \in BOOLEAN /\ call = "idle" /\ winner = 0 /\ faults = 0 /\ ed = Closed /\ typed = {}
  BY DEF Init
<1>6. 0 \in 0..MaxTries /\ 0 \in 0..MaxFaults
  BY BoundsAssumption
<1> QED
  BY <1>1, <1>2, <1>3, <1>4, <1>5, <1>6 DEF TabInv

\* Moving to a page keeps the editor an editor.
LEMMA MovingKeepsEditor ==
  ASSUME TabInv, NEW p, MoveEditor(p)
  PROVE  ed' \in EditorStates /\ typed' \subseteq Fields
<1>1. ed \in EditorStates /\ Leave(ed) \in EditorStates
  BY LeaveFact DEF TabInv
<1>2. Seed(Leave(ed)) \in EditorStates
  BY <1>1, SeedFact
<1>3. ed' \in {ed, Leave(ed), Seed(Leave(ed))}
  BY DEF MoveEditor, EditorOn
<1> QED
  BY <1>1, <1>2, <1>3 DEF MoveEditor, TabInv

\* The pages of a behaviour are pages.
LEMMA VisitedFact ==
  ASSUME TabInv
  PROVE  Visited \subseteq DOMAIN Pages
  BY TrackedFact, PageNames DEF Visited

\* One step per action.
LEMMA TabStep ==
  ASSUME TabInv, [Next]_vars
  PROVE  TabInv'
<1>1. op' = op /\ watch' = watch
  BY ScopeIsFixed
<1>same. /\ page' \in DOMAIN Pages /\ overrun' \in BOOLEAN /\ left' \in BOOLEAN
         /\ call' \in {"idle", "waiting", "settling", "done", "failed"}
         /\ winner' \in 0..MaxTries /\ faults' \in 0..MaxFaults
         /\ hold'.status \in Resolved \union {"pending_review"}
         /\ ed' \in EditorStates /\ typed' \subseteq Fields
         => TabInv'
  BY <1>1 DEF TabInv
<1>3. ASSUME NEW p \in Visited, Open(p) PROVE TabInv'
  <2>1. page' = p /\ overrun' = overrun /\ call' = call /\ winner' = winner /\ faults' = faults /\ hold' = hold
    BY <1>3 DEF Open, OpenViews, holdVars
  <2>2. left' \in BOOLEAN
    BY <1>3 DEF Open
  <2>3. ed' \in EditorStates /\ typed' \subseteq Fields
    BY <1>3, MovingKeepsEditor DEF Open
  <2> QED
    BY <1>same, <2>1, <2>2, <2>3, VisitedFact DEF TabInv
<1>4. ASSUME NEW k \in Tracked, Poll(k) \/ Focus(k) \/ Answer(k) PROVE TabInv'
  BY <1>4, <1>same DEF TabInv, Poll, Focus, Refresh, Answer, editVars, callVars, holdVars
<1>5. ASSUME NEW k \in Tracked, NEW d \in {"old", "new"}, Deliver(k, d) PROVE TabInv'
  <2>1. left' = left /\ call' = call /\ winner' = winner /\ faults' = faults /\ hold' = hold
    BY <1>5 DEF Deliver, callVars, holdVars
  <2>2. overrun' \in BOOLEAN
    BY <1>5 DEF Deliver
  <2>3. page' \in DOMAIN Pages
    BY <1>5, PageNames DEF Deliver, TabInv
  <2>4. ed' \in {ed, Seed(ed), Leave(ed)}
    BY <1>5 DEF Deliver
  <2>5. ed' \in EditorStates
    BY <2>4, SeedFact, LeaveFact DEF TabInv
  <2>6. typed' \subseteq Fields
    BY <1>5 DEF Deliver, TabInv
  <2> QED
    BY <1>same, <2>1, <2>2, <2>3, <2>5, <2>6 DEF TabInv
<1>6. ASSUME NEW k \in Tracked, LoadFails(k) PROVE TabInv'
  <2>1. /\ page' = page /\ overrun' = overrun /\ ed' = ed /\ typed' = typed /\ left' = left /\ call' = call
        /\ winner' = winner /\ hold' = hold
    BY <1>6 DEF LoadFails, editVars, callVars, holdVars
  <2>2. faults' \in 0..MaxFaults
    BY <1>6, BoundsAssumption DEF LoadFails, TabInv
  <2> QED
    BY <1>same, <2>1, <2>2 DEF TabInv
<1>7. CASE ReviewersStep
  <2>1. /\ page' = page /\ overrun' = overrun /\ left' = left /\ call' = call
        /\ winner' = winner /\ hold' = hold /\ faults' = faults
    BY <1>7 DEF ReviewersStep, StartEdit, Type, CancelEdit, viewVars, callVars, holdVars
  <2>2. typed' \subseteq Fields
    <3>1. ASSUME NEW f \in Fields, Type(f) PROVE typed' \subseteq Fields
      BY <3>1 DEF Type, TabInv
    <3>2. ASSUME StartEdit \/ CancelEdit PROVE typed' \subseteq Fields
      BY <3>2 DEF StartEdit, CancelEdit, TabInv
    <3> QED
      BY <1>7, <3>1, <3>2 DEF ReviewersStep
  <2>3. ASSUME StartEdit PROVE ed' \in EditorStates
    BY <2>3 DEF StartEdit, TabInv, EditorStates
  <2>4. ASSUME NEW f \in Fields, Type(f) PROVE ed' \in EditorStates
    BY <2>4 DEF Type, TabInv, EditorStates
  <2>5. ASSUME CancelEdit PROVE ed' \in EditorStates
    <3>1. Closed \in EditorStates
      BY DEF Closed, EditorStates
    <3>2. [Closed EXCEPT !.field = Draft] \in EditorStates
      BY <3>1, DraftFact DEF EditorStates
    <3>3. [ed EXCEPT !.open = FALSE] \in EditorStates
      BY DEF TabInv, EditorStates
    <3> QED
      BY <2>5, <3>2, <3>3 DEF CancelEdit
  <2>6. ed' \in EditorStates
    BY <1>7, <2>3, <2>4, <2>5 DEF ReviewersStep
  <2> QED
    BY <1>same, <2>1, <2>2, <2>6 DEF TabInv
<1>8. CASE Submit
  BY <1>8, <1>same DEF Submit, TabInv, viewVars, editVars, holdVars
<1>9. CASE Accepted
  BY <1>9, <1>same DEF Accepted, TabInv, editVars, holdVars
<1>10. CASE Rejected
  <2>1. faults' \in 0..MaxFaults
    BY <1>10, BoundsAssumption DEF Rejected, TabInv
  <2> QED
    BY <1>10, <1>same, <2>1 DEF Rejected, TabInv, viewVars, editVars, holdVars
<1>11. CASE Settle
  <2> DEFINE p == IF Operation.goes = Stay THEN page ELSE Operation.goes
  <2>1. p \in DOMAIN Pages
    BY TrackedFact DEF TabInv
  <2>2. page' = p /\ MoveEditor(p) /\ call' = "done"
    BY <1>11 DEF Settle, OpenViews
  <2>3. overrun' = overrun /\ left' = left /\ winner' = winner /\ faults' = faults /\ hold' = hold
    BY <1>11 DEF Settle, holdVars
  <2> HIDE DEF p
  <2>4. ed' \in EditorStates /\ typed' \subseteq Fields
    BY <2>2, MovingKeepsEditor
  <2> QED
    BY <1>same, <2>1, <2>2, <2>3, <2>4 DEF TabInv
<1>12. ASSUME NEW n \in Tries, Commit(n) PROVE TabInv'
  <2>1. /\ page' = page /\ overrun' = overrun /\ left' = left /\ call' = call /\ faults' = faults
        /\ ed' = ed /\ typed' = typed
    BY <1>12 DEF Commit, viewVars, editVars
  <2>2. winner' \in 0..MaxTries
    BY <1>12, TriesFact DEF Commit, TabInv, Tries
  <2>3. hold'.status \in Resolved \union {"pending_review"}
    BY <1>12 DEF Commit, ApproveAndAccept, Transition, Verdict, Resolved, TabInv
  <2> QED
    BY <1>same, <2>1, <2>2, <2>3 DEF TabInv
<1>13. ASSUME NEW n \in Tries, Refuse(n) PROVE TabInv'
  BY <1>13, <1>same DEF Refuse, TabInv, viewVars, editVars, holdVars
<1>14. CASE OthersStep
  <2>1. /\ page' = page /\ overrun' = overrun /\ left' = left /\ call' = call /\ faults' = faults
        /\ ed' = ed /\ typed' = typed /\ winner' = winner
    BY <1>14 DEF OthersStep, viewVars, editVars, callVars
  <2>2. hold'.status \in Resolved \union {"pending_review"}
    BY <1>14 DEF OthersStep, HoldStep, LoadExpired, ResolveExpired, SweepGivesUp, DecideElsewhere,
                 Transition, ApproveAndAccept, Resolved, TabInv
  <2> QED
    BY <1>same, <2>1, <2>2 DEF TabInv
<1>15. CASE UNCHANGED vars
  BY <1>15, <1>same DEF vars, TabInv, viewVars, editVars, callVars, holdVars
<1> QED
  BY <1>3, <1>4, <1>5, <1>6, <1>7, <1>8, <1>9, <1>10, <1>11, <1>12, <1>13, <1>14, <1>15
  DEF Next, Loads, HandlerStep

\* A set of at most one load counts at most one.
LEMMA SingleCounts ==
  ASSUME NEW loads, Single(loads)
  PROVE  Cardinality(loads) <= 1
<1>1. CASE loads = {}
  BY <1>1, FS_EmptySet
<1>2. CASE loads # {}
  <2>1. PICK x \in loads : TRUE
    BY <1>2
  <2>2. loads = {x}
    BY <2>1 DEF Single
  <2> QED
    BY <2>2, FS_Singleton
<1> QED
  BY <1>1, <1>2

\* TypeOK: however polls, focus events, mounts, repeats and the refreshes of a
\* handler interleave, a view of the SWR cache has at most one load on its way
\* (dedupingInterval, mutate) and a failed one is repeated at most as often as
\* SWRProvider says, and the tab is always on one of its pages.
THEOREM TypesHold == Spec => []TypeOK
<1> DEFINE Inv == SubmissionInv /\ LoadInv /\ TabInv
<1>1. Init => Inv
  BY SubmissionInit, LoadInit, TabInit
<1>2. Inv /\ [Next]_vars => Inv'
  BY SubmissionStep, LoadStep, TabStep
<1>3. Inv => TypeOK
  BY SingleCounts DEF SubmissionInv, LoadInv, TabInv, States, EditorStates, TypeOK
<1> QED
  BY <1>1, <1>2, <1>3, PTL DEF Spec
=============================================================================
