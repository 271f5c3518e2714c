----------------------------- MODULE WebConsole -----------------------------
(***************************************************************************)
(* One tab of the dashboard: a user opens pages, performs one operation of *)
(* ConsolePages, and sees what the views show.  Loads, polls and answers   *)
(* interleave and fail; the handler of the operation refreshes views after *)
(* its own answer.  Views do not depend on one another, so a behaviour     *)
(* follows one of those its operation changes ("watch").  A decision of    *)
(* the review queue competes with ReviewHold's other deciders, and is      *)
(* edited in a form seeded from the cached message.                        *)
(***************************************************************************)
EXTENDS ReviewHold, ConsolePages, FiniteSets

CONSTANTS
  MaxTries,     \* bound: times a decision is submitted (other operations: once)
  MaxFaults     \* bound: loads that fail and answers that are lost

ASSUME BoundsAssumption == MaxTries \in Nat \ {0} /\ MaxFaults \in Nat

Tries == 1..MaxTries

VARIABLES
  op, watch,       \* the operation, and the view that is followed
  page,            \* the page that is open
  shown,           \* data of each view: "none", "old", or "new" (after the operation)
  fetch,           \* loads in progress by view: "asked", or the answer on its way
  tries,           \* repeats of a failed load
  last,            \* each view's last load: "none", "made" or "error" (given up)
  overrun,         \* a page showed an answer after a later one
  call, try, req,  \* the handler, how often it was submitted, each submission
  left,            \* the page was left while its handler was running
  written,         \* the operation has taken effect
  ed, typed,       \* the editor of the draft; the fields the reviewer has typed in
  payload, intent, \* each submission: what it carries, what the reviewer meant to send
  winner,          \* the submission that resolved the hold
  faults           \* how many of the MaxFaults faults have happened

scope == <<op, watch>>
viewVars == <<shown, fetch, tries, last, overrun>>
editVars == <<ed, typed>>
callVars == <<call, try, req, left, written, payload, intent, winner>>
vars == <<scope, page, viewVars, editVars, callVars, faults, holdVars>>

Operation == Operations[op]
Focused == op \in {"approveFocus", "rejectFocus"}
Inbound == op = "approveInboundRow"
Approving == op \in {"approveRow", "approveInboundRow", "approveFocus"}
Review == Inbound \/ Focused \/ op \in {"approveRow", "rejectRow"}

\* The row is opened from the queue; the page of the message does not read it.
Tracked == {watch} \union IF Review /\ ~Focused THEN {"pending"} ELSE {}
Mounted(k) == k \in MountedOn(page)

\* What the API answers now.
Data == IF written \/ (Review /\ ~Pending) THEN "new" ELSE "old"
-----------------------------------------------------------------------------
(* The editor of PendingRow and of the message's page.                     *)

Closed == [open |-> FALSE, edited |-> FALSE, field |-> [f \in Fields |-> "blank"]]

\* The message's page edits the text alone.
Editable == IF Focused THEN Fields \ {"subject"} ELSE Fields

\* The effect that fills the form from the loaded message, unless the reviewer
\* has begun to edit.
Seed(e) == IF e.edited THEN e ELSE [e EXCEPT !.field = Draft]

\* Collapsing a row resets the editor but leaves its fields; leaving the page
\* of the message drops everything.
Leave(e) == IF Focused THEN Closed ELSE [e EXCEPT !.open = FALSE, !.edited = FALSE]

\* Mutant: the form is filled only when a load answers (SWR's onSuccess).
SeedOnFetch(p) ==
  IF p = Operation.on /\ page # p THEN Leave(ed) ELSE IF p # Operation.on THEN Leave(ed) ELSE ed

\* Opening the message with a warm cache fills the form at once.
EditorOn(p) ==
  IF p = Operation.on /\ page # p
    THEN IF shown["messageDetail"] = "none" THEN Leave(ed) ELSE Seed(Leave(ed))
    ELSE IF p # Operation.on THEN Leave(ed) ELSE ed

MoveEditor(p) ==
  /\ ed' = IF Review THEN EditorOn(p) ELSE ed
  /\ typed' = IF Review /\ p # page THEN {} ELSE typed
-----------------------------------------------------------------------------
(* SWR, and the pages that load by hand.                                   *)

\* shouldRetryOnError is off on the page of the message.
Retries(k) == IF k = "messageDetail" /\ page = "focus" THEN 0 ELSE Views[k].retries

\* Mutant: every hook that mounts starts a load of its own.
RevalidatedAgain(k, f) == f \union {"asked"}

\* A load that is already on its way is shared.
Revalidated(k, f) == IF f = {} THEN {"asked"} ELSE f

\* A handler sets the state of the page it was started on, which is gone once
\* that page was left; the layout and the SWR cache outlive it.
Reached(k) == Mounted(k) /\ (left => Views[k].swr \/ k \in AppLayout)

\* mutate(key): what is on its way is ignored, and a mounted view is asked for
\* again; a page that loads by hand just asks once more.
Invalidated(k, f) ==
  IF Views[k].swr THEN IF Mounted(k) THEN {"asked"} ELSE {}
  ELSE IF Reached(k) THEN f \union {"asked"} ELSE f

\* The load that mutate forgets does not stand for the next one.
Forgotten(ks) == [k \in Tracked |-> IF k \in ks /\ Views[k].swr THEN IF Mounted(k) THEN "made" ELSE "none" ELSE last[k]]

\* Hooks of a shared layout stay mounted between its pages.
InboxPages == {"inbox", "focus", "inboxTrash", "inboxSettings"}
StayMounted(p) ==
  CASE p = page -> MountedOn(p)
    [] p # page /\ {page, p} \subseteq {"reviews", "reviewRow"} -> {"pending"}
    [] p # page /\ page \in InboxPages /\ p \in InboxPages \ {"inboxSettings"} -> AgentLayout
    [] OTHER -> {}
Mounts(p) == Pages[p] \ (StayMounted(p) \union {"user"})

\* Pages of this behaviour: the ones the operation opens, the ones that render
\* the followed view, and one that does not.
Visited ==
  {Operation.on} \union ({Operation.goes} \ {Stay})
    \union IF Review THEN {} ELSE {p \in DOMAIN Pages : watch \in Pages[p]} \union {"getStarted"}

\* Views of page p once it is open, from fetches f and last loads l: those it
\* mounts revalidate, unless their last load ended within dedupingInterval, and
\* what a page held itself is gone when it closes.
Recent(p, f, l) == {k \in Tracked \intersect Mounts(p) : Views[k].swr /\ f[k] = {} /\ l[k] = "made"}

OpenViews(p, f, l) ==
  \E deduped \in SUBSET Recent(p, f, l) :
    /\ page' = p
    /\ shown' = [k \in Tracked |-> IF ~Views[k].swr /\ k \notin MountedOn(p) \ Mounts(p) THEN "none" ELSE shown[k]]
    /\ fetch' = [k \in Tracked |->
                   IF k \in Mounts(p) \ deduped THEN IF Views[k].swr THEN Revalidated(k, f[k]) ELSE {"asked"}
                   ELSE IF Views[k].swr \/ k \in MountedOn(p) THEN f[k] ELSE {}]
    /\ last' = [k \in Tracked |-> IF k \in Mounts(p) THEN "made" ELSE l[k]]

Open(p) ==
  /\ p \in Visited \ {page}
  /\ p = "reviewRow" => Review /\ shown["pending"] = "old"
  /\ OpenViews(p, fetch, last)
  /\ MoveEditor(p)
  /\ left' = (left \/ (page = Operation.on /\ call \in {"waiting", "settling"} /\ ~Views[watch].swr))
  /\ UNCHANGED <<scope, tries, overrun, call, try, req, written, payload, intent, winner, faults, holdVars>>

\* refreshInterval, which passes over a view in error, and the browser regaining
\* focus or the network.
Refresh(k) ==
  /\ Mounted(k) /\ Views[k].swr /\ fetch[k] = {}
  /\ fetch' = [fetch EXCEPT ![k] = Revalidated(k, @)]
  /\ tries' = [tries EXCEPT ![k] = 0]
  /\ UNCHANGED <<scope, page, shown, last, overrun, editVars, callVars, faults, holdVars>>

Poll(k) == Views[k].polled /\ last[k] # "error" /\ Refresh(k)
Focus(k) == Refresh(k)

Answer(k) ==
  /\ "asked" \in fetch[k]
  /\ fetch' = [fetch EXCEPT ![k] = (@ \ {"asked"}) \union {Data}]
  /\ UNCHANGED <<scope, page, shown, tries, last, overrun, editVars, callVars, faults, holdVars>>

\* An answer is shown.  The queue without the message has no open row; the
\* message fills the form.
Deliver(k, d) ==
  /\ d \in fetch[k] \ {"asked"}
  /\ fetch' = [fetch EXCEPT ![k] = @ \ {d}]
  /\ shown' = [shown EXCEPT ![k] = d]
  /\ tries' = [tries EXCEPT ![k] = 0]
  /\ last' = [last EXCEPT ![k] = IF @ = "error" /\ ~Views[k].swr /\ d = "old" THEN "error" ELSE "made"]
  /\ overrun' = (overrun \/ (~Views[k].swr /\ shown[k] = "new" /\ d = "old"))
  /\ page' = IF k = "pending" /\ d = "new" /\ page = "reviewRow" THEN "reviews" ELSE page
  /\ ed' = CASE k = "messageDetail" /\ page = Operation.on -> Seed(ed)
             [] page' # page -> Leave(ed)
             [] OTHER -> ed
  /\ typed' = IF page' # page THEN {} ELSE typed
  /\ UNCHANGED <<scope, callVars, faults, holdVars>>

\* A load fails.  onErrorRetry: SWR repeats it a few times while its hook is
\* mounted (the delay is part of the load), but not after a 4xx.
LoadFails(k) ==
  /\ fetch[k] # {} /\ faults < MaxFaults
  /\ faults' = faults + 1
  /\ \/ /\ Views[k].swr /\ tries[k] < Retries(k) /\ Mounted(k)
        /\ fetch' = [fetch EXCEPT ![k] = {"asked"}]
        /\ tries' = [tries EXCEPT ![k] = @ + 1]
        /\ UNCHANGED last
     \/ /\ \E x \in fetch[k] : fetch' = [fetch EXCEPT ![k] = @ \ {x}]
        /\ last' = [last EXCEPT ![k] = "error"]
        /\ UNCHANGED tries
  /\ UNCHANGED <<scope, page, shown, overrun, editVars, callVars, holdVars>>
-----------------------------------------------------------------------------
(* The reviewer's editor.                                                  *)

\* The action bar is rendered for a loaded message that is still pending; the
\* message's page also trusts the link it was opened with (?pending=1).
Offered ==
  /\ page = Operation.on
  /\ Review => \/ shown["messageDetail"] = "old"
               \/ Focused /\ shown["messageDetail"] = "new"

Editing == Review /\ Approving /\ ~Inbound /\ Offered /\ call \in {"idle", "failed"} /\ try < MaxTries

StartEdit ==
  /\ Editing /\ ~ed.open
  /\ ed' = [ed EXCEPT !.open = TRUE, !.edited = TRUE]
  /\ UNCHANGED <<scope, page, viewVars, typed, callVars, faults, holdVars>>

Type(f) ==
  /\ Editing /\ ed.open /\ f \in Editable
  /\ ed' = [ed EXCEPT !.field[f] = "edit", !.edited = TRUE]
  /\ typed' = typed \union {f}
  /\ UNCHANGED <<scope, page, viewVars, callVars, faults, holdVars>>

\* The row keeps what was typed for the next time its editor opens; the
\* message's page reverts to the loaded text.
CancelEdit ==
  /\ Editing /\ ed.open
  /\ ed' = IF Focused THEN [Closed EXCEPT !.field = Draft] ELSE [ed EXCEPT !.open = FALSE]
  /\ typed' = IF Focused THEN {} ELSE typed
  /\ UNCHANGED <<scope, page, viewVars, callVars, faults, holdVars>>

NoEdits == [f \in {} |-> "draft"]

\* diffApproveEdits: only an open editor overrides, and only what differs.
diffApproveEdits == [f \in {g \in Editable : ed.open /\ ed.field[g] # "draft"} |-> ed.field[f]]

\* What the reviewer means to send: the draft, with the fields typed in.
Meant == [f \in Fields |-> IF ed.open /\ f \in typed THEN "edit" ELSE "draft"]
-----------------------------------------------------------------------------
(* The handler of the operation, and the API.                              *)

Submit ==
  /\ Offered /\ call \in {"idle", "failed"}
  /\ try < IF Review THEN MaxTries ELSE 1
  /\ try' = try + 1
  /\ req' = [req EXCEPT ![try + 1] = "sent"]
  /\ call' = "waiting"
  /\ payload' = [payload EXCEPT ![try + 1] = diffApproveEdits]
  /\ intent' = [intent EXCEPT ![try + 1] = Meant]
  /\ UNCHANGED <<scope, page, viewVars, editVars, left, written, winner, faults, holdVars>>

\* The verdict a submission asks for.
Verdict == CASE Inbound /\ Approving -> "review_approved"
             [] ~Inbound /\ Approving -> "sent"
             [] OTHER -> "review_rejected"

\* approveHeld and rejectHeld decide; any other operation just takes effect.
Commit(n) ==
  /\ req[n] = "sent"
  /\ req' = [req EXCEPT ![n] = "committed"]
  /\ payload' = [payload EXCEPT ![n] = NoEdits]
  /\ IF Review
       THEN /\ IF Approving /\ ~Inbound THEN ApproveAndAccept("sent", "tab", Apply(payload[n]))
                                        ELSE Transition(Verdict, "tab")
            /\ winner' = n
            /\ UNCHANGED written
       ELSE written' = TRUE /\ UNCHANGED <<hold, winner>>
  /\ UNCHANGED <<scope, page, viewVars, editVars, call, try, left, intent, faults, sweep>>

\* 409 message_not_pending, or an error before anything was written.
Refuse(n) ==
  /\ req[n] = "sent"
  /\ req' = [req EXCEPT ![n] = "refused"]
  /\ payload' = [payload EXCEPT ![n] = NoEdits]
  /\ intent' = [intent EXCEPT ![n] = Draft]
  /\ UNCHANGED <<scope, page, viewVars, editVars, call, try, left, written, winner, faults, holdVars>>

\* Success: the handler sets what the answer replaces and refreshes "first".
Accepted ==
  /\ call = "waiting" /\ req[try] = "committed"
  /\ call' = "settling"
  /\ shown' = [k \in Tracked |-> IF k \in Operation.replaced /\ Reached(k) THEN "new" ELSE shown[k]]
  /\ fetch' = [k \in Tracked |-> IF k \in Operation.first THEN Invalidated(k, fetch[k]) ELSE fetch[k]]
  /\ tries' = [k \in Tracked |-> IF k \in Operation.first THEN 0 ELSE tries[k]]
  /\ last' = Forgotten(Operation.first)
  /\ UNCHANGED <<scope, page, overrun, editVars, try, req, left, written, payload, intent, winner, faults, holdVars>>

\* An error of the API, or an answer that is lost: the page shows it and
\* refreshes nothing.
Rejected ==
  /\ call = "waiting"
  /\ \/ req[try] = "refused" /\ UNCHANGED faults
     \/ faults < MaxFaults /\ faults' = faults + 1
  /\ call' = "failed"
  /\ UNCHANGED <<scope, page, viewVars, editVars, try, req, left, written, payload, intent, winner, holdVars>>

\* The rest of the handler, once what it awaits has been loaded.
Settle ==
  LET after == [k \in Tracked |-> IF k \in Operation.then THEN Invalidated(k, fetch[k]) ELSE fetch[k]]
      p == IF Operation.goes = Stay THEN page ELSE Operation.goes
  IN
  /\ call = "settling"
  /\ \A k \in Tracked \intersect Operation.awaits : Mounted(k) => fetch[k] = {}
  /\ call' = "done"
  /\ OpenViews(p, after, Forgotten(Operation.then))
  /\ MoveEditor(p)
  /\ UNCHANGED <<scope, tries, overrun, try, req, left, written, payload, intent, winner, faults, holdVars>>
-----------------------------------------------------------------------------
Init ==
  /\ op \in DOMAIN Operations
  /\ watch \in IF Review THEN {"messageDetail"} ELSE Operation.changes
  /\ page = "getStarted"
  /\ shown = [k \in Tracked |-> "none"]
  /\ fetch = [k \in Tracked |-> IF k \in AppLayout THEN {"asked"} ELSE {}]
  /\ tries = [k \in Tracked |-> 0]
  /\ last = [k \in Tracked |-> IF k \in AppLayout THEN "made" ELSE "none"]
  /\ overrun = FALSE
  /\ call = "idle" /\ try = 0
  /\ req = [n \in Tries |-> "none"]
  /\ written = FALSE /\ left = FALSE
  /\ ed = Closed /\ typed = {}
  /\ payload = [n \in Tries |-> NoEdits]
  /\ intent = [n \in Tries |-> Draft]
  /\ winner = 0
  /\ faults = 0
  /\ HoldInit

Loads(k) == Poll(k) \/ Focus(k) \/ Answer(k) \/ (\E d \in {"old", "new"} : Deliver(k, d)) \/ LoadFails(k)
ReviewersStep == StartEdit \/ (\E f \in Fields : Type(f)) \/ CancelEdit
HandlerStep == Submit \/ Accepted \/ Rejected \/ Settle
OthersStep == Review /\ HoldStep(Inbound) /\ UNCHANGED <<scope, page, viewVars, editVars, callVars, faults>>

Next ==
  \/ \E p \in Visited : Open(p)
  \/ \E k \in Tracked : Loads(k)
  \/ ReviewersStep
  \/ HandlerStep
  \/ \E n \in Tries : Commit(n) \/ Refuse(n)
  \/ OthersStep

\* Requests are answered or fail, the interval of a view that is not in error
\* fires while the tab is visible, and handlers run on.  Nothing is assumed of
\* focus, the user, the reviewers or the sweep.
Live(v) == v \in Tracked /\ (Answer(v) \/ Deliver(v, "old") \/ Deliver(v, "new") \/ Poll(v))

Spec ==
  /\ Init /\ [][Next]_vars
  /\ WF_fetch(Live(watch)) /\ WF_fetch(Live("pending"))
  /\ WF_vars(Accepted \/ Settle)
-----------------------------------------------------------------------------
(* Properties                                                              *)

\* Type invariant of the tab, its loads, its handler and the held message; SWR
\* has at most one load of a key on its way.
TypeOK ==
  /\ op \in DOMAIN Operations /\ watch \in DOMAIN Views /\ page \in DOMAIN Pages
  /\ shown \in [Tracked -> {"none", "old", "new"}]
  /\ fetch \in [Tracked -> SUBSET {"asked", "old", "new"}]
  /\ \A k \in Tracked : tries[k] \in 0..ErrorRetries /\ (Views[k].swr => Cardinality(fetch[k]) <= 1)
  /\ last \in [Tracked -> {"none", "made", "error"}] /\ overrun \in BOOLEAN /\ left \in BOOLEAN
  /\ call \in {"idle", "waiting", "settling", "done", "failed"}
  /\ try \in 0..MaxTries /\ winner \in 0..MaxTries /\ faults \in 0..MaxFaults
  /\ req \in [Tries -> {"none", "sent", "committed", "refused"}]
  /\ hold.status \in Resolved \union {"pending_review"}
  /\ ed.field \in [Fields -> {"blank", "draft", "edit"}] /\ typed \subseteq Fields

\* A message approved here goes out with what the reviewer typed and with the
\* agent's words everywhere else: a warm cache, a reload in the middle of an
\* edit, a cancelled editor or a repeated submission never blanks a field,
\* drops an edit or sends an abandoned one.
SentAsReviewed ==
  Review /\ Approving /\ ~Inbound /\ hold.by = "tab" => hold.text = intent[winner]

\* The console goes on as after a success only when this very submission
\* resolved the hold: a decision made elsewhere, by the expiry sweep that had
\* loaded the draft before, or by an earlier submission whose answer was lost
\* is never reported as this one's, nor overwritten by it.
VerdictHolds ==
  Review /\ call \in {"settling", "done"} =>
    hold.by = "tab" /\ hold.status = Verdict /\ winner = try

\* The user is looking at data from before the operation they completed.
LooksUndone == call = "done" /\ Mounted(watch) /\ shown[watch] = "old" /\ <<op, watch>> \notin LeftToTheNextVisit

\* Excuses of a view: its load failed and is not repeated; and on a page that
\* loads by hand, an answer overtaken by a later one, and a handler that
\* finished after its page had been left.
Excused == last[watch] = "error" \/ overrun \/ left

\* What the user has done here shows here, without a reload or a change of
\* focus: every view on screen that the operation changes leaves its old data,
\* however its loads, polls and refreshes interleave with the handler.
WritesShow == LooksUndone /\ ~Excused ~> ~LooksUndone \/ Excused

\* A hold resolved anywhere leaves the queue and the badge of every open tab,
\* unless a load of the queue was given up: the poll then passes over it until
\* the browser regains focus or the network, or a decision made here asks again.
Queued == Review /\ "pending" \in Tracked
QueueDrains == Queued /\ ~Pending ~> Queued /\ (shown["pending"] = "new" \/ last["pending"] = "error")
=============================================================================
