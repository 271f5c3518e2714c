-------------------------- MODULE SdkRequestProofs --------------------------
(***************************************************************************)
(* Theorems about SdkRequest, for any number of calls, retries, bodies and *)
(* faults and any table of operations that satisfies OperationsAssumption: *)
(* the SDK's transport, the network and the server's idempotency guard     *)
(* together implement KeyedCall.                                           *)
(***************************************************************************)
EXTENDS SdkRequest, TLAPS

(* The error catalogue.                                                    *)

AllCodes == UNION {CatalogStatus[s] : s \in DOMAIN CatalogStatus}

\* What the server can answer besides success.
Catalogued(status, code) == [status |-> status, code |-> code] \in Catalog

\* The statuses of the catalog.
LEMMA CatalogDomain == DOMAIN CatalogStatus = {400, 401, 402, 403, 404, 409, 410, 413, 422, 429, 500, 501, 503}
  BY DEF CatalogStatus

\* A member of the catalog is a status and one of its codes.
LEMMA CatalogMember ==
  ASSUME NEW a \in Catalog
  PROVE  /\ a.status \in DOMAIN CatalogStatus /\ a.code \in CatalogStatus[a.status]
         /\ a = [status |-> a.status, code |-> a.code]
  BY DEF Catalog

\* The catalog holds errors only.
LEMMA CatalogFact ==
  ASSUME NEW a \in Catalog
  PROVE  a.status \in Nat /\ a.status >= 400 /\ a.code \in AllCodes
<1>1. a.status \in DOMAIN CatalogStatus /\ a.code \in CatalogStatus[a.status]
  BY CatalogMember
<1>2. a.status \in Nat /\ a.status >= 400
  BY <1>1, CatalogDomain
<1> QED
  BY <1>1, <1>2 DEF AllCodes

\* The answers a lookup, the guard and a direct handler make up themselves.
LEMMA CataloguedAnswers ==
  /\ Catalogued(500, "internal_error") /\ Catalogued(409, "idempotency_in_flight")
  /\ Catalogued(422, "idempotency_key_reuse") /\ Catalogued(404, "not_found")
  /\ Catalogued(409, "message_not_pending") /\ Catalogued(409, "message_not_yet_delivered")
  /\ Catalogued(400, "invalid_expires_at")
<1>1. /\ "internal_error" \in CatalogStatus[500] /\ "idempotency_in_flight" \in CatalogStatus[409]
      /\ "idempotency_key_reuse" \in CatalogStatus[422] /\ "not_found" \in CatalogStatus[404]
      /\ "message_not_pending" \in CatalogStatus[409] /\ "message_not_yet_delivered" \in CatalogStatus[409]
  BY DEF CatalogStatus
<1>3. "invalid_expires_at" \in CatalogStatus[400]
  <2>1. CatalogStatus[400] = InvalidFamily \union
           {"invalid_request", "reserved_domain", "too_many_recipients", "template_render_failed",
            "template_rendered_empty", "domain_not_registered", "domain_has_agents",
            "domain_not_verified", "inbound_mx_missing", "template_limit_reached", "webhook_limit_reached"}
    BY DEF CatalogStatus
  <2> QED
    BY <2>1 DEF InvalidFamily
<1>2. ASSUME NEW s \in DOMAIN CatalogStatus, NEW k \in CatalogStatus[s]
      PROVE  Catalogued(s, k)
  BY DEF Catalogued, Catalog
<1> QED
  BY <1>1, <1>2, <1>3, CatalogDomain
-----------------------------------------------------------------------------
(* Types, with the keys of the calls as a function.                        *)

group == [c \in Calls |-> KeyOf(c)]

\* The statuses of a success, and the ones the processor does not declare.
Successes == ServerSuccess(op)
Undeclared == Successes \ responses.ok

Statuses == {0, 200, 201, 202} \union DOMAIN CatalogStatus

Errs == {NoError, connectionError} \union {toE2AError(s, NoCode) : s \in {200, 201, 202}}
          \union {toE2AError(a.status, a.code) : a \in Catalog}

Replies == [status : Statuses, code : AllCodes \union {NoCode}, result : Handlers \union {NoHandler}]
Outcomes == [kind : {"pending", "ok", "error"}, result : Handlers \union {NoHandler}, error : Errs]
Rows == [status : {"none", "in_progress", "completed"}, hash : Bodies \union {NoBody},
         result : Handlers \union {NoHandler}, stale : BOOLEAN]

TypeInv ==
  /\ op \in DOMAIN Operations /\ mode \in Modes(op) /\ callerKey \in BOOLEAN /\ body \in [Calls -> Bodies]
  /\ cpc \in [Calls -> {"absent", "idle", "sending", "waiting", "backoff", "done"}]
  /\ attempt \in [Calls -> 0..MaxRetries]
  /\ outcome \in [Calls -> Outcomes]
  /\ hpc \in [Handlers -> {"none", "sent", "classify", "running", "committed", "replied", "done"}]
  /\ reply \in [Handlers -> Replies]
  /\ row \in [Keys -> Rows]
  /\ executed \subseteq Handlers
  /\ licence \in BOOLEAN
  /\ faults \in 0..MaxFaults

\* Attempts are made one after the other, and only where the transport may retry.
Sequential ==
  \A c \in Calls :
    /\ \A n \in 0..MaxRetries : n > attempt[c] => hpc[<<c, n>>] = "none"
    /\ cpc[c] \in {"absent", "idle", "sending"} => hpc[<<c, attempt[c]>>] = "none"
    /\ cpc[c] = "backoff" => attempt[c] < MaxRetries
    /\ ~isRetrySafe => attempt[c] = 0 /\ cpc[c] # "backoff"
    /\ cpc[c] # "done" => outcome[c] = Pending

\* What is fixed when the calls are made.
LEMMA RequestFacts ==
  ASSUME UNCHANGED reqVars
  PROVE  /\ group' = group /\ Guarded' = Guarded /\ isRetrySafe' = isRetrySafe /\ request' = request
         /\ responses' = responses /\ op' = op /\ mode' = mode /\ body' = body /\ callerKey' = callerKey
         /\ Successes' = Successes /\ Undeclared' = Undeclared
  BY DEF reqVars, group, KeyOf, Guarded, isRetrySafe, request, responses, Successes, Undeclared, ServerSuccess

\* The statuses a handler answers a success with.
LEMMA SuccessRange == Successes \subseteq {200, 201, 202} /\ Undeclared \subseteq Successes
  BY DEF Successes, Undeclared, ServerSuccess

\* The key of a call; without a key every call is a group of its own.
LEMMA GroupFact ==
  /\ group \in [Calls -> Keys] /\ \A c \in Calls : KeyOf(c) = group[c]
  /\ ~Guarded => \A c \in Calls : group[c] = c
  BY DEF group, KeyOf, Keys

\* A handler is an attempt of a call.
LEMMA HandlerFact ==
  /\ MaxRetries \in Nat
  /\ \A h \in Handlers : h[1] \in Calls /\ h[2] \in 0..MaxRetries /\ h = <<h[1], h[2]>>
  /\ \A c \in Calls, n \in 0..MaxRetries : <<c, n>> \in Handlers
  BY RetriesAssumption DEF Handlers

\* The request is fixed.
LEMMA RequestFixed ==
  ASSUME Next
  PROVE  UNCHANGED reqVars
<1>1. ASSUME NEW c \in Calls, ClientStep(c) PROVE UNCHANGED reqVars
  BY <1>1 DEF ClientStep, Start, MissingParameter, Send, Receive, Lose, Resume, Abort
<1>2. ASSUME NEW h \in Handlers, HandlerStep(h) PROVE UNCHANGED reqVars
  BY <1>2 DEF HandlerStep, Run, Unresolved, Claim, ClaimLost, Classify, ClaimFails, Refuse, AlreadyGone, Commit, Finish,
              FinishUnrecorded, Panic, Crash
<1>3. ASSUME NEW k \in Keys, Age(k) \/ Sweep(k) PROVE UNCHANGED reqVars
  BY <1>3 DEF Age, Sweep
<1> QED
  BY <1>1, <1>2, <1>3 DEF Next, TargetChanges

\* What a step of a call does, place by place.
LEMMA ClientFacts ==
  ASSUME TypeInv, NEW c \in Calls, ClientStep(c)
  PROVE  LET h == <<c, attempt[c]>>
             heard == /\ hpc'[h] = (IF hpc[h] = "replied" THEN "done" ELSE hpc[h])
                      /\ reply'[h] = NoReply
             same == hpc'[h] = hpc[h] /\ reply'[h] = reply[h]
         IN /\ h \in Handlers
            /\ UNCHANGED <<row, executed, licence, faults>>
            /\ \A d \in Calls \ {c} : cpc'[d] = cpc[d] /\ attempt'[d] = attempt[d] /\ outcome'[d] = outcome[d]
            /\ \A g \in Handlers \ {h} : hpc'[g] = hpc[g] /\ reply'[g] = reply[g]
            /\ \/ cpc[c] = "idle" /\ cpc'[c] = "sending" /\ attempt'[c] = attempt[c] /\ outcome'[c] = outcome[c] /\ same
               \/ cpc[c] = "idle" /\ cpc'[c] = "done" /\ attempt'[c] = attempt[c]
                  /\ outcome'[c] = Thrown(connectionError) /\ same
               \/ cpc[c] = "sending" /\ cpc'[c] = "waiting" /\ attempt'[c] = attempt[c] /\ outcome'[c] = outcome[c]
                  /\ hpc'[h] = "sent" /\ reply'[h] = reply[h]
               \/ /\ cpc[c] \in {"sending", "waiting", "backoff"} /\ cpc'[c] = "done" /\ attempt'[c] = attempt[c] /\ heard
                  /\ \/ outcome'[c] = Thrown(connectionError)
                     \/ cpc[c] = "waiting" /\ hpc[h] = "replied" /\ outcome'[c] = Result(reply[h])
               \/ /\ cpc[c] = "waiting" /\ cpc'[c] = "backoff" /\ attempt'[c] = attempt[c] /\ outcome'[c] = outcome[c]
                  /\ isRetrySafe /\ attempt[c] < MaxRetries /\ heard
               \/ cpc[c] = "backoff" /\ cpc'[c] = "sending" /\ attempt'[c] = attempt[c] + 1 /\ outcome'[c] = outcome[c] /\ same
<1> DEFINE h == <<c, attempt[c]>>
<1>1. h \in Handlers /\ hpc \in [Handlers -> {"none", "sent", "classify", "running", "committed", "replied", "done"}]
      /\ reply \in [Handlers -> Replies] /\ cpc \in [Calls -> {"absent", "idle", "sending", "waiting", "backoff", "done"}]
      /\ attempt \in [Calls -> 0..MaxRetries] /\ outcome \in [Calls -> Outcomes]
  BY HandlerFact DEF TypeInv
<1>2. CASE Start(c)
  BY <1>1, <1>2 DEF Start, srvVars
<1>3. CASE MissingParameter(c)
  BY <1>1, <1>3, Zenon DEF MissingParameter, Settle, srvVars
<1>4. CASE Send(c)
  BY <1>1, <1>4 DEF Send
<1>5. ASSUME Hear(c)
      PROVE  /\ UNCHANGED <<row, executed, licence, faults>>
             /\ hpc'[h] = (IF hpc[h] = "replied" THEN "done" ELSE hpc[h]) /\ reply'[h] = NoReply
             /\ \A g \in Handlers \ {h} : hpc'[g] = hpc[g] /\ reply'[g] = reply[g]
  <2>1. /\ hpc' = [hpc EXCEPT ![h] = IF hpc[h] = "replied" THEN "done" ELSE hpc[h]]
        /\ reply' = [reply EXCEPT ![h] = NoReply]
        /\ UNCHANGED <<row, executed, licence, faults>>
    BY <1>5 DEF Hear
  <2> HIDE DEF h
  <2> QED
    BY <1>1, <2>1, Zenon
<1>6. ASSUME NEW o, Settle(c, o)
      PROVE  /\ cpc'[c] = "done" /\ attempt'[c] = attempt[c] /\ outcome'[c] = o
             /\ \A d \in Calls \ {c} : cpc'[d] = cpc[d] /\ attempt'[d] = attempt[d] /\ outcome'[d] = outcome[d]
  BY <1>1, <1>6, Zenon DEF Settle
<1>7. ASSUME BackOff(c)
      PROVE  /\ cpc'[c] = "backoff" /\ attempt'[c] = attempt[c] /\ outcome'[c] = outcome[c]
             /\ \A d \in Calls \ {c} : cpc'[d] = cpc[d] /\ attempt'[d] = attempt[d] /\ outcome'[d] = outcome[d]
  BY <1>1, <1>7, Zenon DEF BackOff
<1>8. CASE Receive(c)
  <2>1. cpc[c] = "waiting" /\ hpc[h] = "replied" /\ Hear(c)
        /\ \/ isRetrySafe /\ attempt[c] < MaxRetries /\ BackOff(c)
           \/ Settle(c, Result(reply[h]))
    BY <1>8 DEF Receive, Decide, Retryable
  <2> HIDE DEF h
  <2> QED
    BY <1>1, <1>5, <1>6, <1>7, <2>1, Zenon DEF h
<1>9. CASE Lose(c)
  <2>1. Result(NoReply) = Thrown(connectionError)
    BY DEF Result
  <2>2. cpc[c] = "waiting" /\ Hear(c)
        /\ \/ isRetrySafe /\ attempt[c] < MaxRetries /\ BackOff(c)
           \/ Settle(c, Thrown(connectionError))
    BY <1>9, <2>1 DEF Lose, Decide, Retryable
  <2> QED
    BY <1>1, <1>5, <1>6, <1>7, <2>2, Zenon
<1>10. CASE Abort(c)
  <2>1. cpc[c] \in {"sending", "waiting", "backoff"} /\ Hear(c) /\ Settle(c, Thrown(connectionError))
    BY <1>10 DEF Abort
  <2> QED
    BY <1>1, <1>5, <1>6, <2>1, Zenon
<1>11. CASE Resume(c)
  <2>1. cpc[c] = "backoff" /\ cpc' = [cpc EXCEPT ![c] = "sending"] /\ attempt' = [attempt EXCEPT ![c] = attempt[c] + 1]
        /\ UNCHANGED <<outcome, hpc, reply, row, executed, licence, faults>>
    BY <1>11 DEF Resume, srvVars
  <2> QED
    BY <1>1, <2>1, Zenon
<1> QED
  BY <1>2, <1>3, <1>4, <1>8, <1>9, <1>10, <1>11 DEF ClientStep
-----------------------------------------------------------------------------
(* What a step of a handler does, place by place.                          *)

HandlerStates == {"none", "sent", "classify", "running", "committed", "replied", "done"}

Answered(h, r) ==
  \/ hpc'[h] = "replied" /\ reply'[h] = r
  \/ hpc'[h] = "done" /\ reply'[h] = reply[h]

\* An answer of the catalogue; not_found is never that of a handler that has
\* executed.
Refused(h) ==
  \E s \in DOMAIN CatalogStatus : \E k \in AllCodes :
    Catalogued(s, k) /\ (k = "not_found" => hpc[h] # "committed") /\ Answered(h, Refusal(s, k))

AnsweredOk(h, e) ==
  \E s \in Successes : Answered(h, [status |-> s, code |-> NoCode, result |-> e])

\* The row of h becomes r, and no other row changes.
Writes(h, r) == row'[group[h[1]]] = r /\ \A k \in Keys \ {group[h[1]]} : row'[k] = row[k]

\* The row of h is released, or kept because the release failed.
Lets(h) == (row' = row) \/ (Guarded /\ Writes(h, Released(row[group[h[1]]])))

Begins(h) ==
  /\ hpc[h] = "sent" /\ reply'[h] = reply[h]
  /\ (Guarded /\ hpc'[h] = "classify") \/ (~Guarded /\ hpc'[h] = "running")
  /\ UNCHANGED <<row, executed, licence>>

Takes(h) ==
  /\ hpc[h] = "sent" /\ hpc'[h] = "running" /\ reply'[h] = reply[h] /\ Guarded
  /\ row[group[h[1]]].status \in {"none", "in_progress"} /\ Writes(h, ClaimedRow(h))
  /\ licence' => licence /\ Owners(h) = {}
  /\ executed' = executed

Reads(h) ==
  /\ hpc[h] \in {"sent", "classify"} /\ Guarded
  /\ \/ Refused(h)
     \/ /\ row[group[h[1]]].status = "completed" /\ row[group[h[1]]].hash = body[h[1]]
        /\ AnsweredOk(h, row[group[h[1]]].result)
  /\ UNCHANGED <<row, executed, licence>>

GivesUp(h) ==
  /\ hpc[h] = "running" /\ Refused(h) /\ Lets(h)
  /\ UNCHANGED <<executed, licence>>

Commits(h) ==
  /\ hpc[h] = "running" /\ hpc'[h] = "committed" /\ reply'[h] = reply[h]
  /\ mode = "direct" => executed = {}
  /\ executed' = executed \union {h} /\ licence' = licence
  /\ IF mode = "atomic" THEN Writes(h, Completed(row[group[h[1]]], h)) ELSE row' = row

Finishes(h) ==
  /\ hpc[h] = "committed" /\ AnsweredOk(h, h) /\ executed' = executed
  /\ \/ Guarded /\ Writes(h, Completed(row[group[h[1]]], h)) /\ licence' = licence
     \/ row' = row /\ (licence' => licence /\ mode \notin {"posthoc", "auto"})

Fails(h) ==
  /\ hpc[h] = "committed" /\ Refused(h) /\ Lets(h) /\ executed' = executed
  /\ licence' => licence /\ mode \notin {"posthoc", "auto"}

Dies(h) ==
  /\ hpc[h] \in {"classify", "running", "committed"} /\ hpc'[h] = "done" /\ reply'[h] = reply[h]
  /\ UNCHANGED <<row, executed>>
  /\ licence' => licence /\ (hpc[h] = "committed" => mode \notin {"posthoc", "auto"})

Effect(h) ==
  \/ Begins(h) \/ Takes(h) \/ Reads(h) \/ GivesUp(h) \/ Commits(h) \/ Finishes(h) \/ Fails(h) \/ Dies(h)

\* What any step of h leaves alone, and the types of what it writes.
Frame(h) ==
  /\ UNCHANGED cliVars
  /\ \A g \in Handlers \ {h} : hpc'[g] = hpc[g] /\ reply'[g] = reply[g]
  /\ hpc' \in [Handlers -> HandlerStates] /\ reply' \in [Handlers -> Replies] /\ row' \in [Keys -> Rows]
  /\ executed' \subseteq Handlers /\ licence' \in BOOLEAN /\ faults' \in 0..MaxFaults

\* A fault is counted.
LEMMA FaultFact ==
  ASSUME TypeInv, Fault
  PROVE  faults' \in 0..MaxFaults
  BY FaultsAssumption DEF TypeInv, Fault

\* A handler's place in the table and the types around it.
LEMMA PlaceFact ==
  ASSUME TypeInv, NEW h \in Handlers
  PROVE  /\ group[h[1]] \in Keys /\ KeyOf(h[1]) = group[h[1]] /\ Row(h) = row[group[h[1]]]
         /\ row \in [Keys -> Rows] /\ row[group[h[1]]] \in Rows /\ body[h[1]] \in Bodies
         /\ hpc \in [Handlers -> HandlerStates] /\ reply \in [Handlers -> Replies]
  BY GroupFact, HandlerFact DEF TypeInv, Row, HandlerStates

\* Step moves one handler.
LEMMA StepFact ==
  ASSUME TypeInv, NEW h \in Handlers, NEW s \in HandlerStates, Step(h, s)
  PROVE  /\ hpc' \in [Handlers -> HandlerStates] /\ hpc'[h] = s
         /\ \A g \in Handlers \ {h} : hpc'[g] = hpc[g]
  BY PlaceFact DEF Step

\* Respond ends one handler with its answer.
LEMMA RespondFact ==
  ASSUME TypeInv, NEW h \in Handlers, NEW r \in Replies, Respond(h, r)
  PROVE  /\ hpc' \in [Handlers -> HandlerStates] /\ reply' \in [Handlers -> Replies] /\ Answered(h, r)
         /\ \A g \in Handlers \ {h} : hpc'[g] = hpc[g] /\ reply'[g] = reply[g]
<1>1. "replied" \in HandlerStates /\ "done" \in HandlerStates
  BY DEF HandlerStates
<1>2. reply \in [Handlers -> Replies]
  BY PlaceFact
<1>3. CASE Awaited(h)
  <2>1. Step(h, "replied") /\ reply' = [reply EXCEPT ![h] = r]
    BY <1>3 DEF Respond
  <2> QED
    BY <1>1, <1>2, <2>1, StepFact DEF Answered
<1>4. CASE ~Awaited(h)
  <2>1. Step(h, "done") /\ reply' = reply
    BY <1>4 DEF Respond
  <2> QED
    BY <1>1, <1>2, <2>1, StepFact DEF Answered
<1> QED
  BY <1>3, <1>4

\* A catalogued refusal is an answer.
LEMMA RefusalFact ==
  ASSUME NEW s, NEW k, Catalogued(s, k)
  PROVE  Refusal(s, k) \in Replies /\ s \in DOMAIN CatalogStatus /\ k \in AllCodes
<1>1. s \in DOMAIN CatalogStatus /\ k \in CatalogStatus[s]
  BY CatalogMember DEF Catalogued
<1>2. k \in AllCodes
  BY <1>1 DEF AllCodes
<1> QED
  BY <1>1, <1>2 DEF Refusal, Replies, Statuses

\* A success is an answer.
LEMMA SuccessFact ==
  ASSUME NEW s \in ServerSuccess(op), NEW e \in Handlers \union {NoHandler}
  PROVE  s \in {200, 201, 202} /\ [status |-> s, code |-> NoCode, result |-> e] \in Replies
<1>1. s \in {200, 201, 202}
  BY DEF ServerSuccess
<1> QED
  BY <1>1 DEF Replies, Statuses

\* A handler that answers with an error of the catalogue.
LEMMA RefusedFact ==
  ASSUME TypeInv, NEW h \in Handlers, NEW s, NEW k, Catalogued(s, k), k = "not_found" => hpc[h] # "committed",
         Respond(h, Refusal(s, k))
  PROVE  /\ hpc' \in [Handlers -> HandlerStates] /\ reply' \in [Handlers -> Replies] /\ Refused(h)
         /\ \A g \in Handlers \ {h} : hpc'[g] = hpc[g] /\ reply'[g] = reply[g]
  BY RefusalFact, RespondFact DEF Refused

\* Respond with a success.
LEMMA SucceedsFact ==
  ASSUME TypeInv, NEW h \in Handlers, NEW s \in ServerSuccess(op), NEW e \in Handlers \union {NoHandler},
         Respond(h, [status |-> s, code |-> NoCode, result |-> e])
  PROVE  /\ hpc' \in [Handlers -> HandlerStates] /\ reply' \in [Handlers -> Replies] /\ AnsweredOk(h, e)
         /\ \A g \in Handlers \ {h} : hpc'[g] = hpc[g] /\ reply'[g] = reply[g]
  BY SuccessFact, RespondFact DEF AnsweredOk, Successes

\* A handler writes the row of its own key only.
LEMMA WriteFact ==
  ASSUME TypeInv, NEW h \in Handlers, NEW r \in Rows, row' = [row EXCEPT ![KeyOf(h[1])] = r]
  PROVE  row' \in [Keys -> Rows] /\ Writes(h, r)
  BY PlaceFact DEF Writes

\* Release and Complete act on a row in progress only (idempotency/store.go).
LEMMA RowFacts ==
  ASSUME NEW r \in Rows, NEW h \in Handlers
  PROVE  /\ NoRow \in Rows /\ Released(r) \in Rows /\ Completed(r, h) \in Rows
         /\ r.status = "in_progress" => /\ Released(r) = NoRow
                                        /\ Completed(r, h).status = "completed" /\ Completed(r, h).result = h
                                        /\ Completed(r, h).hash = r.hash
         /\ r.status # "in_progress" => Released(r) = r /\ Completed(r, h) = r
<1>1. NoRow \in Rows
  BY DEF NoRow, Rows
<1>2. CASE r.status = "in_progress"
  <2>1. Completed(r, h) = [r EXCEPT !.status = "completed", !.result = h] /\ Released(r) = NoRow
    BY <1>2 DEF Completed, Released
  <2> QED
    BY <1>1, <1>2, <2>1 DEF Rows
<1>3. CASE r.status # "in_progress"
  BY <1>1, <1>3 DEF Completed, Released
<1> QED
  BY <1>1, <1>2, <1>3

\* A request begins: at once, or by losing the claim.
LEMMA BeginsFact ==
  ASSUME TypeInv, NEW h \in Handlers, Run(h) \/ ClaimLost(h)
  PROVE  Frame(h) /\ Begins(h)
<1>1. "running" \in HandlerStates /\ "classify" \in HandlerStates
  BY DEF HandlerStates
<1>2. CASE Run(h)
  <2>1. hpc[h] = "sent" /\ ~Guarded /\ Step(h, "running") /\ UNCHANGED <<cliVars, reply, row, executed, licence, faults>>
    BY <1>2 DEF Run
  <2> QED
    BY <1>1, <2>1, StepFact, PlaceFact DEF Frame, Begins, TypeInv
<1>3. CASE ClaimLost(h)
  <2>1. hpc[h] = "sent" /\ Guarded /\ Step(h, "classify") /\ UNCHANGED <<cliVars, reply, row, executed, licence, faults>>
    BY <1>3 DEF ClaimLost
  <2> QED
    BY <1>1, <2>1, StepFact, PlaceFact DEF Frame, Begins, TypeInv
<1> QED
  BY <1>2, <1>3

\* Claim as one of the effects below.
LEMMA TakesFact ==
  ASSUME TypeInv, NEW h \in Handlers, Claim(h)
  PROVE  Frame(h) /\ Takes(h)
<1>1. "running" \in HandlerStates /\ ClaimedRow(h) \in Rows
  BY PlaceFact DEF HandlerStates, ClaimedRow, Rows
<1>2. /\ hpc[h] = "sent" /\ Guarded /\ Row(h).status \in {"none", "in_progress"}
      /\ row' = [row EXCEPT ![KeyOf(h[1])] = ClaimedRow(h)]
      /\ licence' = (licence /\ Owners(h) = {}) /\ Step(h, "running")
      /\ UNCHANGED <<cliVars, reply, executed, faults>>
  BY DEF Claim, SetRow
<1> QED
  BY <1>1, <1>2, StepFact, WriteFact, PlaceFact DEF Frame, Takes, TypeInv

\* Classify, a failed claim and a refused lookup, likewise.
LEMMA ReadsFact ==
  ASSUME TypeInv, NEW h \in Handlers, (Classify(h) /\ Guarded) \/ ClaimFails(h) \/ Unresolved(h)
  PROVE  Frame(h) /\ Reads(h)
<1> DEFINE same == UNCHANGED <<cliVars, row, executed, licence>> /\ faults' \in 0..MaxFaults
<1>1. ASSUME NEW s, NEW k, Catalogued(s, k), Respond(h, Refusal(s, k)), same,
             hpc[h] \in {"sent", "classify"}, Guarded
      PROVE  Frame(h) /\ Reads(h)
  <2>1. /\ hpc' \in [Handlers -> HandlerStates] /\ reply' \in [Handlers -> Replies] /\ Refused(h)
        /\ \A g \in Handlers \ {h} : hpc'[g] = hpc[g] /\ reply'[g] = reply[g]
    BY <1>1, RefusedFact
  <2> QED
    BY <1>1, <2>1 DEF Frame, Reads, TypeInv
<1>2. CASE ClaimFails(h)
  <2>1. hpc[h] \in {"sent", "classify"} /\ Guarded /\ Respond(h, Refusal(500, "internal_error")) /\ same
    BY <1>2, FaultFact DEF ClaimFails, StoreError
  <2> QED
    BY <1>1, <2>1, CataloguedAnswers
<1>3. CASE Classify(h) /\ Guarded
  <2>1. hpc[h] = "classify" /\ same
    BY <1>3 DEF Classify, TypeInv
  <2>2. \/ Respond(h, Refusal(500, "internal_error")) \/ Respond(h, Refusal(409, "idempotency_in_flight"))
        \/ Respond(h, Refusal(422, "idempotency_key_reuse"))
        \/ /\ Row(h).status = "completed" /\ Row(h).hash = body[h[1]]
           /\ \E s \in ServerSuccess(op) : Respond(h, [status |-> s, code |-> NoCode, result |-> Row(h).result])
    BY <1>3 DEF Classify, StoreError, InFlight, KeyReuse
  <2>3. CASE /\ Row(h).status = "completed" /\ Row(h).hash = body[h[1]]
             /\ \E s \in ServerSuccess(op) : Respond(h, [status |-> s, code |-> NoCode, result |-> Row(h).result])
    <3>1. Row(h) = row[group[h[1]]] /\ Row(h).result \in Handlers \union {NoHandler}
      BY PlaceFact DEF Rows
    <3>2. /\ hpc' \in [Handlers -> HandlerStates] /\ reply' \in [Handlers -> Replies] /\ AnsweredOk(h, Row(h).result)
          /\ \A g \in Handlers \ {h} : hpc'[g] = hpc[g] /\ reply'[g] = reply[g]
      BY <2>3, <3>1, SucceedsFact
    <3> QED
      BY <1>3, <2>1, <2>3, <3>1, <3>2 DEF Frame, Reads, TypeInv
  <2>4. hpc[h] \in {"sent", "classify"} /\ Guarded /\ same
    BY <1>3, <2>1
  <2> HIDE DEF same
  <2>5. CASE Respond(h, Refusal(500, "internal_error"))
    BY <1>1, <2>4, <2>5, CataloguedAnswers
  <2>6. CASE Respond(h, Refusal(409, "idempotency_in_flight"))
    BY <1>1, <2>4, <2>6, CataloguedAnswers
  <2>7. CASE Respond(h, Refusal(422, "idempotency_key_reuse"))
    BY <1>1, <2>4, <2>7, CataloguedAnswers
  <2> QED
    BY <2>2, <2>3, <2>5, <2>6, <2>7
<1>4. CASE Unresolved(h)
  <2>1. hpc[h] \in {"sent", "classify"} /\ Guarded /\ same
    BY <1>4, FaultFact DEF Unresolved, TypeInv
  <2>2. \/ Respond(h, Refusal(404, "not_found")) \/ Respond(h, Refusal(400, "invalid_expires_at"))
        \/ Respond(h, Refusal(409, "message_not_yet_delivered"))
    BY <1>4 DEF Unresolved, Missing, NotFound, NotYetDelivered
  <2> HIDE DEF same
  <2>3. CASE Respond(h, Refusal(404, "not_found"))
    BY <1>1, <2>1, <2>3, CataloguedAnswers
  <2>4. CASE Respond(h, Refusal(400, "invalid_expires_at"))
    BY <1>1, <2>1, <2>4, CataloguedAnswers
  <2>5. CASE Respond(h, Refusal(409, "message_not_yet_delivered"))
    BY <1>1, <2>1, <2>5, CataloguedAnswers
  <2> QED
    BY <2>2, <2>3, <2>4, <2>5
<1> QED
  BY <1>2, <1>3, <1>4

\* A release, likewise.
LEMMA LetsFact ==
  ASSUME TypeInv, NEW h \in Handlers,
         row' = IF Guarded THEN [row EXCEPT ![KeyOf(h[1])] = Released(row[KeyOf(h[1])])] ELSE row
  PROVE  row' \in [Keys -> Rows] /\ Lets(h)
<1>1. Released(row[group[h[1]]]) \in Rows /\ KeyOf(h[1]) = group[h[1]]
  BY PlaceFact, RowFacts
<1>2. CASE Guarded
  BY <1>1, <1>2, WriteFact DEF Lets
<1>3. CASE ~Guarded
  BY <1>3, PlaceFact DEF Lets
<1> QED
  BY <1>2, <1>3

\* A refusal, a resource already gone and a panic before the effect, likewise.
LEMMA GivesUpFact ==
  ASSUME TypeInv, NEW h \in Handlers, Refuse(h) \/ AlreadyGone(h) \/ (Panic(h) /\ hpc[h] = "running")
  PROVE  Frame(h) /\ GivesUp(h)
<1>1. ASSUME NEW s, NEW k, Catalogued(s, k), Respond(h, Refusal(s, k)), hpc[h] = "running",
             row' \in [Keys -> Rows], Lets(h), UNCHANGED <<cliVars, executed, licence>>, faults' \in 0..MaxFaults
      PROVE  Frame(h) /\ GivesUp(h)
  <2>1. /\ hpc' \in [Handlers -> HandlerStates] /\ reply' \in [Handlers -> Replies] /\ Refused(h)
        /\ \A g \in Handlers \ {h} : hpc'[g] = hpc[g] /\ reply'[g] = reply[g]
    BY <1>1, RefusedFact
  <2> QED
    BY <1>1, <2>1 DEF Frame, GivesUp, TypeInv
<1>2. CASE Refuse(h)
  <2>1. PICK e \in Refusals[op] : Respond(h, Refusal(e.status, e.code))
    BY <1>2 DEF Refuse
  <2>2. Catalogued(e.status, e.code)
    BY CatalogMember, RefusalsAssumption DEF Catalogued, TypeInv
  <2>3. hpc[h] = "running" /\ UNCHANGED <<cliVars, executed, licence>>
    BY <1>2 DEF Refuse
  <2>4. CASE /\ row' = IF Guarded THEN [row EXCEPT ![KeyOf(h[1])] = Released(@)] ELSE row
             /\ UNCHANGED faults
    BY <1>1, <2>1, <2>2, <2>3, <2>4, LetsFact DEF TypeInv
  <2>5. CASE Guarded /\ Fault /\ UNCHANGED row
    <3>1. row' \in [Keys -> Rows] /\ Lets(h)
      BY <2>5, PlaceFact DEF Lets
    <3> QED
      BY <1>1, <2>1, <2>2, <2>3, <2>5, <3>1, FaultFact
  <2> QED
    BY <1>2, <2>4, <2>5 DEF Refuse
<1>3. CASE AlreadyGone(h)
  <2>1. /\ hpc[h] = "running" /\ UNCHANGED <<cliVars, row, executed, licence, faults>>
        /\ Respond(h, Refusal(404, "not_found")) \/ Respond(h, Refusal(409, "message_not_pending"))
    BY <1>3 DEF AlreadyGone, NotFound
  <2>2. row' \in [Keys -> Rows] /\ Lets(h) /\ faults' \in 0..MaxFaults
    BY <2>1, PlaceFact DEF Lets, TypeInv
  <2> QED
    BY <1>1, <2>1, <2>2, CataloguedAnswers
<1>4. CASE Panic(h) /\ hpc[h] = "running"
  <2>1. /\ Fault /\ Respond(h, Refusal(500, "internal_error"))
        /\ row' = IF Guarded THEN [row EXCEPT ![KeyOf(h[1])] = Released(@)] ELSE row
        /\ licence' = licence /\ UNCHANGED <<cliVars, executed>>
    BY <1>4 DEF Panic, StoreError, Unrecorded, TypeInv
  <2> QED
    BY <1>1, <1>4, <2>1, LetsFact, FaultFact, CataloguedAnswers
<1> QED
  BY <1>2, <1>3, <1>4

\* Commit, likewise.
LEMMA CommitsFact ==
  ASSUME TypeInv, NEW h \in Handlers, Commit(h)
  PROVE  Frame(h) /\ Commits(h)
<1>1. /\ hpc[h] = "running" /\ (mode = "direct" => executed = {}) /\ executed' = executed \union {h}
      /\ row' = IF mode = "atomic" THEN [row EXCEPT ![KeyOf(h[1])] = Completed(@, h)] ELSE row
      /\ Step(h, "committed") /\ UNCHANGED <<cliVars, reply, licence, faults>>
  BY DEF Commit
<1>2. "committed" \in HandlerStates /\ Completed(row[group[h[1]]], h) \in Rows /\ KeyOf(h[1]) = group[h[1]]
  BY PlaceFact, RowFacts DEF HandlerStates
<1>3. row' \in [Keys -> Rows] /\ (IF mode = "atomic" THEN Writes(h, Completed(row[group[h[1]]], h)) ELSE row' = row)
  <2>1. CASE mode = "atomic"
    BY <1>1, <1>2, <2>1, WriteFact
  <2>2. CASE mode # "atomic"
    BY <1>1, <2>2, PlaceFact
  <2> QED
    BY <2>1, <2>2
<1>4. executed' \subseteq Handlers
  BY <1>1 DEF TypeInv
<1> QED
  BY <1>1, <1>2, <1>3, <1>4, StepFact, PlaceFact DEF Frame, Commits, TypeInv

\* The two ends after a commit, likewise.
LEMMA FinishesFact ==
  ASSUME TypeInv, NEW h \in Handlers, Finish(h) \/ FinishUnrecorded(h)
  PROVE  Frame(h) /\ Finishes(h)
<1>1. hpc[h] = "committed" /\ Succeeded(h) /\ UNCHANGED <<cliVars, executed>>
  BY DEF Finish, FinishUnrecorded
<1>2. /\ hpc' \in [Handlers -> HandlerStates] /\ reply' \in [Handlers -> Replies] /\ AnsweredOk(h, h)
      /\ \A g \in Handlers \ {h} : hpc'[g] = hpc[g] /\ reply'[g] = reply[g]
  BY <1>1, SucceedsFact DEF Succeeded
<1>3. CASE Finish(h)
  <2>1. /\ row' = IF Guarded THEN [row EXCEPT ![KeyOf(h[1])] = Completed(@, h)] ELSE row
        /\ UNCHANGED <<licence, faults>>
    BY <1>3 DEF Finish
  <2>2. CASE Guarded
    <3>1. Completed(row[group[h[1]]], h) \in Rows /\ KeyOf(h[1]) = group[h[1]]
      BY PlaceFact, RowFacts
    <3>2. row' \in [Keys -> Rows] /\ Writes(h, Completed(row[group[h[1]]], h))
      BY <2>1, <2>2, <3>1, WriteFact
    <3> QED
      BY <1>1, <1>2, <2>1, <2>2, <3>2 DEF Frame, Finishes, TypeInv
  <2>3. CASE ~Guarded
    BY <1>1, <1>2, <2>1, <2>3, PlaceFact DEF Frame, Finishes, TypeInv, Guarded
  <2> QED
    BY <2>2, <2>3
<1>4. CASE FinishUnrecorded(h)
  <2>1. Fault /\ row' = row /\ licence' = (licence /\ ~Unrecorded(h))
    BY <1>4 DEF FinishUnrecorded
  <2> QED
    BY <1>1, <1>2, <2>1, FaultFact, PlaceFact DEF Frame, Finishes, TypeInv, Unrecorded
<1> QED
  BY <1>3, <1>4

\* A panic after the commit, likewise.
LEMMA FailsFact ==
  ASSUME TypeInv, NEW h \in Handlers, Panic(h), hpc[h] = "committed"
  PROVE  Frame(h) /\ Fails(h)
<1>1. /\ Fault /\ Respond(h, Refusal(500, "internal_error"))
      /\ row' = IF Guarded THEN [row EXCEPT ![KeyOf(h[1])] = Released(@)] ELSE row
      /\ licence' = (licence /\ mode \notin {"posthoc", "auto"}) /\ UNCHANGED <<cliVars, executed>>
  BY DEF Panic, StoreError, Unrecorded
<1>2. /\ hpc' \in [Handlers -> HandlerStates] /\ reply' \in [Handlers -> Replies] /\ Refused(h)
      /\ \A g \in Handlers \ {h} : hpc'[g] = hpc[g] /\ reply'[g] = reply[g]
  BY <1>1, RefusedFact, CataloguedAnswers
<1> QED
  BY <1>1, <1>2, LetsFact, FaultFact DEF Frame, Fails, TypeInv

\* A crash, likewise.
LEMMA DiesFact ==
  ASSUME TypeInv, NEW h \in Handlers, Crash(h)
  PROVE  Frame(h) /\ Dies(h)
<1>1. /\ hpc[h] \in {"classify", "running", "committed"} /\ Fault /\ Step(h, "done")
      /\ licence' = (licence /\ ~Unrecorded(h)) /\ UNCHANGED <<cliVars, reply, row, executed>>
  BY DEF Crash
<1>2. "done" \in HandlerStates
  BY DEF HandlerStates
<1> QED
  BY <1>1, <1>2, StepFact, FaultFact, PlaceFact DEF Frame, Dies, TypeInv, Unrecorded

\* Only guarded handlers are ever sent to classify.
Classified == \A h \in Handlers : hpc[h] = "classify" => Guarded

\* Every step of a handler is one of the effects.
LEMMA HandlerFacts ==
  ASSUME TypeInv, Classified, NEW h \in Handlers, HandlerStep(h)
  PROVE  Frame(h) /\ Effect(h)
<1>1. CASE Run(h) \/ ClaimLost(h)
  BY <1>1, BeginsFact DEF Effect
<1>2. CASE Claim(h)
  BY <1>2, TakesFact DEF Effect
<1>3. CASE Classify(h) \/ ClaimFails(h) \/ Unresolved(h)
  BY <1>3, ReadsFact DEF Effect, Classified, Classify
<1>4. CASE Refuse(h) \/ AlreadyGone(h)
  BY <1>4, GivesUpFact DEF Effect
<1>5. CASE Commit(h)
  BY <1>5, CommitsFact DEF Effect
<1>6. CASE Finish(h) \/ FinishUnrecorded(h)
  BY <1>6, FinishesFact DEF Effect
<1>7. CASE Panic(h)
  <2>1. hpc[h] \in {"running", "committed"}
    BY <1>7 DEF Panic
  <2> QED
    BY <1>7, <2>1, GivesUpFact, FailsFact DEF Effect
<1>8. CASE Crash(h)
  BY <1>8, DiesFact DEF Effect
<1> QED
  BY <1>1, <1>2, <1>3, <1>4, <1>5, <1>6, <1>7, <1>8 DEF HandlerStep
-----------------------------------------------------------------------------
(* The invariant.                                                          *)

SameKey(g, h) == group[g[1]] = group[h[1]]
Holds(h) == hpc[h] \in {"running", "committed"}

\* A handler executes once, and what it wrote waits to be read.
Executing ==
  /\ \A h \in executed : hpc[h] \in {"committed", "replied", "done"}
  /\ \A h \in Handlers : hpc[h] = "committed" => h \in executed
  /\ \A h \in Handlers : reply[h] # NoReply => hpc[h] = "replied"

\* While the guarantee stands a key has one holder, its row is the holder's
\* claim or records the one execution of the key.
Claims ==
  Guarded /\ licence =>
    /\ \A g, h \in Handlers : Holds(g) /\ Holds(h) /\ SameKey(g, h) => g = h
    /\ \A g \in Handlers : hpc[g] = "running" =>
         /\ row[group[g[1]]].status = "in_progress" /\ row[group[g[1]]].hash = body[g[1]]
         /\ \A e \in executed : ~SameKey(e, g)
    /\ \A e \in executed :
         /\ row[group[e[1]]].hash = body[e[1]]
         /\ \/ row[group[e[1]]].status = "completed"
            \/ row[group[e[1]]].status = "in_progress" /\ hpc[e] = "committed" /\ mode # "atomic"
    /\ \A e, f \in executed : SameKey(e, f) => e = f

\* A completed row names an execution of its key, asked for by its body.
Recorded ==
  \A k \in Keys : row[k].status = "completed" =>
    /\ row[k].result \in executed /\ group[row[k].result[1]] = k
    /\ licence => row[k].hash = body[row[k].result[1]]

OkReply(h) ==
  /\ reply[h].status \in Successes /\ reply[h].code = NoCode
  /\ reply[h].result \in executed /\ SameKey(reply[h].result, h)
  /\ licence => body[reply[h].result[1]] = body[h[1]]

ErrorReply(h) ==
  /\ Catalogued(reply[h].status, reply[h].code)
  /\ reply[h].code = "not_found" => h \notin executed

\* A success a handler wrote is that of an execution for the same key and body;
\* any other answer is one of the catalogue.
Answers == \A h \in Handlers : reply[h] = NoReply \/ OkReply(h) \/ ErrorReply(h)

\* What a call has thrown, and what the attempt it threw for had done.
Blame(c) ==
  \/ outcome[c].kind # "error" /\ outcome[c].error = NoError
  \/ outcome[c].kind = "error" /\ outcome[c].error = connectionError
  \/ outcome[c].kind = "error" /\ \E s \in Undeclared : outcome[c].error = toE2AError(s, NoCode)
  \/ /\ outcome[c].kind = "error"
     /\ \E a \in Catalog :
          /\ outcome[c].error = toE2AError(a.status, a.code)
          /\ a.code = "not_found" => hpc[<<c, attempt[c]>>] = "done" /\ <<c, attempt[c]>> \notin executed

Throws == \A c \in Calls : Blame(c)

Inv == TypeInv /\ Classified /\ Sequential /\ Executing /\ Claims /\ Recorded /\ Answers /\ Throws

\* The invariant holds at first.
LEMMA InitInv ==
  ASSUME Init
  PROVE  Inv
<1>1. TypeInv
  <2>1. NoRow \in Rows /\ NoReply \in Replies /\ Pending \in Outcomes
    BY DEF NoRow, Rows, NoReply, Replies, Pending, Outcomes, Errs, Statuses
  <2>2. MaxRetries \in Nat /\ MaxFaults \in Nat
    BY RetriesAssumption, FaultsAssumption
  <2>3. callerKey \in BOOLEAN
    BY DEF Init
  <2>4. /\ attempt \in [Calls -> 0..MaxRetries] /\ faults \in 0..MaxFaults
        /\ outcome \in [Calls -> Outcomes] /\ reply \in [Handlers -> Replies] /\ row \in [Keys -> Rows]
    BY <2>1, <2>2 DEF Init
  <2> QED
    BY <2>3, <2>4 DEF Init, TypeInv
<1>2. Classified /\ Executing /\ Claims
  BY HandlerFact DEF Init, Classified, Executing, Claims, Holds
<1>3. Sequential
  BY HandlerFact DEF Init, Sequential
<1>4. Recorded
  BY DEF Init, Recorded, NoRow
<1>5. Answers
  BY DEF Init, Answers
<1>6. Throws
  BY DEF Init, Throws, Blame, Pending
<1> QED
  BY <1>1, <1>2, <1>3, <1>4, <1>5, <1>6 DEF Inv

\* A step of h finds it at work, and changes no other handler's state.
LEMMA EffectFacts ==
  ASSUME TypeInv, Executing, NEW h \in Handlers, Frame(h), Effect(h)
  PROVE  /\ hpc[h] \in {"sent", "classify", "running", "committed"} /\ reply[h] = NoReply
         /\ hpc'[h] \in HandlerStates \ {"none", "sent"}
         /\ executed \subseteq executed' /\ executed' \subseteq executed \union {h}
         /\ h \in executed' \ executed => hpc[h] = "running" /\ hpc'[h] = "committed"
         /\ licence' => licence
<1>1. /\ Refused(h) => hpc'[h] \in {"replied", "done"}
      /\ \A e : AnsweredOk(h, e) => hpc'[h] \in {"replied", "done"}
  BY DEF Refused, AnsweredOk, Answered
<1> QED
  BY <1>1 DEF Effect, Begins, Takes, Reads, GivesUp, Commits, Finishes, Fails, Dies, Executing, TypeInv, HandlerStates

\* Time passes over one row.
LEMMA TimeFacts ==
  ASSUME TypeInv, NEW k \in Keys, Age(k) \/ Sweep(k)
  PROVE  /\ UNCHANGED <<reqVars, cliVars, hpc, reply, executed, faults>>
         /\ row' \in [Keys -> Rows]
         /\ licence' \in BOOLEAN /\ (licence' => licence)
         /\ \A j \in Keys \ {k} : row'[j] = row[j]
         /\ row'[k].status = "completed" \/ licence' =>
              row'[k].status = row[k].status /\ row'[k].hash = row[k].hash /\ row'[k].result = row[k].result
<1>1. CASE Age(k)
  <2>1. row' = [row EXCEPT ![k].stale = TRUE] /\ UNCHANGED <<reqVars, cliVars, hpc, reply, executed, licence, faults>>
    BY <1>1 DEF Age
  <2>2. row[k] \in Rows /\ row \in [Keys -> Rows]
    BY DEF TypeInv
  <2>3. [row[k] EXCEPT !.stale = TRUE] \in Rows
    BY <2>2 DEF Rows
  <2> QED
    BY <2>1, <2>2, <2>3 DEF TypeInv, Rows
<1>2. CASE Sweep(k)
  BY <1>2 DEF Sweep, TypeInv, NoRow, Rows
<1> QED
  BY <1>1, <1>2
-----------------------------------------------------------------------------
(* A step of a call preserves the invariant.                               *)

\* The codes of the catalogue are codes.
LEMMA NoEmptyCode ==
  ASSUME NEW a \in Catalog
  PROVE  a.code # NoCode
<1>1. a.status \in {400, 401, 402, 403, 404, 409, 410, 413, 422, 429, 500, 501, 503} /\ a.code \in CatalogStatus[a.status]
  BY CatalogMember, CatalogDomain
<1>2. NoCode \notin CatalogStatus[400]
  BY DEF CatalogStatus, InvalidFamily, NoCode
<1>3. NoCode \notin CatalogStatus[404] /\ NoCode \notin CatalogStatus[409]
  BY DEF CatalogStatus, NotFoundFamily, TakenFamily, NoCode
<1>4. /\ NoCode \notin CatalogStatus[401] /\ NoCode \notin CatalogStatus[402] /\ NoCode \notin CatalogStatus[403]
      /\ NoCode \notin CatalogStatus[410] /\ NoCode \notin CatalogStatus[413] /\ NoCode \notin CatalogStatus[422]
      /\ NoCode \notin CatalogStatus[429] /\ NoCode \notin CatalogStatus[500] /\ NoCode \notin CatalogStatus[501]
      /\ NoCode \notin CatalogStatus[503]
  BY DEF CatalogStatus, NoCode
<1> QED
  BY <1>1, <1>2, <1>3, <1>4

\* What a call makes of the response it hears.
LEMMA ResultFact ==
  ASSUME TypeInv, Answers, NEW h \in Handlers
  PROVE  LET r == reply[h] IN
         \/ Result(r) = Thrown(connectionError)
         \/ OkReply(h) /\ Result(r) = Returned(r.result)
         \/ \E s \in Undeclared : Result(r) = Thrown(toE2AError(s, NoCode))
         \/ \E a \in Catalog :
              /\ Result(r) = Thrown(toE2AError(a.status, a.code))
              /\ a.code = "not_found" => h \notin executed
<1> DEFINE r == reply[h]
<1>1. responses.ok \subseteq 200..299
  BY OperationsAssumption DEF TypeInv, responses
<1>2. CASE r = NoReply
  BY <1>2 DEF Result
<1>3. CASE r # NoReply /\ r.status \in responses.ok
  <2>1. Result(r) = Returned(r.result)
    BY <1>3 DEF Result
  <2>2. ~Catalogued(r.status, r.code)
    <3>1. ASSUME Catalogued(r.status, r.code) PROVE r.status >= 400
      BY <3>1, CatalogFact DEF Catalogued
    <3> QED
      BY <1>1, <1>3, <3>1
  <2>3. OkReply(h)
    BY <1>3, <2>2 DEF Answers, ErrorReply
  <2> QED
    BY <2>1, <2>3
<1>4. CASE r # NoReply /\ r.status \notin responses.ok
  <2>1. Result(r) = Thrown(toE2AError(r.status, r.code))
    BY <1>4 DEF Result
  <2>2. CASE OkReply(h)
    BY <1>4, <2>1, <2>2 DEF OkReply, Undeclared
  <2>3. CASE ErrorReply(h)
    <3> DEFINE a == [status |-> r.status, code |-> r.code]
    <3>1. a \in Catalog /\ a.status = r.status /\ a.code = r.code
      BY <2>3 DEF ErrorReply, Catalogued
    <3>2. a.code = "not_found" => h \notin executed
      BY <2>3, <3>1 DEF ErrorReply
    <3> HIDE DEF a
    <3> QED
      BY <2>1, <3>1, <3>2
  <2> QED
    BY <1>4, <2>2, <2>3 DEF Answers
<1> QED
  BY <1>2, <1>3, <1>4

\* What a call can end with.
LEMMA OutcomeTypes ==
  /\ Thrown(connectionError) \in Outcomes
  /\ \A e \in Handlers \union {NoHandler} : Returned(e) \in Outcomes
  /\ \A s \in {200, 201, 202} : Thrown(toE2AError(s, NoCode)) \in Outcomes
  /\ \A a \in Catalog : Thrown(toE2AError(a.status, a.code)) \in Outcomes
<1>1. ASSUME NEW e \in Errs PROVE Thrown(e) \in Outcomes
  BY <1>1 DEF Thrown, Outcomes
<1>2. \A e \in Handlers \union {NoHandler} : Returned(e) \in Outcomes
  BY DEF Returned, Outcomes, Errs
<1> QED
  BY <1>1, <1>2 DEF Errs

\* A call settles with an outcome of one of these kinds.
LEMMA SettledFact ==
  ASSUME TypeInv, Answers, NEW c \in Calls, ClientStep(c)
  PROVE  LET h == <<c, attempt[c]>> IN
         \/ cpc'[c] # "done" /\ outcome'[c] = outcome[c]
         \/ /\ cpc'[c] = "done" /\ cpc[c] # "done" /\ attempt'[c] = attempt[c]
            /\ \/ outcome'[c] = Thrown(connectionError)
               \/ OkReply(h) /\ outcome'[c] = Returned(reply[h].result)
               \/ \E s \in Undeclared : outcome'[c] = Thrown(toE2AError(s, NoCode))
               \/ \E a \in Catalog :
                    /\ outcome'[c] = Thrown(toE2AError(a.status, a.code))
                    /\ a.code = "not_found" => h \notin executed /\ hpc'[h] = "done"
<1> DEFINE h == <<c, attempt[c]>>
<1>1. h \in Handlers
  BY ClientFacts
<1>2. \/ cpc'[c] # "done" /\ outcome'[c] = outcome[c]
      \/ /\ cpc'[c] = "done" /\ cpc[c] # "done" /\ attempt'[c] = attempt[c]
         /\ \/ outcome'[c] = Thrown(connectionError)
            \/ outcome'[c] = Result(reply[h]) /\ hpc[h] = "replied" /\ hpc'[h] = "done"
  <2> HIDE DEF h
  <2> QED
    BY ClientFacts DEF h
<1> HIDE DEF h
<1>3. \/ Result(reply[h]) = Thrown(connectionError)
      \/ OkReply(h) /\ Result(reply[h]) = Returned(reply[h].result)
      \/ \E s \in Undeclared : Result(reply[h]) = Thrown(toE2AError(s, NoCode))
      \/ \E a \in Catalog :
           /\ Result(reply[h]) = Thrown(toE2AError(a.status, a.code))
           /\ a.code = "not_found" => h \notin executed
  BY <1>1, ResultFact
<1>4. \/ cpc'[c] # "done" /\ outcome'[c] = outcome[c]
      \/ /\ cpc'[c] = "done" /\ cpc[c] # "done" /\ attempt'[c] = attempt[c]
         /\ \/ outcome'[c] = Thrown(connectionError)
            \/ OkReply(h) /\ outcome'[c] = Returned(reply[h].result)
            \/ \E s \in Undeclared : outcome'[c] = Thrown(toE2AError(s, NoCode))
            \/ \E a \in Catalog :
                 /\ outcome'[c] = Thrown(toE2AError(a.status, a.code))
                 /\ a.code = "not_found" => h \notin executed /\ hpc'[h] = "done"
  BY <1>2, <1>3, Zenon
<1> QED
  BY <1>4 DEF h

\* The types of what a step of a call writes.
LEMMA ClientTypes ==
  ASSUME TypeInv, Sequential, Answers, NEW c \in Calls, ClientStep(c), UNCHANGED reqVars
  PROVE  TypeInv'
<1> DEFINE CallStates == {"absent", "idle", "sending", "waiting", "backoff", "done"}
           h == <<c, attempt[c]>>
           CallTypes == /\ cpc' \in [Calls -> CallStates] /\ attempt' \in [Calls -> 0..MaxRetries]
                        /\ outcome' \in [Calls -> Outcomes]
           HandlerTypes == hpc' \in [Handlers -> HandlerStates] /\ reply' \in [Handlers -> Replies]
                           /\ UNCHANGED <<row, executed, licence, faults>>
<1>1. /\ cpc \in [Calls -> CallStates] /\ attempt \in [Calls -> 0..MaxRetries] /\ outcome \in [Calls -> Outcomes]
      /\ hpc \in [Handlers -> HandlerStates] /\ reply \in [Handlers -> Replies] /\ h \in Handlers
      /\ cpc[c] = "backoff" => attempt[c] + 1 \in 0..MaxRetries
  BY HandlerFact DEF TypeInv, Sequential, HandlerStates
<1>2. ASSUME UNCHANGED srvVars PROVE HandlerTypes
  BY <1>1, <1>2 DEF srvVars
<1>3. ASSUME Hear(c) PROVE HandlerTypes
  <2>1. NoReply \in Replies
    BY DEF NoReply, Replies, Statuses
  <2>2. /\ hpc' = [hpc EXCEPT ![h] = IF hpc[h] = "replied" THEN "done" ELSE hpc[h]]
        /\ reply' = [reply EXCEPT ![h] = NoReply] /\ UNCHANGED <<row, executed, licence, faults>>
    BY <1>3 DEF Hear
  <2>3. (IF hpc[h] = "replied" THEN "done" ELSE hpc[h]) \in HandlerStates
    BY <1>1 DEF HandlerStates
  <2> HIDE DEF h
  <2> QED
    BY <1>1, <2>1, <2>2, <2>3
<1>4. ASSUME NEW o \in Outcomes, Settle(c, o) PROVE CallTypes
  BY <1>1, <1>4 DEF Settle
<1>5. ASSUME BackOff(c) PROVE CallTypes
  BY <1>1, <1>5 DEF BackOff
<1>6. Thrown(connectionError) \in Outcomes /\ Result(NoReply) = Thrown(connectionError)
  BY OutcomeTypes DEF Result
<1>7. Result(reply[h]) \in Outcomes
  <2>1. reply[h].result \in Handlers \union {NoHandler}
    BY <1>1 DEF Replies
  <2> HIDE DEF h
  <2> QED
    BY <1>1, <2>1, ResultFact, OutcomeTypes, SuccessRange
<1>8. CallTypes /\ HandlerTypes
  <2>1. CASE Start(c)
    BY <1>1, <1>2, <2>1 DEF Start
  <2>2. CASE MissingParameter(c)
    BY <1>2, <1>4, <1>6, <2>2 DEF MissingParameter
  <2>3. CASE Send(c)
    <3>1. cpc' = [cpc EXCEPT ![c] = "waiting"] /\ hpc' = [hpc EXCEPT ![h] = "sent"]
          /\ UNCHANGED <<attempt, outcome, reply, row, executed, licence, faults>>
      BY <2>3 DEF Send
    <3> HIDE DEF h
    <3> QED
      BY <1>1, <3>1 DEF HandlerStates
  <2>4. CASE Receive(c)
    <3>1. Hear(c) /\ (BackOff(c) \/ Settle(c, Result(reply[h])))
      BY <2>4 DEF Receive, Decide
    <3> HIDE DEF h
    <3> QED
      BY <1>3, <1>4, <1>5, <1>7, <3>1
  <2>5. CASE Lose(c)
    BY <1>3, <1>4, <1>5, <1>6, <2>5 DEF Lose, Decide
  <2>6. CASE Abort(c)
    BY <1>3, <1>4, <1>6, <2>6 DEF Abort
  <2>7. CASE Resume(c)
    <3>1. /\ cpc' = [cpc EXCEPT ![c] = "sending"] /\ cpc[c] = "backoff"
          /\ attempt' = [attempt EXCEPT ![c] = attempt[c] + 1] /\ UNCHANGED <<outcome, srvVars>>
      BY <2>7 DEF Resume
    <3> QED
      BY <1>1, <1>2, <3>1
  <2> QED
    BY <2>1, <2>2, <2>3, <2>4, <2>5, <2>6, <2>7 DEF ClientStep
<1> QED
  BY <1>8, RequestFacts DEF TypeInv, HandlerStates, Modes

\* A step of the client keeps the attempts in order.
LEMMA ClientSequential ==
  ASSUME Inv, NEW c \in Calls, ClientStep(c), UNCHANGED reqVars
  PROVE  Sequential' /\ Classified'
<1> DEFINE h == <<c, attempt[c]>>
<1>1. TypeInv /\ Sequential /\ Classified /\ isRetrySafe' = isRetrySafe /\ Guarded' = Guarded
  BY RequestFacts DEF Inv
<1>2. Classified'
  <2> HIDE DEF h
  <2>1. ASSUME NEW g \in Handlers, hpc'[g] = "classify" PROVE hpc[g] = "classify"
    <3>1. CASE g # h
      BY <1>1, <2>1, <3>1, ClientFacts DEF h
    <3>2. CASE g = h
      BY <1>1, <2>1, <3>2, ClientFacts DEF h
    <3> QED
      BY <3>1, <3>2
  <2> QED
    BY <1>1, <2>1 DEF Classified
<1>3. ASSUME NEW d \in Calls, d # c
      PROVE  /\ cpc'[d] = cpc[d] /\ attempt'[d] = attempt[d] /\ outcome'[d] = outcome[d]
             /\ \A n \in 0..MaxRetries : hpc'[<<d, n>>] = hpc[<<d, n>>]
  <2>1. ASSUME NEW n \in 0..MaxRetries PROVE <<d, n>> \in Handlers /\ <<d, n>> # h
    BY <1>3, HandlerFact
  <2>2. /\ \A g \in Handlers \ {h} : hpc'[g] = hpc[g]
        /\ cpc'[d] = cpc[d] /\ attempt'[d] = attempt[d] /\ outcome'[d] = outcome[d]
    BY <1>1, <1>3, ClientFacts
  <2> QED
    BY <2>1, <2>2, Zenon
<1>4. ASSUME NEW n \in 0..MaxRetries, n # attempt[c] PROVE hpc'[<<c, n>>] = hpc[<<c, n>>]
  <2>1. <<c, n>> \in Handlers /\ <<c, n>> # <<c, attempt[c]>>
    BY <1>4, HandlerFact
  <2> QED
    BY <1>1, <2>1, ClientFacts
<1>5. attempt[c] \in 0..MaxRetries /\ h \in Handlers /\ MaxRetries \in Nat
  BY <1>1, HandlerFact DEF TypeInv
<1>6. /\ \A n \in 0..MaxRetries : n > attempt[c] => hpc[<<c, n>>] = "none"
      /\ cpc[c] \in {"absent", "idle", "sending"} => hpc[h] = "none"
      /\ cpc[c] = "backoff" => attempt[c] < MaxRetries
      /\ ~isRetrySafe => attempt[c] = 0 /\ cpc[c] # "backoff"
      /\ cpc[c] # "done" => outcome[c] = Pending
  BY <1>1 DEF Sequential
<1>7. \/ cpc[c] = "idle" /\ cpc'[c] \in {"sending", "done"} /\ attempt'[c] = attempt[c] /\ hpc'[h] = hpc[h]
         /\ (outcome'[c] = outcome[c] \/ cpc'[c] = "done")
      \/ cpc[c] = "sending" /\ cpc'[c] = "waiting" /\ attempt'[c] = attempt[c] /\ outcome'[c] = outcome[c]
      \/ cpc'[c] = "done" /\ attempt'[c] = attempt[c] /\ cpc[c] # "done"
      \/ /\ cpc[c] = "waiting" /\ cpc'[c] = "backoff" /\ attempt'[c] = attempt[c] /\ outcome'[c] = outcome[c]
         /\ isRetrySafe /\ attempt[c] < MaxRetries
      \/ /\ cpc[c] = "backoff" /\ cpc'[c] = "sending" /\ attempt'[c] = attempt[c] + 1 /\ outcome'[c] = outcome[c]
         /\ hpc'[h] = hpc[h]
  <2> HIDE DEF h
  <2> QED
    BY <1>1, ClientFacts DEF h
<1>8. /\ \A n \in 0..MaxRetries : n > attempt'[c] => hpc'[<<c, n>>] = "none"
      /\ cpc'[c] \in {"absent", "idle", "sending"} => hpc'[<<c, attempt'[c]>>] = "none"
      /\ cpc'[c] = "backoff" => attempt'[c] < MaxRetries
      /\ ~isRetrySafe' => attempt'[c] = 0 /\ cpc'[c] # "backoff"
      /\ cpc'[c] # "done" => outcome'[c] = Pending
  <2>1. CASE cpc[c] = "backoff" /\ cpc'[c] = "sending" /\ attempt'[c] = attempt[c] + 1 /\ outcome'[c] = outcome[c]
             /\ hpc'[h] = hpc[h]
    <3>1. attempt'[c] \in 0..MaxRetries /\ attempt'[c] > attempt[c]
      BY <1>5, <1>6, <2>1
    <3>2. hpc'[<<c, attempt'[c]>>] = "none"
      BY <1>4, <1>5, <1>6, <3>1
    <3> QED
      BY <1>1, <1>4, <1>5, <1>6, <2>1, <3>1, <3>2
  <2>2. CASE attempt'[c] = attempt[c] /\ cpc[c] = "idle" /\ cpc'[c] \in {"sending", "done"} /\ hpc'[h] = hpc[h]
             /\ (outcome'[c] = outcome[c] \/ cpc'[c] = "done")
    BY <1>1, <1>4, <1>5, <1>6, <2>2
  <2>3. CASE attempt'[c] = attempt[c] /\ cpc'[c] \in {"waiting", "backoff"} /\ outcome'[c] = outcome[c]
             /\ cpc[c] # "done" /\ (cpc'[c] = "backoff" => isRetrySafe /\ attempt[c] < MaxRetries)
    BY <1>1, <1>4, <1>5, <1>6, <2>3
  <2>4. CASE cpc'[c] = "done" /\ attempt'[c] = attempt[c]
    BY <1>1, <1>4, <1>5, <1>6, <2>4
  <2> QED
    BY <1>7, <2>1, <2>2, <2>3, <2>4
<1>9. ASSUME NEW d \in Calls
      PROVE  /\ \A n \in 0..MaxRetries : n > attempt'[d] => hpc'[<<d, n>>] = "none"
             /\ cpc'[d] \in {"absent", "idle", "sending"} => hpc'[<<d, attempt'[d]>>] = "none"
             /\ cpc'[d] = "backoff" => attempt'[d] < MaxRetries
             /\ ~isRetrySafe' => attempt'[d] = 0 /\ cpc'[d] # "backoff"
             /\ cpc'[d] # "done" => outcome'[d] = Pending
  <2>1. CASE d = c
    BY <1>8, <2>1
  <2>2. CASE d # c
    <3>1. attempt[d] \in 0..MaxRetries
      BY <1>1 DEF TypeInv
    <3> QED
      BY <1>1, <1>3, <2>2, <3>1 DEF Sequential
  <2> QED
    BY <2>1, <2>2
<1> QED
  BY <1>2, <1>9 DEF Sequential

\* What a step of a call does to its handlers.
LEMMA ClientHandlers ==
  ASSUME TypeInv, Sequential, Executing, NEW c \in Calls, ClientStep(c)
  PROVE  /\ UNCHANGED <<row, executed, licence, faults>>
         /\ \A g \in Handlers :
              /\ \/ hpc'[g] = hpc[g]
                 \/ hpc[g] = "none" /\ hpc'[g] = "sent"
                 \/ hpc[g] = "replied" /\ hpc'[g] = "done"
              /\ reply'[g] = reply[g] \/ reply'[g] = NoReply
              /\ reply'[g] # NoReply => hpc'[g] = "replied"
         /\ \A g \in Handlers : g[1] # c => hpc'[g] = hpc[g]
<1> DEFINE h == <<c, attempt[c]>>
<1>1. /\ UNCHANGED <<row, executed, licence, faults>> /\ h \in Handlers
      /\ \A g \in Handlers \ {h} : hpc'[g] = hpc[g] /\ reply'[g] = reply[g]
  BY ClientFacts
<1>2. cpc[c] = "sending" => hpc[h] = "none"
  BY DEF Sequential
<1>3. /\ \/ hpc'[h] = hpc[h]
         \/ hpc[h] = "none" /\ hpc'[h] = "sent"
         \/ hpc[h] = "replied" /\ hpc'[h] = "done"
      /\ \/ reply'[h] = NoReply
         \/ reply'[h] = reply[h] /\ hpc'[h] = hpc[h]
         \/ reply'[h] = reply[h] /\ hpc[h] = "none"
  <2> HIDE DEF h
  <2> QED
    BY <1>2, ClientFacts DEF h
<1>4. h[1] = c
  OBVIOUS
<1> HIDE DEF h
<1> QED
  BY <1>1, <1>3, <1>4 DEF Executing

\* A step of the client leaves the rows and the executions alone.
LEMMA ClientGuard ==
  ASSUME Inv, NEW c \in Calls, ClientStep(c), UNCHANGED reqVars
  PROVE  Executing' /\ Claims' /\ Recorded' /\ Answers'
<1>1. TypeInv /\ Sequential /\ Executing /\ Claims /\ Recorded /\ Answers
  BY DEF Inv
<1>2. /\ UNCHANGED <<row, executed, licence, faults>>
      /\ \A g \in Handlers :
              /\ \/ hpc'[g] = hpc[g]
                 \/ hpc[g] = "none" /\ hpc'[g] = "sent"
                 \/ hpc[g] = "replied" /\ hpc'[g] = "done"
              /\ reply'[g] = reply[g] \/ reply'[g] = NoReply
              /\ reply'[g] # NoReply => hpc'[g] = "replied"
  BY <1>1, ClientHandlers
<1>3. group' = group /\ Guarded' = Guarded /\ body' = body /\ mode' = mode
  BY RequestFacts
<1>4. executed \subseteq Handlers
  BY <1>1 DEF TypeInv
<1>5. Executing'
  BY <1>1, <1>2, <1>4 DEF Executing
<1>6. Claims'
  <2>1. /\ \A g \in Handlers : Holds(g)' => Holds(g)
        /\ \A g \in Handlers : hpc'[g] = "running" => hpc[g] = "running"
        /\ \A g \in Handlers : hpc[g] = "committed" => hpc'[g] = "committed"
    BY <1>2 DEF Holds
  <2>2. \A g, e : SameKey(e, g)' = SameKey(e, g)
    BY <1>3 DEF SameKey
  <2> QED
    BY <1>1, <1>2, <1>3, <1>4, <2>1, <2>2 DEF Claims
<1>7. Recorded'
  BY <1>1, <1>2, <1>3 DEF Recorded
<1>8. Answers'
  BY <1>1, <1>2, <1>3, RequestFacts DEF Answers, OkReply, ErrorReply, SameKey
<1> QED
  BY <1>5, <1>6, <1>7, <1>8

\* What a thrown error is based on stays true.
LEMMA BlameStays ==
  ASSUME NEW c \in Calls, Blame(c), outcome'[c] = outcome[c], attempt'[c] = attempt[c],
         Undeclared' = Undeclared,
         hpc[<<c, attempt[c]>>] = "done" /\ <<c, attempt[c]>> \notin executed =>
           hpc'[<<c, attempt[c]>>] = "done" /\ <<c, attempt[c]>> \notin executed'
  PROVE  Blame(c)'
<1> DEFINE h == <<c, attempt[c]>>
<1>1. <<c, attempt'[c]>> = h
  OBVIOUS
<1> HIDE DEF h
<1>2. hpc[h] = "done" /\ h \notin executed => hpc'[h] = "done" /\ h \notin executed'
  BY DEF h
<1>3. CASE /\ outcome[c].kind = "error"
           /\ \E a \in Catalog :
                /\ outcome[c].error = toE2AError(a.status, a.code)
                /\ a.code = "not_found" => hpc[h] = "done" /\ h \notin executed
  <2>1. PICK a \in Catalog : /\ outcome[c].error = toE2AError(a.status, a.code)
                             /\ a.code = "not_found" => hpc[h] = "done" /\ h \notin executed
    BY <1>3
  <2> QED
    BY <1>1, <1>2, <1>3, <2>1, Zenon DEF Blame
<1> QED
  BY <1>3, Zenon DEF Blame, h

\* A step of the client throws for a reason.
LEMMA ClientThrows ==
  ASSUME Inv, NEW c \in Calls, ClientStep(c), UNCHANGED reqVars
  PROVE  Throws'
<1>1. TypeInv /\ Sequential /\ Executing /\ Answers /\ Throws
  BY DEF Inv
<1>2. executed' = executed
  BY <1>1, ClientFacts
<1>3. ASSUME NEW d \in Calls, d # c PROVE Blame(d)'
  <2> DEFINE g == <<d, attempt[d]>>
  <2>1. g \in Handlers /\ g[1] # c
    BY <1>1, <1>3, HandlerFact DEF TypeInv
  <2>2. outcome'[d] = outcome[d] /\ attempt'[d] = attempt[d]
    BY <1>1, <1>3, ClientFacts
  <2>3. hpc'[g] = hpc[g]
    <3> HIDE DEF g
    <3> QED
      BY <1>1, <2>1, ClientHandlers
  <2>4. Blame(d)
    BY <1>1 DEF Throws
  <2> QED
    BY <1>2, <2>2, <2>3, <2>4, BlameStays, RequestFacts
<1>4. CASE cpc'[c] # "done" /\ outcome'[c] = outcome[c]
  <2>1. cpc[c] # "done"
    BY <1>1, <1>4, ClientFacts
  <2>2. outcome'[c] = Pending
    BY <1>1, <1>4, <2>1 DEF Sequential
  <2>3. Pending.kind = "pending" /\ Pending.error = NoError
    BY DEF Pending
  <2>4. Blame(c)'
    BY <2>2, <2>3 DEF Blame
  <2> QED
    BY <1>3, <2>4 DEF Throws
<1>5. CASE /\ cpc'[c] = "done" /\ cpc[c] # "done" /\ attempt'[c] = attempt[c]
           /\ \/ outcome'[c] = Thrown(connectionError)
              \/ OkReply(<<c, attempt[c]>>) /\ outcome'[c] = Returned(reply[<<c, attempt[c]>>].result)
              \/ \E s \in Undeclared : outcome'[c] = Thrown(toE2AError(s, NoCode))
              \/ \E a \in Catalog :
                   /\ outcome'[c] = Thrown(toE2AError(a.status, a.code))
                   /\ a.code = "not_found" => <<c, attempt[c]>> \notin executed /\ hpc'[<<c, attempt[c]>>] = "done"
  <2>1. /\ \A e : Thrown(e).kind = "error" /\ Thrown(e).error = e
        /\ \A e : Returned(e).kind = "ok" /\ Returned(e).error = NoError
    BY DEF Thrown, Returned
  <2>2. CASE \E a \in Catalog :
               /\ outcome'[c] = Thrown(toE2AError(a.status, a.code))
               /\ a.code = "not_found" => <<c, attempt[c]>> \notin executed /\ hpc'[<<c, attempt[c]>>] = "done"
    <3>1. \E a \in Catalog :
            /\ outcome'[c].error = toE2AError(a.status, a.code)
            /\ a.code = "not_found" => hpc'[<<c, attempt'[c]>>] = "done" /\ <<c, attempt'[c]>> \notin executed'
      BY <1>2, <1>5, <2>1, <2>2, Zenon
    <3>2. outcome'[c].kind = "error"
      BY <2>1, <2>2
    <3> QED
      BY <1>3, <3>1, <3>2 DEF Throws, Blame
  <2>3. CASE \E s \in Undeclared : outcome'[c] = Thrown(toE2AError(s, NoCode))
    <3>1. Blame(c)'
      BY <2>1, <2>3, RequestFacts DEF Blame
    <3> QED
      BY <1>3, <3>1 DEF Throws
  <2>4. CASE outcome'[c] = Thrown(connectionError) \/ \E e : outcome'[c] = Returned(e)
    <3>1. Blame(c)'
      BY <2>1, <2>4 DEF Blame
    <3> QED
      BY <1>3, <3>1 DEF Throws
  <2> QED
    BY <1>5, <2>2, <2>3, <2>4
<1> QED
  BY <1>1, <1>4, <1>5, SettledFact

\* The calls of the program preserve the invariant.
LEMMA ClientInv ==
  ASSUME Inv, NEW c \in Calls, ClientStep(c), UNCHANGED reqVars
  PROVE  Inv'
<1>1. TypeInv'
  BY ClientTypes DEF Inv
<1> QED
  BY <1>1, ClientSequential, ClientGuard, ClientThrows DEF Inv
-----------------------------------------------------------------------------
(* A step of a handler preserves the invariant.                            *)

\* A step of a handler keeps the types and the order of the attempts.
LEMMA HandlerBasics ==
  ASSUME Inv, NEW h \in Handlers, HandlerStep(h), UNCHANGED reqVars
  PROVE  TypeInv' /\ Classified' /\ Sequential' /\ Executing' /\ Throws'
<1>1. TypeInv /\ Classified /\ Sequential /\ Executing /\ Throws
  BY DEF Inv
<1>2. Frame(h) /\ Effect(h)
  BY <1>1, HandlerFacts
<1>3. /\ hpc[h] \in {"sent", "classify", "running", "committed"} /\ reply[h] = NoReply
      /\ hpc'[h] \in HandlerStates \ {"none", "sent"}
      /\ executed \subseteq executed' /\ executed' \subseteq executed \union {h}
      /\ h \in executed' \ executed => hpc[h] = "running" /\ hpc'[h] = "committed"
      /\ licence' => licence
  BY <1>1, <1>2, EffectFacts
<1>4. /\ UNCHANGED cliVars /\ \A g \in Handlers \ {h} : hpc'[g] = hpc[g] /\ reply'[g] = reply[g]
  BY <1>2 DEF Frame
<1>5. Guarded' = Guarded /\ isRetrySafe' = isRetrySafe
  BY RequestFacts
<1>6. TypeInv'
  BY <1>1, <1>2, <1>4, RequestFacts DEF TypeInv, Frame, HandlerStates, cliVars, Modes
<1>7. Classified'
  <2>1. hpc'[h] = "classify" => Guarded
    BY <1>2 DEF Effect, Begins, Takes, Reads, GivesUp, Commits, Finishes, Fails, Dies, Refused, AnsweredOk, Answered
  <2> QED
    BY <1>1, <1>4, <1>5, <2>1 DEF Classified
<1>8. Sequential'
  <2>1. \A g \in Handlers : hpc[g] = "none" => hpc'[g] = "none"
    BY <1>3, <1>4
  <2>2. cpc' = cpc /\ attempt' = attempt /\ outcome' = outcome
    BY <1>4 DEF cliVars
  <2>3. attempt \in [Calls -> 0..MaxRetries]
    BY <1>1 DEF TypeInv
  <2> QED
    BY <1>1, <1>5, <2>1, <2>2, <2>3, HandlerFact DEF Sequential
<1>9. Executing'
  <2>1. ASSUME NEW g \in executed' PROVE hpc'[g] \in {"committed", "replied", "done"}
    <3>1. CASE g # h
      BY <1>1, <1>3, <1>4, <2>1, <3>1 DEF Executing, TypeInv
    <3>2. CASE g = h /\ h \notin executed
      BY <1>3, <2>1, <3>2
    <3>3. CASE g = h /\ h \in executed
      <4>1. hpc[h] = "committed"
        BY <1>1, <1>3, <3>3 DEF Executing
      <4> QED
        BY <1>2, <3>3, <4>1 DEF Effect, Begins, Takes, Reads, GivesUp, Commits, Finishes, Fails, Dies, Refused, AnsweredOk, Answered
    <3> QED
      BY <3>1, <3>2, <3>3
  <2>2. ASSUME NEW g \in Handlers, hpc'[g] = "committed" PROVE g \in executed'
    <3>1. CASE g # h
      BY <1>1, <1>3, <1>4, <2>2, <3>1 DEF Executing
    <3>2. CASE g = h
      <4>1. Commits(h)
        BY <1>2, <2>2, <3>2 DEF Effect, Begins, Takes, Reads, GivesUp, Finishes, Fails, Dies, Refused, AnsweredOk, Answered
      <4> QED
        BY <3>2, <4>1 DEF Commits
    <3> QED
      BY <3>1, <3>2
  <2>3. ASSUME NEW g \in Handlers, reply'[g] # NoReply PROVE hpc'[g] = "replied"
    <3>1. CASE g # h
      BY <1>1, <1>4, <2>3, <3>1 DEF Executing
    <3>2. CASE g = h
      BY <1>2, <1>3, <2>3, <3>2 DEF Effect, Begins, Takes, Reads, GivesUp, Commits, Finishes, Fails, Dies, Refused, AnsweredOk, Answered
    <3> QED
      BY <3>1, <3>2
  <2> QED
    BY <2>1, <2>2, <2>3 DEF Executing
<1>10. Throws'
  <2>1. attempt' = attempt /\ outcome' = outcome
    BY <1>4 DEF cliVars
  <2>2. ASSUME NEW c \in Calls, hpc[<<c, attempt[c]>>] = "done", <<c, attempt[c]>> \notin executed
        PROVE  hpc'[<<c, attempt[c]>>] = "done" /\ <<c, attempt[c]>> \notin executed'
    <3>1. <<c, attempt[c]>> \in Handlers
      BY <1>1, HandlerFact DEF TypeInv
    <3>2. <<c, attempt[c]>> # h
      BY <1>3, <2>2
    <3> QED
      BY <1>3, <1>4, <2>2, <3>1, <3>2
  <2> QED
    BY <1>1, <2>1, <2>2, BlameStays, RequestFacts DEF Throws
<1> QED
  BY <1>6, <1>7, <1>8, <1>9, <1>10

\* A step of one handler, for the facts about keys.
LEMMA HandlerChanges ==
  ASSUME Inv, NEW h \in Handlers, HandlerStep(h), UNCHANGED reqVars
  PROVE  /\ TypeInv /\ Executing /\ Claims /\ Recorded /\ Answers /\ Effect(h)
         /\ \A g \in Handlers \ {h} : hpc'[g] = hpc[g] /\ reply'[g] = reply[g]
         /\ \A g, e : SameKey(g, e)' <=> SameKey(g, e)
         /\ Guarded' = Guarded /\ body' = body /\ mode' = mode /\ group' = group
         /\ executed \subseteq Handlers /\ executed' \subseteq Handlers
         /\ executed \subseteq executed' /\ executed' \subseteq executed \union {h}
         /\ licence' => licence
<1>1. TypeInv /\ Classified /\ Executing /\ Claims /\ Recorded /\ Answers
  BY DEF Inv
<1>2. Frame(h) /\ Effect(h)
  BY <1>1, HandlerFacts
<1>3. executed \subseteq executed' /\ executed' \subseteq executed \union {h} /\ (licence' => licence)
  BY <1>1, <1>2, EffectFacts
<1>4. Guarded' = Guarded /\ body' = body /\ mode' = mode /\ group' = group
  BY RequestFacts
<1> QED
  BY <1>1, <1>2, <1>3, <1>4 DEF Frame, SameKey, TypeInv

\* The parts of Claims, while the guarantee stands.
OneHolder == \A g, h \in Handlers : Holds(g) /\ Holds(h) /\ SameKey(g, h) => g = h
RunningRow(g) ==
  /\ row[group[g[1]]].status = "in_progress" /\ row[group[g[1]]].hash = body[g[1]]
  /\ \A e \in executed : ~SameKey(e, g)
ExecutedRow(e) ==
  /\ row[group[e[1]]].hash = body[e[1]]
  /\ \/ row[group[e[1]]].status = "completed"
     \/ row[group[e[1]]].status = "in_progress" /\ hpc[e] = "committed" /\ mode # "atomic"
OneExecution == \A e, f \in executed : SameKey(e, f) => e = f

\* The parts of Claims.
LEMMA ClaimsParts ==
  Claims <=> (Guarded /\ licence => /\ OneHolder
                                    /\ \A g \in Handlers : hpc[g] = "running" => RunningRow(g)
                                    /\ \A e \in executed : ExecutedRow(e)
                                    /\ OneExecution)
  BY DEF Claims, OneHolder, RunningRow, ExecutedRow, OneExecution

\* Facts about other keys survive what h does to its own.
LEMMA OtherKeys ==
  ASSUME Inv, NEW h \in Handlers, HandlerStep(h), UNCHANGED reqVars,
         NEW r, row' = row \/ Writes(h, r), NEW g \in Handlers, ~SameKey(g, h)
  PROVE  row'[group[g[1]]] = row[group[g[1]]]
<1>1. group[g[1]] \in Keys /\ group[g[1]] # group[h[1]]
  BY GroupFact, HandlerFact DEF SameKey
<1> QED
  BY <1>1 DEF Writes

\* One step per effect.
LEMMA HandlerClaims ==
  ASSUME Inv, NEW h \in Handlers, HandlerStep(h), UNCHANGED reqVars
  PROVE  Claims'
<1>1. /\ TypeInv /\ Executing /\ Claims /\ Effect(h)
      /\ \A g \in Handlers \ {h} : hpc'[g] = hpc[g]
      /\ \A g, e : SameKey(g, e)' <=> SameKey(g, e)
      /\ Guarded' = Guarded /\ body' = body /\ mode' = mode /\ group' = group
      /\ executed \subseteq Handlers /\ executed' \subseteq Handlers
      /\ executed \subseteq executed' /\ executed' \subseteq executed \union {h}
      /\ licence' => licence
  BY HandlerChanges
<1> SUFFICES ASSUME Guarded, licence'
             PROVE  /\ OneHolder' /\ OneExecution'
                    /\ \A g \in Handlers : hpc'[g] = "running" => RunningRow(g)'
                    /\ \A e \in executed' : ExecutedRow(e)'
  BY <1>1 DEF Claims, OneHolder, RunningRow, ExecutedRow, OneExecution
<1>2. /\ OneHolder /\ OneExecution
      /\ \A g \in Handlers : hpc[g] = "running" => RunningRow(g)
      /\ \A e \in executed : ExecutedRow(e)
  BY <1>1, ClaimsParts
<1>3. ASSUME NEW g \in Handlers, g # h PROVE Holds(g)' <=> Holds(g)
  BY <1>1, <1>3 DEF Holds
<1>4. ASSUME NEW g, NEW e, SameKey(g, e) PROVE SameKey(e, g)
  BY <1>4 DEF SameKey
<1>5. SameKey(h, h)
  BY DEF SameKey
<1>6. ASSUME NEW g \in Handlers, g # h, hpc'[g] = "running", executed' = executed, row'[group[g[1]]] = row[group[g[1]]]
      PROVE  RunningRow(g)'
  <2>1. RunningRow(g)
    BY <1>1, <1>2, <1>6
  <2> QED
    BY <1>1, <1>6, <2>1 DEF RunningRow
<1>7. ASSUME NEW e \in executed, e # h, row'[group[e[1]]] = row[group[e[1]]]
      PROVE  ExecutedRow(e)'
  <2>1. ExecutedRow(e) /\ hpc'[e] = hpc[e]
    BY <1>1, <1>2, <1>7
  <2> QED
    BY <1>1, <1>7, <2>1 DEF ExecutedRow
<1>8. row' = row => \A g : row'[group[g[1]]] = row[group[g[1]]]
  OBVIOUS
<1>9. ASSUME executed' = executed PROVE OneExecution'
  BY <1>1, <1>2, <1>9 DEF OneExecution
<1>10. ASSUME Holds(h)' => Holds(h) PROVE OneHolder'
  BY <1>1, <1>2, <1>3, <1>10 DEF OneHolder
<1>11. mode \in {"atomic", "posthoc", "auto"} /\ row[group[h[1]]] \in Rows
  BY <1>1, PlaceFact DEF Guarded
<1>12. CASE Begins(h) \/ Reads(h)
  <2>1. UNCHANGED <<row, executed>> /\ hpc[h] \in {"sent", "classify"} /\ hpc'[h] \notin {"running", "committed"}
    BY <1>12 DEF Begins, Reads, Refused, AnsweredOk, Answered
  <2>2. h \notin executed
    BY <1>1, <2>1 DEF Executing
  <2> QED
    BY <1>6, <1>7, <1>8, <1>9, <1>10, <2>1, <2>2 DEF Holds
<1>13. CASE Takes(h)
  <2>1. /\ hpc[h] = "sent" /\ hpc'[h] = "running" /\ row[group[h[1]]].status \in {"none", "in_progress"}
        /\ Writes(h, ClaimedRow(h)) /\ Owners(h) = {} /\ executed' = executed
    BY <1>13 DEF Takes
  <2>2. h \notin executed
    BY <1>1, <2>1 DEF Executing
  <2>3. ASSUME NEW g \in Handlers, g # h, Holds(g) PROVE ~SameKey(g, h)
    <3>1. g \notin Owners(h)
      BY <2>1
    <3> QED
      BY <2>3, <3>1, GroupFact, HandlerFact DEF Owners, SameKey, Holds
  <2>4. ASSUME NEW e \in executed PROVE ~SameKey(e, h)
    <3>1. ExecutedRow(e) /\ e \in Handlers /\ e # h
      BY <1>1, <1>2, <2>2, <2>4
    <3>2. SUFFICES ASSUME SameKey(e, h) PROVE FALSE
      OBVIOUS
    <3>3. hpc[e] = "committed"
      BY <2>1, <3>1, <3>2 DEF ExecutedRow, SameKey
    <3> QED
      BY <2>3, <3>1, <3>2, <3>3 DEF Holds
  <2>5. RunningRow(h)'
    <3>1. row'[group[h[1]]].status = "in_progress" /\ row'[group[h[1]]].hash = body[h[1]]
      BY <2>1 DEF Writes, ClaimedRow
    <3> QED
      BY <1>1, <2>1, <2>4, <3>1 DEF RunningRow
  <2>6. OneHolder'
    BY <1>1, <1>2, <1>3, <1>4, <2>3 DEF OneHolder
  <2>7. ASSUME NEW g \in Handlers, hpc'[g] = "running" PROVE RunningRow(g)'
    <3>1. CASE g # h
      <4>1. ~SameKey(g, h)
        BY <1>3, <2>3, <2>7, <3>1 DEF Holds
      <4> QED
        BY <1>6, <2>1, <2>7, <3>1, <4>1, OtherKeys
    <3> QED
      BY <2>5, <3>1
  <2>8. ASSUME NEW e \in executed' PROVE ExecutedRow(e)'
    BY <1>1, <1>7, <2>1, <2>2, <2>4, <2>8, OtherKeys
  <2> QED
    BY <1>9, <2>1, <2>6, <2>7, <2>8
<1>14. CASE GivesUp(h)
  <2>1. hpc[h] = "running" /\ hpc'[h] \notin {"running", "committed"} /\ executed' = executed
        /\ (row' = row \/ Writes(h, Released(row[group[h[1]]])))
    BY <1>14 DEF GivesUp, Lets, Refused, Answered
  <2>2. RunningRow(h) /\ h \notin executed /\ Holds(h)
    BY <1>1, <1>2, <2>1 DEF Executing, Holds
  <2>3. ASSUME NEW g \in Handlers, hpc'[g] = "running" PROVE RunningRow(g)'
    <3>1. g # h /\ Holds(g) /\ ~SameKey(g, h)
      BY <1>2, <1>3, <2>1, <2>2, <2>3 DEF OneHolder, Holds
    <3> QED
      BY <1>6, <2>1, <2>3, <3>1, OtherKeys
  <2>4. ASSUME NEW e \in executed' PROVE ExecutedRow(e)'
    <3>1. ~SameKey(e, h) /\ e # h
      BY <2>1, <2>2, <2>4 DEF RunningRow
    <3> QED
      BY <1>1, <1>7, <2>1, <2>4, <3>1, OtherKeys
  <2> QED
    BY <1>9, <1>10, <2>1, <2>2, <2>3, <2>4
<1>15. CASE Commits(h)
  <2>1. /\ hpc[h] = "running" /\ hpc'[h] = "committed" /\ executed' = executed \union {h}
        /\ IF mode = "atomic" THEN Writes(h, Completed(row[group[h[1]]], h)) ELSE row' = row
    BY <1>15 DEF Commits
  <2>2. RunningRow(h) /\ Holds(h) /\ h \notin executed
    BY <1>1, <1>2, <2>1 DEF Holds, Executing
  <2>3. row' = row \/ Writes(h, Completed(row[group[h[1]]], h))
    BY <2>1
  <2>4. ASSUME NEW g \in Handlers, hpc'[g] = "running" PROVE RunningRow(g)'
    <3>1. g # h /\ hpc[g] = "running" /\ Holds(g) /\ ~SameKey(g, h)
      BY <1>1, <1>2, <2>1, <2>2, <2>4 DEF OneHolder, Holds
    <3>2. row'[group[g[1]]] = row[group[g[1]]] /\ RunningRow(g) /\ ~SameKey(h, g)
      BY <1>2, <1>4, <2>3, <3>1, OtherKeys
    <3> QED
      BY <1>1, <2>1, <3>2 DEF RunningRow
  <2>5. ASSUME NEW e \in executed' PROVE ExecutedRow(e)'
    <3>1. CASE e # h
      <4>1. e \in executed /\ ~SameKey(e, h)
        BY <2>1, <2>2, <2>5, <3>1 DEF RunningRow
      <4> QED
        BY <1>1, <1>7, <2>3, <3>1, <4>1, OtherKeys
    <3>2. CASE e = h /\ mode = "atomic"
      <4>1. row'[group[h[1]]] = Completed(row[group[h[1]]], h)
        BY <2>1, <3>2 DEF Writes
      <4>2. row'[group[h[1]]].status = "completed" /\ row'[group[h[1]]].hash = body[h[1]]
        BY <1>11, <2>2, <4>1, RowFacts DEF RunningRow
      <4> QED
        BY <1>1, <3>2, <4>2 DEF ExecutedRow
    <3>3. CASE e = h /\ mode # "atomic"
      BY <1>1, <2>1, <2>2, <3>3 DEF ExecutedRow, RunningRow
    <3> QED
      BY <3>1, <3>2, <3>3
  <2>6. OneExecution'
    BY <1>1, <1>2, <1>4, <2>1, <2>2 DEF OneExecution, RunningRow
  <2> QED
    BY <1>10, <2>2, <2>4, <2>5, <2>6
<1>16. CASE Finishes(h) \/ Fails(h) \/ (Dies(h) /\ hpc[h] = "committed")
  <2>1. hpc[h] = "committed" /\ hpc'[h] \in {"replied", "done"} /\ executed' = executed
    BY <1>16 DEF Finishes, Fails, Dies, AnsweredOk, Refused, Answered
  <2>2. h \in executed /\ ExecutedRow(h) /\ Holds(h)
    BY <1>1, <1>2, <2>1 DEF Executing, Holds
  <2>3. \/ Writes(h, Completed(row[group[h[1]]], h))
        \/ mode = "atomic" /\ (row' = row \/ Writes(h, Released(row[group[h[1]]])))
    BY <1>11, <1>16, <2>1 DEF Finishes, Fails, Dies, Lets
  <2>4. row'[group[h[1]]].status = "completed" /\ row'[group[h[1]]].hash = body[h[1]]
    <3>1. mode = "atomic" => row[group[h[1]]].status = "completed"
      BY <2>2 DEF ExecutedRow
    <3>2. row[group[h[1]]].status \in {"completed", "in_progress"} /\ row[group[h[1]]].hash = body[h[1]]
      BY <2>2 DEF ExecutedRow
    <3>3. CASE Writes(h, Completed(row[group[h[1]]], h))
      BY <1>11, <3>2, <3>3, RowFacts DEF Writes
    <3>4. CASE mode = "atomic" /\ row' = row
      BY <3>1, <3>2, <3>4
    <3>5. CASE mode = "atomic" /\ Writes(h, Released(row[group[h[1]]]))
      BY <1>11, <3>1, <3>2, <3>5, RowFacts DEF Writes
    <3> QED
      BY <2>3, <3>3, <3>4, <3>5
  <2>5. ExecutedRow(h)'
    BY <1>1, <2>4 DEF ExecutedRow
  <2>6. ASSUME NEW g \in Handlers, ~SameKey(g, h) PROVE row'[group[g[1]]] = row[group[g[1]]]
    BY <2>3, <2>6, OtherKeys
  <2>7. ASSUME NEW g \in Handlers, hpc'[g] = "running" PROVE RunningRow(g)'
    <3>1. g # h /\ RunningRow(g)
      BY <1>1, <1>2, <2>1, <2>7
    <3>2. ~SameKey(g, h)
      BY <1>4, <2>2, <3>1 DEF RunningRow
    <3> QED
      BY <1>6, <2>1, <2>6, <2>7, <3>1, <3>2
  <2>8. ASSUME NEW e \in executed' PROVE ExecutedRow(e)'
    <3>1. CASE e # h
      BY <1>1, <1>2, <1>7, <2>1, <2>2, <2>6, <2>8, <3>1 DEF OneExecution
    <3> QED
      BY <2>5, <3>1
  <2> QED
    BY <1>9, <1>10, <2>1, <2>2, <2>7, <2>8
<1>17. CASE Dies(h) /\ hpc[h] # "committed"
  <2>1. UNCHANGED <<row, executed>> /\ hpc[h] \in {"classify", "running"} /\ hpc'[h] = "done"
    BY <1>17 DEF Dies
  <2>2. h \notin executed
    BY <1>1, <2>1 DEF Executing
  <2> QED
    BY <1>6, <1>7, <1>8, <1>9, <1>10, <2>1, <2>2 DEF Holds
<1> QED
  BY <1>1, <1>12, <1>13, <1>14, <1>15, <1>16, <1>17 DEF Effect

\* What a completed row records.
Record(k) ==
  /\ row[k].result \in executed /\ group[row[k].result[1]] = k
  /\ licence => row[k].hash = body[row[k].result[1]]

\* One step per effect.
LEMMA HandlerRecorded ==
  ASSUME Inv, NEW h \in Handlers, HandlerStep(h), UNCHANGED reqVars
  PROVE  Recorded'
<1>1. /\ TypeInv /\ Executing /\ Claims /\ Recorded /\ Effect(h)
      /\ Guarded' = Guarded /\ body' = body /\ group' = group
      /\ executed \subseteq executed' /\ (licence' => licence)
  BY HandlerChanges
<1>2. PICK k \in Keys : k = group[h[1]] /\ row[k] \in Rows
  BY <1>1, PlaceFact
<1>3. ASSUME NEW j \in Keys, row'[j] = row[j], row'[j].status = "completed" PROVE Record(j)'
  BY <1>1, <1>3 DEF Recorded, Record
<1>4. ASSUME NEW r, Writes(h, r), r.status = "completed" => Record(k)' PROVE Recorded'
  <2>1. row'[k] = r /\ \A j \in Keys \ {k} : row'[j] = row[j]
    BY <1>2, <1>4 DEF Writes
  <2>2. ASSUME NEW j \in Keys, j # k, row'[j].status = "completed" PROVE Record(j)'
    BY <1>3, <2>1, <2>2
  <2>3. row'[k].status = "completed" => Record(k)'
    BY <1>4, <2>1
  <2> QED
    BY <2>2, <2>3 DEF Recorded, Record
<1>5. ASSUME row' = row PROVE Recorded'
  BY <1>3, <1>5 DEF Recorded, Record
<1>6. CASE Takes(h)
  <2>1. Writes(h, ClaimedRow(h)) /\ ClaimedRow(h).status # "completed"
    BY <1>6 DEF Takes, ClaimedRow
  <2> QED
    BY <1>4, <2>1
<1>7. ASSUME Writes(h, Released(row[k])) PROVE Recorded'
  <2>1. CASE row[k].status = "in_progress"
    <3>1. Released(row[k]).status # "completed"
      BY <2>1 DEF Released, NoRow
    <3> QED
      BY <1>4, <1>7, <3>1
  <2>2. CASE row[k].status # "in_progress"
    <3>1. row'[k] = row[k] /\ Released(row[k]) = row[k]
      BY <1>2, <1>7, <2>2 DEF Released, Writes
    <3>2. row[k].status = "completed" => Record(k)'
      BY <1>2, <1>3, <3>1
    <3> QED
      BY <1>4, <1>7, <3>1, <3>2
  <2> QED
    BY <2>1, <2>2
<1>8. ASSUME Writes(h, Completed(row[k], h)), h \in executed', row[k].status = "in_progress" /\ licence => row[k].hash = body[h[1]]
      PROVE  Recorded'
  <2>1. CASE row[k].status = "in_progress"
    <3>1. row'[k].result = h /\ row'[k].hash = row[k].hash
      BY <1>2, <1>8, <2>1, RowFacts DEF Writes
    <3>2. Record(k)'
      BY <1>1, <1>2, <1>8, <2>1, <3>1 DEF Record
    <3> QED
      BY <1>4, <1>8, <3>2
  <2>2. CASE row[k].status # "in_progress"
    <3>1. row'[k] = row[k] /\ Completed(row[k], h) = row[k]
      BY <1>2, <1>8, <2>2 DEF Completed, Writes
    <3>2. row[k].status = "completed" => Record(k)'
      BY <1>2, <1>3, <3>1
    <3> QED
      BY <1>4, <1>8, <3>1, <3>2
  <2> QED
    BY <2>1, <2>2
<1>9. CASE Commits(h)
  <2>1. CASE mode = "atomic"
    <3>1. Writes(h, Completed(row[k], h)) /\ h \in executed' /\ hpc[h] = "running"
      BY <1>2, <1>9, <2>1 DEF Commits
    <3>2. licence => row[k].hash = body[h[1]]
      BY <1>1, <1>2, <2>1, <3>1 DEF Claims, Guarded
    <3> QED
      BY <1>8, <3>1, <3>2
  <2>2. CASE mode # "atomic"
    BY <1>5, <1>9, <2>2 DEF Commits
  <2> QED
    BY <2>1, <2>2
<1>10. CASE Finishes(h)
  <2>1. CASE row' = row
    BY <1>5, <2>1
  <2>2. CASE Guarded /\ Writes(h, Completed(row[k], h))
    <3>1. h \in executed
      BY <1>1, <1>10 DEF Finishes, Executing
    <3>2. licence => row[k].hash = body[h[1]]
      BY <1>1, <1>2, <2>2, <3>1 DEF Claims
    <3> QED
      BY <1>1, <1>8, <2>2, <3>1, <3>2
  <2> QED
    BY <1>2, <1>10, <2>1, <2>2 DEF Finishes
<1>11. CASE GivesUp(h) \/ Fails(h)
  BY <1>2, <1>5, <1>7, <1>11 DEF GivesUp, Fails, Lets
<1>12. CASE Begins(h) \/ Reads(h) \/ Dies(h)
  BY <1>5, <1>12 DEF Begins, Reads, Dies
<1> QED
  BY <1>1, <1>6, <1>9, <1>10, <1>11, <1>12 DEF Effect

\* One step per effect.
LEMMA HandlerAnswers ==
  ASSUME Inv, NEW h \in Handlers, HandlerStep(h), UNCHANGED reqVars
  PROVE  Answers'
<1>1. /\ TypeInv /\ Executing /\ Recorded /\ Answers /\ Effect(h)
      /\ \A g \in Handlers \ {h} : hpc'[g] = hpc[g] /\ reply'[g] = reply[g]
      /\ \A g, e : SameKey(g, e)' <=> SameKey(g, e)
      /\ body' = body /\ group' = group
      /\ executed \subseteq executed' /\ executed' \subseteq executed \union {h} /\ (licence' => licence)
  BY HandlerChanges
<1>2. ASSUME NEW g \in Handlers, g # h PROVE reply'[g] = NoReply \/ OkReply(g)' \/ ErrorReply(g)'
  <2>1. reply'[g] = reply[g]
    BY <1>1, <1>2
  <2>2. CASE reply[g] = NoReply
    BY <2>1, <2>2
  <2>3. CASE OkReply(g)
    BY <1>1, <2>1, <2>3, RequestFacts DEF OkReply
  <2>4. CASE ErrorReply(g)
    BY <1>1, <1>2, <2>1, <2>4 DEF ErrorReply
  <2> QED
    BY <1>1, <2>2, <2>3, <2>4 DEF Answers
<1>3. reply[h] = NoReply
  BY <1>1, HandlerFacts, EffectFacts DEF Inv
<1>4. reply'[h] = NoReply \/ OkReply(h)' \/ ErrorReply(h)'
  <2>1. ASSUME Refused(h), executed' = executed, h \notin executed \/ hpc[h] = "committed"
        PROVE  reply'[h] = NoReply \/ ErrorReply(h)'
    <3>1. PICK s \in DOMAIN CatalogStatus, c \in AllCodes :
            Catalogued(s, c) /\ (c = "not_found" => hpc[h] # "committed") /\ Answered(h, Refusal(s, c))
      BY <2>1 DEF Refused
    <3>2. CASE reply'[h] = Refusal(s, c)
      <4>1. reply'[h].status = s /\ reply'[h].code = c
        BY <3>2 DEF Refusal
      <4> QED
        BY <1>1, <2>1, <3>1, <4>1 DEF ErrorReply
    <3> QED
      BY <1>3, <3>1, <3>2 DEF Answered
  <2>2. ASSUME NEW e \in executed, SameKey(e, h), licence => body[e[1]] = body[h[1]], AnsweredOk(h, e)
        PROVE  reply'[h] = NoReply \/ OkReply(h)'
    <3>1. PICK s \in Successes : Answered(h, [status |-> s, code |-> NoCode, result |-> e])
      BY <2>2 DEF AnsweredOk
    <3>2. CASE reply'[h] = [status |-> s, code |-> NoCode, result |-> e]
      BY <1>1, <2>2, <3>2, RequestFacts DEF OkReply
    <3> QED
      BY <1>3, <3>1, <3>2 DEF Answered
  <2>3. CASE Begins(h) \/ Takes(h) \/ Commits(h) \/ Dies(h)
    BY <1>3, <2>3 DEF Begins, Takes, Commits, Dies
  <2>4. CASE Reads(h)
    <3>1. h \notin executed
      BY <1>1, <2>4 DEF Reads, Executing
    <3>2. CASE Refused(h)
      BY <2>1, <2>4, <3>1, <3>2 DEF Reads
    <3>3. CASE /\ row[group[h[1]]].status = "completed" /\ row[group[h[1]]].hash = body[h[1]]
               /\ AnsweredOk(h, row[group[h[1]]].result)
      <4>1. group[h[1]] \in Keys
        BY <1>1, PlaceFact
      <4>2. /\ row[group[h[1]]].result \in executed /\ SameKey(row[group[h[1]]].result, h)
            /\ licence => body[row[group[h[1]]].result[1]] = body[h[1]]
        BY <1>1, <3>3, <4>1 DEF Recorded, SameKey
      <4> QED
        BY <2>2, <3>3, <4>2
    <3> QED
      BY <2>4, <3>2, <3>3 DEF Reads
  <2>5. CASE GivesUp(h)
    <3>1. h \notin executed
      BY <1>1, <2>5 DEF GivesUp, Executing
    <3> QED
      BY <2>1, <2>5, <3>1 DEF GivesUp
  <2>6. CASE Finishes(h)
    <3>1. h \in executed /\ SameKey(h, h) /\ AnsweredOk(h, h)
      BY <1>1, <2>6 DEF Finishes, Executing, SameKey
    <3> QED
      BY <2>2, <3>1
  <2>7. CASE Fails(h)
    BY <2>1, <2>7 DEF Fails
  <2> QED
    BY <1>1, <2>3, <2>4, <2>5, <2>6, <2>7 DEF Effect
<1> QED
  BY <1>2, <1>4 DEF Answers

\* The server's handlers preserve the invariant.
LEMMA HandlerInv ==
  ASSUME Inv, NEW h \in Handlers, HandlerStep(h), UNCHANGED reqVars
  PROVE  Inv'
  BY HandlerBasics, HandlerClaims, HandlerRecorded, HandlerAnswers DEF Inv

\* So does the time that passes over a row.
LEMMA TimeInv ==
  ASSUME Inv, NEW k \in Keys, Age(k) \/ Sweep(k)
  PROVE  Inv'
<1>1. TypeInv /\ Classified /\ Sequential /\ Executing /\ Claims /\ Recorded /\ Answers /\ Throws
  BY DEF Inv
<1>2. /\ UNCHANGED <<reqVars, cliVars, hpc, reply, executed, faults>>
      /\ row' \in [Keys -> Rows] /\ licence' \in BOOLEAN /\ (licence' => licence)
      /\ \A j \in Keys \ {k} : row'[j] = row[j]
      /\ row'[k].status = "completed" \/ licence' =>
           row'[k].status = row[k].status /\ row'[k].hash = row[k].hash /\ row'[k].result = row[k].result
  BY <1>1, TimeFacts
<1>3. /\ group' = group /\ Guarded' = Guarded /\ isRetrySafe' = isRetrySafe /\ op' = op /\ mode' = mode
      /\ body' = body /\ callerKey' = callerKey
  BY <1>2, RequestFacts
<1>4. cpc' = cpc /\ attempt' = attempt /\ outcome' = outcome
  BY <1>2 DEF cliVars
<1>5. TypeInv'
  BY <1>1, <1>2, <1>3, <1>4 DEF TypeInv, Modes
<1>6. Classified' /\ Sequential' /\ Executing'
  BY <1>1, <1>2, <1>3, <1>4 DEF Classified, Sequential, Executing
<1>7. ASSUME NEW j \in Keys, row'[j].status = "completed" \/ licence'
      PROVE  row'[j].status = row[j].status /\ row'[j].hash = row[j].hash /\ row'[j].result = row[j].result
  BY <1>2, <1>7
<1>8. Claims'
  <2>1. \A g \in Handlers : group[g[1]] \in Keys
    BY <1>1, PlaceFact
  <2>2. executed \subseteq Handlers
    BY <1>1 DEF TypeInv
  <2> QED
    BY <1>1, <1>2, <1>3, <1>7, <2>1, <2>2 DEF Claims, Holds, SameKey
<1>9. Recorded'
  BY <1>1, <1>2, <1>3, <1>7 DEF Recorded
<1>10. Answers'
  BY <1>1, <1>2, <1>3, RequestFacts DEF Answers, OkReply, ErrorReply, SameKey
<1>11. Throws'
  BY <1>1, <1>2, <1>4, RequestFacts DEF Throws, Blame
<1> QED
  BY <1>5, <1>6, <1>8, <1>9, <1>10, <1>11 DEF Inv

\* The client, the handlers and the network keep the invariant.
LEMMA NextInv ==
  ASSUME Inv, [Next]_vars
  PROVE  Inv'
<1>1. CASE Next /\ ~TargetChanges
  <2>1. UNCHANGED reqVars
    BY <1>1, RequestFixed
  <2> QED
    BY <1>1, <2>1, ClientInv, HandlerInv, TimeInv DEF Next
<1>2. CASE TargetChanges \/ UNCHANGED vars
  <2>1. UNCHANGED <<reqVars, cliVars, srvVars>>
    BY <1>2 DEF vars, TargetChanges
  <2>2. UNCHANGED reqVars /\ UNCHANGED <<cpc, attempt, outcome, hpc, reply, row, executed, licence, faults>>
    BY <2>1 DEF cliVars, srvVars
  <2>3. /\ group' = group /\ Guarded' = Guarded /\ isRetrySafe' = isRetrySafe /\ op' = op /\ mode' = mode
        /\ body' = body /\ callerKey' = callerKey
    BY <2>2, RequestFacts
  <2>4. TypeInv' /\ Classified' /\ Sequential' /\ Executing'
    BY <2>2, <2>3 DEF Inv, TypeInv, Modes, Classified, Sequential, Executing
  <2>5. Claims' /\ Recorded'
    BY <2>2, <2>3 DEF Inv, Claims, Recorded, Holds, SameKey
  <2>6. Answers' /\ Throws'
    BY <2>2, <2>3, RequestFacts DEF Inv, Answers, OkReply, ErrorReply, SameKey, Throws, Blame
  <2> QED
    BY <2>4, <2>5, <2>6 DEF Inv
<1> QED
  BY <1>1, <1>2

\* The invariant of a call through the SDK: attempts in sequence, one holder
\* per key while the guarantee stands, rows and answers that name executions
\* that happened.
THEOREM Invariant == Spec => []Inv
  BY InitInv, NextInv, PTL DEF Spec

\* No handler has passed the lookup of a message that was never submitted.
TargetInv ==
  /\ target \in {"there", "gone", "queued"}
  /\ target = "queued" =>
       /\ Guarded /\ op \in Addressed /\ executed = {}
       /\ \A h \in Handlers : hpc[h] \notin {"classify", "running", "committed"}

\* Only a handler moves from one of its states to the next.
LEMMA TargetStep ==
  ASSUME Inv, TargetInv, [Next]_vars
  PROVE  TargetInv'
<1>1. TypeInv /\ Classified
  BY DEF Inv
<1>2. CASE TargetChanges
  BY <1>2 DEF TargetChanges, TargetInv
<1>3. CASE UNCHANGED vars
  BY <1>3 DEF vars, reqVars, srvVars, TargetInv, Guarded
<1>4. ASSUME Next, ~TargetChanges PROVE TargetInv'
  <2>1. UNCHANGED <<reqVars, target>>
    BY <1>4, RequestFixed DEF Next
  <2>2. Guarded' = Guarded /\ op' = op
    BY <2>1, RequestFacts
  <2> SUFFICES ASSUME target = "queued"
               PROVE  executed' = {} /\ \A h \in Handlers : hpc'[h] \notin {"classify", "running", "committed"}
    BY <2>1, <2>2 DEF TargetInv
  <2>3. /\ Guarded /\ op \in Addressed /\ executed = {}
        /\ \A h \in Handlers : hpc[h] \notin {"classify", "running", "committed"}
    BY DEF TargetInv
  <2>4. ASSUME NEW c \in Calls, ClientStep(c)
        PROVE  executed' = {} /\ \A h \in Handlers : hpc'[h] \notin {"classify", "running", "committed"}
    <3>1. executed' = executed /\ \A g \in Handlers : hpc'[g] \in {hpc[g], "sent", "done"}
      BY <1>1, <2>4, ClientFacts
    <3> QED
      BY <2>3, <3>1
  <2>5. ASSUME NEW h \in Handlers, HandlerStep(h)
        PROVE  executed' = {} /\ \A g \in Handlers : hpc'[g] \notin {"classify", "running", "committed"}
    <3>1. ~Claim(h) /\ ~ClaimLost(h) /\ ~Run(h)
      BY <2>3 DEF Claim, ClaimLost, Run, Found
    <3>2. ~Classify(h) /\ ~Refuse(h) /\ ~AlreadyGone(h) /\ ~Commit(h) /\ ~Finish(h) /\ ~FinishUnrecorded(h)
          /\ ~Panic(h) /\ ~Crash(h)
      BY <2>3 DEF Classify, Refuse, AlreadyGone, Commit, Finish, FinishUnrecorded, Panic, Crash
    <3>3. Unresolved(h) \/ ClaimFails(h)
      BY <2>5, <3>1, <3>2 DEF HandlerStep
    <3>4. Frame(h) /\ Reads(h)
      BY <1>1, <3>3, ReadsFact
    <3>5. executed' = executed /\ hpc'[h] \in {"replied", "done"} /\ \A g \in Handlers \ {h} : hpc'[g] = hpc[g]
      BY <3>4 DEF Frame, Reads, Refused, AnsweredOk, Answered
    <3> QED
      BY <2>3, <3>5
  <2>6. ASSUME NEW k \in Keys, Age(k) \/ Sweep(k)
        PROVE  executed' = {} /\ \A h \in Handlers : hpc'[h] \notin {"classify", "running", "committed"}
    BY <2>3, <2>6 DEF Age, Sweep
  <2> QED
    BY <1>4, <2>4, <2>5, <2>6 DEF Next
<1> QED
  BY <1>2, <1>3, <1>4

\* A reply waits for the message it answers: while that one is queued, no
\* handler has gone past its lookup.
THEOREM TargetInvariant == Spec => []TargetInv
<1>1. ASSUME Init PROVE TargetInv
  BY <1>1 DEF Init, TargetInv, Addressed, Guarded
<1> QED
  BY <1>1, Invariant, TargetStep, PTL DEF Spec
-----------------------------------------------------------------------------
(* The properties.                                                         *)

\* The states of the calls, the handlers and the keys table have their types,
\* for every table of operations and every number of calls and retries.
THEOREM Types == Spec => []TypeOK
<1>1. ASSUME Inv, TargetInv PROVE TypeOK
  <2>1. mode \in {"atomic", "posthoc", "auto", "direct", "plain"}
    BY <1>1 DEF Inv, TypeInv, Modes
  <2>2. /\ op \in DOMAIN Operations /\ callerKey \in BOOLEAN /\ body \in [Calls -> Bodies]
        /\ cpc \in [Calls -> {"absent", "idle", "sending", "waiting", "backoff", "done"}]
        /\ attempt \in [Calls -> 0..MaxRetries]
        /\ hpc \in [Handlers -> {"none", "sent", "classify", "running", "committed", "replied", "done"}]
        /\ outcome \in [Calls -> Outcomes] /\ reply \in [Handlers -> Replies] /\ row \in [Keys -> Rows]
        /\ executed \subseteq Handlers /\ licence \in BOOLEAN /\ faults \in 0..MaxFaults
    BY <1>1 DEF Inv, TypeInv
  <2>3. ASSUME NEW k \in Keys
        PROVE  /\ row[k].status \in {"none", "in_progress", "completed"} /\ row[k].hash \in Bodies \union {NoBody}
               /\ row[k].result \in Handlers \union {NoHandler} /\ row[k].stale \in BOOLEAN
    BY <2>2 DEF Rows
  <2> QED
    BY <1>1, <2>1, <2>2, <2>3 DEF TypeOK, TargetInv
<1> QED
  BY <1>1, Invariant, TargetInvariant, PTL

\* An operation without a guard that may not be repeated is sent once, or finds
\* what an earlier attempt did.
LEMMA UnguardedOnce ==
  ASSUME Inv, Once, ~Guarded, NEW h \in Handlers, Commits(h)
  PROVE  \A e \in executed : e[1] # h[1]
<1>1. TypeInv /\ Sequential /\ Executing /\ hpc[h] = "running" /\ (mode = "direct" => executed = {})
  BY DEF Inv, Commits
<1>2. CASE mode = "direct"
  BY <1>1, <1>2
<1>3. CASE mode # "direct"
  <2>1. mode = "plain" /\ mode \in Modes(op) /\ op \in DOMAIN Operations
    BY <1>1, <1>3 DEF TypeInv, Guarded, Modes
  <2>2. ~isRetrySafe
    <3>1. CASE request.method = "POST"
      <4>1. ~request.stub
        BY <2>1, <3>1, OperationsAssumption DEF request
      <4> QED
        BY <3>1, <4>1 DEF isRetrySafe
    <3>2. CASE op = "deleteAccount"
      <4>1. request.method = "DELETE"
        BY <2>1, <3>2, OperationsAssumption DEF request
      <4> QED
        BY <3>2, <4>1 DEF isRetrySafe
    <3> QED
      BY <3>1, <3>2 DEF Once
  <2>3. ASSUME NEW g \in Handlers, hpc[g] # "none" PROVE g[2] = 0
    <3>1. PICK c \in Calls, n \in 0..MaxRetries : g = <<c, n>>
      BY DEF Handlers
    <3>2. hpc[<<c, n>>] # "none"
      BY <2>3, <3>1
    <3>3. attempt[c] = 0 /\ ~(n > attempt[c])
      BY <1>1, <2>2, <3>2 DEF Sequential
    <3> QED
      BY <3>1, <3>3, HandlerFact
  <2>4. ASSUME NEW e \in executed, e[1] = h[1] PROVE FALSE
    <3>1. e \in Handlers /\ hpc[e] # "none" /\ hpc[e] # "running" /\ hpc[h] # "none"
      BY <1>1 DEF TypeInv, Executing
    <3>2. e[2] = h[2]
      BY <2>3, <3>1
    <3>3. e = h
      BY <2>4, <3>1, <3>2, HandlerFact
    <3> QED
      BY <1>1, <3>1, <3>3
  <2> QED
    BY <2>4
<1> QED
  BY <1>2, <1>3

\* What the refinement mapping makes of a state.
answer == [c \in Calls |-> Answer(c)]

\* The refinement mapping, by outcome.
LEMMA AnswerFacts ==
  /\ \A c \in Calls : outcome[c] = Pending => answer[c] = Promise!Pending
  /\ \A c \in Calls : \A e : outcome[c] = Thrown(e) => answer[c] = Promise!Failed
  /\ \A c \in Calls : \A e : outcome[c] = Returned(e) => answer[c] = Promise!Reported(e)
<1>1. \A c \in Calls : answer[c] = [kind |-> outcome[c].kind, report |-> IF outcome[c].kind = "ok" THEN {outcome[c].result} ELSE {}]
  BY DEF answer, Answer
<1>2. Pending.kind = "pending" /\ \A e : Thrown(e).kind = "error" /\ Returned(e).kind = "ok" /\ Returned(e).result = e
  BY DEF Pending, Thrown, Returned
<1> QED
  BY <1>1, <1>2 DEF Promise!Pending, Promise!Failed, Promise!Reported

\* The same of the next state.
LEMMA AnswersLater ==
  /\ \A c \in Calls : \A e : outcome'[c] = Thrown(e) => answer'[c] = Promise!Failed
  /\ \A c \in Calls : \A e : outcome'[c] = Returned(e) => answer'[c] = Promise!Reported(e)
<1>1. \A c \in Calls : answer'[c] = [kind |-> outcome'[c].kind, report |-> IF outcome'[c].kind = "ok" THEN {outcome'[c].result} ELSE {}]
  BY DEF answer, Answer
<1>2. \A e : Thrown(e).kind = "error" /\ Returned(e).kind = "ok" /\ Returned(e).result = e
  BY DEF Thrown, Returned
<1> QED
  BY <1>1, <1>2 DEF Promise!Failed, Promise!Reported

\* A call settles once, and a success it reports is one of its own key and body.
LEMMA ClientPromise ==
  ASSUME Inv, NEW c \in Calls, ClientStep(c), UNCHANGED reqVars
  PROVE  \/ UNCHANGED Promise!vars
         \/ Promise!Fail(c)
         \/ \E e \in executed : Promise!Succeed(c, e)
<1> DEFINE h == <<c, attempt[c]>>
<1>1. TypeInv /\ Sequential /\ Answers
  BY DEF Inv
<1>2. UNCHANGED <<executed, licence, body>> /\ group' = group /\ Once' = Once /\ h \in Handlers
  BY <1>1, ClientFacts, RequestFacts DEF Once, reqVars
<1>3. \A d \in Calls \ {c} : answer'[d] = answer[d]
  BY <1>1, ClientFacts DEF answer, Answer
<1>4. answer = [d \in Calls |-> answer[d]] /\ answer' = [d \in Calls |-> answer'[d]]
  BY DEF answer
<1>5. ASSUME NEW v, answer'[c] = v PROVE answer' = [answer EXCEPT ![c] = v]
  BY <1>3, <1>4, <1>5
<1>6. ASSUME answer' = answer PROVE UNCHANGED Promise!vars
  BY <1>2, <1>6 DEF Promise!vars, answer, group
<1>7. ASSUME cpc[c] # "done" PROVE answer[c] = Promise!Pending
  BY <1>1, <1>7, AnswerFacts DEF Sequential
<1>8. ASSUME cpc[c] # "done", answer'[c] = Promise!Failed PROVE Promise!Fail(c)
  <2>1. answer[c] = Promise!Pending /\ answer' = [answer EXCEPT ![c] = Promise!Failed]
    BY <1>5, <1>7, <1>8
  <2> QED
    BY <1>2, <2>1 DEF Promise!Fail, answer, group
<1>9. ASSUME cpc[c] # "done", OkReply(h), answer'[c] = Promise!Reported(reply[h].result)
      PROVE  \E e \in executed : Promise!Succeed(c, e)
  <2>1. PICK e \in executed : e = reply[h].result
    BY <1>9 DEF OkReply
  <2>2. answer[c] = Promise!Pending /\ answer' = [answer EXCEPT ![c] = Promise!Reported(e)]
    BY <1>5, <1>7, <1>9, <2>1
  <2>3. group[e[1]] = group[c] /\ (licence => body[e[1]] = body[c])
    BY <1>9, <2>1 DEF OkReply, SameKey
  <2>4. Promise!Succeed(c, e)
    BY <1>2, <2>2, <2>3 DEF Promise!Succeed, answer, group
  <2> QED
    BY <2>4
<1>10. CASE cpc'[c] # "done" /\ outcome'[c] = outcome[c]
  <2>1. answer'[c] = answer[c]
    BY <1>10 DEF answer, Answer
  <2>2. answer' = answer
    BY <1>3, <1>4, <2>1
  <2> QED
    BY <1>6, <2>2
<1>11. CASE cpc[c] # "done" /\ \E e : outcome'[c] = Thrown(e)
  BY <1>8, <1>11, AnswersLater
<1>12. CASE cpc[c] # "done" /\ OkReply(h) /\ outcome'[c] = Returned(reply[h].result)
  BY <1>9, <1>12, AnswersLater
<1> QED
  <2> HIDE DEF h
  <2> QED
    BY <1>1, <1>10, <1>11, <1>12, SettledFact DEF h

\* A handler's step executes once, lets the guarantee lapse, or changes nothing promised.
LEMMA HandlerPromise ==
  ASSUME Inv, NEW h \in Handlers, HandlerStep(h), UNCHANGED reqVars
  PROVE  UNCHANGED Promise!vars \/ Promise!Execute(h) \/ Promise!Lapse
<1>1. TypeInv /\ Executing /\ Claims /\ Effect(h) /\ group' = group /\ (licence' => licence) /\ Classified
  BY HandlerChanges DEF Inv
<1>2. Frame(h)
  BY <1>1, HandlerFacts
<1>3. UNCHANGED body /\ Once' = Once /\ outcome' = outcome /\ licence' \in BOOLEAN /\ licence \in BOOLEAN
  BY <1>1, <1>2, RequestFacts DEF Once, reqVars, Frame, cliVars, TypeInv
<1>4. answer' = answer
  BY <1>3 DEF answer, Answer
<1>5. CASE Commits(h)
  <2>1. hpc[h] = "running" /\ executed' = executed \union {h} /\ licence' = licence
    BY <1>5 DEF Commits
  <2>2. h \notin executed
    BY <1>1, <2>1 DEF Executing
  <2>3. ASSUME Once, licence, NEW e \in executed PROVE group[e[1]] # group[h[1]]
    <3>1. CASE Guarded
      BY <1>1, <2>1, <2>3, <3>1 DEF Claims, SameKey
    <3>2. CASE ~Guarded
      <4>1. e[1] # h[1] /\ e[1] \in Calls /\ h[1] \in Calls
        BY <1>1, <1>5, <2>3, <3>2, UnguardedOnce, HandlerFact DEF TypeInv
      <4> QED
        BY <3>2, <4>1, GroupFact
    <3> QED
      BY <3>1, <3>2
  <2> QED
    BY <1>1, <1>3, <1>4, <2>1, <2>2, <2>3 DEF Promise!Execute, answer, group
<1>6. CASE ~Commits(h)
  <2>1. executed' = executed
    BY <1>1, <1>6 DEF Effect, Begins, Takes, Reads, GivesUp, Finishes, Fails, Dies
  <2>2. CASE licence' = licence
    BY <1>1, <1>3, <1>4, <2>1, <2>2 DEF Promise!vars, answer, group
  <2>3. CASE licence' # licence
    <3>1. licence' = FALSE
      BY <1>1, <1>3, <2>3
    <3> QED
      BY <1>1, <1>3, <1>4, <2>1, <3>1 DEF Promise!Lapse, answer, group
  <2> QED
    BY <2>2, <2>3
<1> QED
  BY <1>5, <1>6

\* Time lets the guarantee lapse, or changes nothing promised.
LEMMA TimePromise ==
  ASSUME Inv, NEW k \in Keys, Age(k) \/ Sweep(k)
  PROVE  UNCHANGED Promise!vars \/ Promise!Lapse
<1>1. TypeInv
  BY DEF Inv
<1>2. /\ UNCHANGED <<reqVars, cliVars, executed>>
      /\ licence' \in BOOLEAN /\ licence \in BOOLEAN /\ (licence' => licence)
  BY <1>1, TimeFacts DEF TypeInv
<1>3. UNCHANGED body /\ Once' = Once /\ outcome' = outcome /\ group' = group /\ executed' = executed
  BY <1>2, RequestFacts DEF Once, reqVars, cliVars
<1>4. answer' = answer
  BY <1>3 DEF answer, Answer
<1>5. CASE licence' = licence
  BY <1>3, <1>4, <1>5 DEF Promise!vars, answer, group
<1>6. CASE licence' # licence
  <2>1. licence' = FALSE
    BY <1>2, <1>6
  <2> QED
    BY <1>3, <1>4, <2>1 DEF Promise!Lapse, answer, group
<1> QED
  BY <1>5, <1>6

\* The SDK's transport, the network and the idempotency guard implement
\* KeyedCall: whatever is retried, replayed, taken over, crashed or swept, a
\* keyed or unrepeatable call is executed once, and a reported success is an
\* execution of the same key and body, until the guarantee lapses.
THEOREM Refinement == Spec => KeepsPromise
<1>1. ASSUME Init PROVE Promise!Init
  <2>1. Once \in BOOLEAN
    BY DEF Once, Guarded
  <2>2. answer = [c \in Calls |-> Promise!Pending]
    <3>1. \A c \in Calls : answer[c] = Promise!Pending
      BY <1>1, AnswerFacts DEF Init
    <3> QED
      BY <3>1 DEF answer
  <2> QED
    BY <1>1, <2>1, <2>2 DEF Promise!Init, Init, answer
<1>2. ASSUME Inv, [Next]_vars PROVE [Promise!Next]_(Promise!vars)
  <2>1. CASE Next /\ ~TargetChanges
    <3>1. UNCHANGED reqVars
      BY <2>1, RequestFixed
    <3>2. ASSUME NEW c \in Calls, ClientStep(c) PROVE [Promise!Next]_(Promise!vars)
      BY <1>2, <3>1, <3>2, ClientPromise DEF Promise!Next
    <3>3. ASSUME NEW h \in Handlers, HandlerStep(h) PROVE [Promise!Next]_(Promise!vars)
      BY <1>2, <3>1, <3>3, HandlerPromise DEF Promise!Next, Handlers
    <3>4. ASSUME NEW k \in Keys, Age(k) \/ Sweep(k) PROVE [Promise!Next]_(Promise!vars)
      BY <1>2, <3>4, TimePromise DEF Promise!Next
    <3> QED
      BY <2>1, <3>2, <3>3, <3>4 DEF Next
  <2>2. CASE TargetChanges \/ UNCHANGED vars
    <3>1. UNCHANGED <<op, mode, callerKey, body, outcome, executed, licence>>
      BY <2>2 DEF TargetChanges, vars, reqVars, cliVars, srvVars
    <3>2. UNCHANGED reqVars
      BY <3>1 DEF reqVars
    <3>3. Once' = Once /\ group' = group /\ answer' = answer
      BY <3>1, <3>2, RequestFacts DEF Once, answer, Answer
    <3> QED
      BY <3>1, <3>3 DEF Promise!vars, answer, group
  <2> QED
    BY <1>2, <2>1, <2>2
<1> QED
  BY <1>1, <1>2, Invariant, PTL DEF Spec, KeepsPromise, Promise!Spec

\* The code of an error that was answered is the server's.
LEMMA ErrorCodes ==
  /\ \A a \in Catalog : toE2AError(a.status, a.code).code = a.code /\ toE2AError(a.status, a.code).status = a.status
                        /\ toE2AError(a.status, a.code).retryable = resolve(a.status, a.code).retryable
  /\ \A s \in {200, 201, 202} : toE2AError(s, NoCode).code = "error" /\ toE2AError(s, NoCode).status = s
  /\ NoError.code = NoCode /\ connectionError.code = "connection_error" /\ connectionError.status = 0
<1>1. \A s \in {200, 201, 202} : DefaultCode(s) = "error"
  BY DEF DefaultCode
<1> QED
  BY <1>1, NoEmptyCode DEF toE2AError, NoError, connectionError

\* A caller that hears not_found from deleteAccount did not itself delete the
\* account: the one attempt it made was refused.
THEOREM Truthful == Spec => []NotFoundIsTruthful
<1>1. ASSUME Inv PROVE NotFoundIsTruthful
  <2> SUFFICES ASSUME NEW c \in Calls, op = "deleteAccount", outcome[c].error.code = "not_found",
                      NEW h \in executed, h[1] = c
               PROVE  FALSE
    BY DEF NotFoundIsTruthful
  <2>1. TypeInv /\ Sequential /\ Executing /\ Blame(c)
    BY <1>1 DEF Inv, Throws
  <2>2. PICK n \in 0..MaxRetries : h = <<c, n>>
    BY <2>1 DEF TypeInv, Handlers
  <2>3. ~isRetrySafe
    <3>1. request.method = "DELETE"
      BY <2>1, OperationsAssumption DEF TypeInv, request
    <3> QED
      BY <3>1 DEF isRetrySafe
  <2>4. attempt[c] = 0 /\ n = 0
    <3>1. hpc[<<c, n>>] # "none"
      BY <2>1, <2>2 DEF Executing
    <3>2. attempt[c] = 0 /\ ~(n > attempt[c])
      BY <2>1, <2>3, <3>1 DEF Sequential
    <3> QED
      BY <3>2, HandlerFact
  <2>5. <<c, attempt[c]>> \in executed
    BY <2>2, <2>4
  <2>6. "error" # "not_found" /\ NoCode # "not_found" /\ "connection_error" # "not_found"
    BY DEF NoCode
  <2>7. \A s \in Undeclared : toE2AError(s, NoCode).code # "not_found"
    BY <2>6, ErrorCodes, SuccessRange
  <2>8. \A a \in Catalog : outcome[c].error = toE2AError(a.status, a.code) => a.code = "not_found"
    BY ErrorCodes
  <2> QED
    BY <2>1, <2>5, <2>6, <2>7, <2>8, ErrorCodes DEF Blame
<1> QED
  BY <1>1, Invariant, PTL

\* The statuses the handlers answer success with are declared by the processors.
SuccessDeclared == \A o \in DOMAIN Operations : ServerSuccess(o) \subseteq Operations[o].responses.ok

\* No success of the server is thrown at the caller, for any table of operations
\* whose processors declare the statuses the handlers answer success with.
THEOREM SuccessReturned ==
  ASSUME SuccessDeclared
  PROVE  Spec => []SuccessIsReturned
<1>1. ASSUME Inv PROVE SuccessIsReturned
  <2>1. Undeclared = {}
    BY <1>1 DEF Inv, TypeInv, SuccessDeclared, Undeclared, Successes, responses
  <2> SUFFICES ASSUME NEW c \in Calls, outcome[c].kind = "error"
               PROVE  outcome[c].error.status \notin 200..299
    BY DEF SuccessIsReturned
  <2>2. outcome[c].error = connectionError \/ \E a \in Catalog : outcome[c].error = toE2AError(a.status, a.code)
    BY <1>1, <2>1 DEF Inv, Throws, Blame
  <2>3. outcome[c].error.status = 0 \/ (outcome[c].error.status \in Nat /\ outcome[c].error.status >= 400)
    BY <2>2, ErrorCodes, CatalogFact
  <2> QED
    BY <2>3
<1> QED
  BY <1>1, Invariant, PTL
-----------------------------------------------------------------------------
(* The advice of a typed error.                                            *)

TableCodes ==
  {"unauthorized", "forbidden", "blocked_by_policy", "not_found", "gone", "conflict", "message_not_pending",
   "webhook_cooldown", "webhook_disabled", "invalid_request", "bad_request", "unprocessable_entity",
   "domain_not_verified", "recipient_suppressed", "limit_exceeded", "template_limit_reached",
   "webhook_limit_reached", "rate_limited", "idempotency_in_flight", "idempotency_key_reuse",
   "not_implemented", "events_log_disabled"}

\* Two codes of the table carry retry advice.
LEMMA TableAdvice ==
  /\ DOMAIN CODE_TABLE = TableCodes
  /\ \A k \in TableCodes : CODE_TABLE[k].retryable <=> k \in {"rate_limited", "idempotency_in_flight"}
<1>1. DOMAIN CODE_TABLE = TableCodes
  BY DEF CODE_TABLE, TableCodes
<1>2. /\ CODE_TABLE["unauthorized"].retryable = FALSE /\ CODE_TABLE["forbidden"].retryable = FALSE
      /\ CODE_TABLE["blocked_by_policy"].retryable = FALSE /\ CODE_TABLE["not_found"].retryable = FALSE
      /\ CODE_TABLE["gone"].retryable = FALSE /\ CODE_TABLE["conflict"].retryable = FALSE
      /\ CODE_TABLE["message_not_pending"].retryable = FALSE /\ CODE_TABLE["webhook_cooldown"].retryable = FALSE
      /\ CODE_TABLE["webhook_disabled"].retryable = FALSE /\ CODE_TABLE["invalid_request"].retryable = FALSE
      /\ CODE_TABLE["bad_request"].retryable = FALSE /\ CODE_TABLE["unprocessable_entity"].retryable = FALSE
  BY DEF CODE_TABLE, Verdict
<1>3. /\ CODE_TABLE["domain_not_verified"].retryable = FALSE /\ CODE_TABLE["recipient_suppressed"].retryable = FALSE
      /\ CODE_TABLE["limit_exceeded"].retryable = FALSE /\ CODE_TABLE["template_limit_reached"].retryable = FALSE
      /\ CODE_TABLE["webhook_limit_reached"].retryable = FALSE /\ CODE_TABLE["rate_limited"].retryable = TRUE
      /\ CODE_TABLE["idempotency_in_flight"].retryable = TRUE /\ CODE_TABLE["idempotency_key_reuse"].retryable = FALSE
      /\ CODE_TABLE["not_implemented"].retryable = FALSE /\ CODE_TABLE["events_log_disabled"].retryable = FALSE
  BY DEF CODE_TABLE, Verdict
<1> QED
  BY <1>1, <1>2, <1>3 DEF TableCodes

Families == NotFoundFamily \union TakenFamily \union InvalidFamily

\* A code of the table belongs to none of the families recognised by their shape.
LEMMA FamiliesApart == \A k \in TableCodes : k \notin NotFoundFamily /\ k \notin TakenFamily /\ k \notin InvalidFamily
<1>1. \A k \in NotFoundFamily \union TakenFamily : k \notin TableCodes
  BY DEF TableCodes, NotFoundFamily, TakenFamily
<1>2. \A k \in InvalidFamily : k \notin TableCodes
  BY DEF TableCodes, InvalidFamily
<1> QED
  BY <1>1, <1>2

\* What the buckets by status advise.
LEMMA BucketAdvice ==
  ASSUME NEW s \in Nat
  PROVE  StatusBucket(s).retryable <=> isRetryableStatus(s)
<1>1. CASE s \in {400, 401, 402, 403, 404, 409, 410, 422}
  <2>1. ~isRetryableStatus(s)
    BY <1>1 DEF isRetryableStatus
  <2>2. StatusBucket(s).retryable = FALSE
    BY <1>1, <2>1 DEF StatusBucket, Verdict
  <2> QED
    BY <2>1, <2>2
<1>2. CASE s = 429
  <2>1. isRetryableStatus(s)
    BY <1>2 DEF isRetryableStatus
  <2>2. StatusBucket(s).retryable = TRUE
    BY <1>2 DEF StatusBucket, Verdict
  <2> QED
    BY <2>1, <2>2
<1>3. CASE s \notin {400, 401, 402, 403, 404, 409, 410, 422, 429}
  BY <1>3 DEF StatusBucket, Verdict
<1> QED
  BY <1>1, <1>2, <1>3

\* What resolve advises, by the kind of code.
LEMMA ResolveAdvice ==
  ASSUME NEW s \in Nat, NEW k
  PROVE  /\ k \in TableCodes => (resolve(s, k).retryable <=> k \in {"rate_limited", "idempotency_in_flight"})
         /\ k \notin TableCodes /\ k \in Families => resolve(s, k).retryable = FALSE
         /\ k \notin TableCodes /\ k \notin Families => (resolve(s, k).retryable <=> isRetryableStatus(s))
<1>1. CASE k \in TableCodes
  <2>1. k \in DOMAIN CODE_TABLE /\ k \notin NotFoundFamily /\ k \notin TakenFamily /\ k \notin InvalidFamily
    BY <1>1, TableAdvice, FamiliesApart
  <2>2. resolve(s, k) = CODE_TABLE[k]
    BY <2>1, Zenon DEF resolve
  <2> QED
    BY <1>1, <2>2, TableAdvice
<1>2. CASE k \notin TableCodes /\ k \in Families
  <2>1. k \notin DOMAIN CODE_TABLE /\ (k \in NotFoundFamily \/ k \in TakenFamily \/ k \in InvalidFamily)
    BY <1>2, TableAdvice DEF Families
  <2>2. resolve(s, k) \in {Verdict("NotFound", FALSE), Verdict("Conflict", FALSE), Verdict("Validation", FALSE)}
    BY <2>1 DEF resolve, Verdict
  <2>3. resolve(s, k).retryable = FALSE
    BY <2>2 DEF Verdict
  <2> QED
    BY <1>2, <2>3
<1>3. CASE k \notin TableCodes /\ k \notin Families
  <2>1. resolve(s, k) = StatusBucket(s)
    BY <1>3, TableAdvice DEF resolve, Families
  <2> QED
    BY <1>3, <2>1, BucketAdvice
<1> QED
  BY <1>1, <1>2, <1>3

\* A code of the catalogue and the advice its status gives.
LEMMA CatalogAdvice ==
  ASSUME NEW a \in Catalog, a.code # "message_not_yet_delivered"
  PROVE  resolve(a.status, a.code).retryable <=> a.code \in RetryableCodes
<1> DEFINE s == a.status
           k == a.code
           Advised == k \in {"rate_limited", "idempotency_in_flight"}
                      \/ (k \notin TableCodes /\ k \notin Families /\ isRetryableStatus(s))
<1>1. s \in DOMAIN CatalogStatus /\ k \in CatalogStatus[s] /\ s \in Nat
  BY CatalogMember, CatalogFact
<1>2. s \in {400, 401, 402, 403, 404, 409, 410, 413, 422, 429, 500, 501, 503}
  BY <1>1, CatalogDomain
<1>3. resolve(s, k).retryable <=> Advised
  <2>1. "rate_limited" \in TableCodes /\ "idempotency_in_flight" \in TableCodes
    BY DEF TableCodes
  <2> HIDE DEF s, k
  <2> QED
    BY <1>1, <2>1, ResolveAdvice
<1>4. k # "message_not_yet_delivered"
  OBVIOUS
<1> HIDE DEF s, k
<1>5. CASE s \in {400, 401, 402, 403, 404, 409, 410, 413, 422}
  <2>1. ~isRetryableStatus(s)
    BY <1>5 DEF isRetryableStatus
  <2>2. CatalogStatus[400] \cap RetryableCodes = {}
    BY DEF CatalogStatus, InvalidFamily, RetryableCodes
  <2>3. CatalogStatus[409] \cap RetryableCodes \subseteq {"message_not_yet_delivered", "idempotency_in_flight"}
    BY DEF CatalogStatus, TakenFamily, RetryableCodes
  <2>4. /\ CatalogStatus[401] \cap RetryableCodes = {} /\ CatalogStatus[402] \cap RetryableCodes = {}
        /\ CatalogStatus[403] \cap RetryableCodes = {} /\ CatalogStatus[404] \cap RetryableCodes = {}
        /\ CatalogStatus[410] \cap RetryableCodes = {} /\ CatalogStatus[413] \cap RetryableCodes = {}
        /\ CatalogStatus[422] \cap RetryableCodes = {}
    BY DEF CatalogStatus, NotFoundFamily, RetryableCodes
  <2>5. k \in RetryableCodes => k = "idempotency_in_flight"
    BY <1>1, <1>4, <1>5, <2>2, <2>3, <2>4
  <2>6. "idempotency_in_flight" \in RetryableCodes /\ "rate_limited" \in RetryableCodes
    BY DEF RetryableCodes
  <2> QED
    BY <1>3, <2>1, <2>5, <2>6 DEF s, k
<1>6. CASE s \in {429, 500, 501, 503}
  <2>1. isRetryableStatus(s)
    BY <1>6 DEF isRetryableStatus
  <2>2. /\ CatalogStatus[429] = {"rate_limited"} /\ CatalogStatus[500] = {"internal_error"}
        /\ CatalogStatus[501] = {"not_implemented", "events_log_disabled"}
        /\ CatalogStatus[503] = {"limits_unavailable", "inbound_mx_check_failed"}
    BY DEF CatalogStatus
  <2>3. CASE s = 501
    <3>1. k \in TableCodes /\ k \notin RetryableCodes /\ k \notin {"rate_limited", "idempotency_in_flight"}
      BY <1>1, <2>2, <2>3 DEF TableCodes, RetryableCodes
    <3> QED
      BY <1>3, <3>1 DEF s, k
  <2>4. CASE s = 429
    <3>1. k = "rate_limited" /\ k \in RetryableCodes
      BY <1>1, <2>2, <2>4 DEF RetryableCodes
    <3> QED
      BY <1>3, <3>1 DEF s, k
  <2>5. CASE s \in {500, 503}
    <3>1. k \in {"internal_error", "limits_unavailable", "inbound_mx_check_failed"}
      BY <1>1, <2>2, <2>5
    <3>2. k \in RetryableCodes /\ k \notin TableCodes /\ k \notin Families
      BY <3>1 DEF RetryableCodes, TableCodes, Families, NotFoundFamily, TakenFamily, InvalidFamily
    <3> QED
      BY <1>3, <2>1, <3>2 DEF s, k
  <2> QED
    BY <1>6, <2>3, <2>4, <2>5
<1> QED
  BY <1>2, <1>5, <1>6

\* The codes the SDK makes up itself are not of the catalogue.
LEMMA OwnCodes == "connection_error" \notin AllCodes /\ "error" \notin AllCodes
<1> DEFINE Out(s) == "connection_error" \notin CatalogStatus[s] /\ "error" \notin CatalogStatus[s]
<1>1. Out(400)
  BY DEF CatalogStatus, InvalidFamily
<1>2. Out(404) /\ Out(409)
  BY DEF CatalogStatus, NotFoundFamily, TakenFamily
<1>3. Out(401) /\ Out(402) /\ Out(403) /\ Out(410) /\ Out(413) /\ Out(422) /\ Out(429) /\ Out(500) /\ Out(501) /\ Out(503)
  BY DEF CatalogStatus
<1>4. \A s \in DOMAIN CatalogStatus : Out(s)
  <2> HIDE DEF Out
  <2> QED
    BY <1>1, <1>2, <1>3, CatalogDomain
<1> QED
  BY <1>4 DEF AllCodes

\* Whatever error of the catalogue a call throws, its retry advice is the one
\* the server's contract publishes for the code, save the one code CODE_TABLE
\* does not know.
THEOREM Advice == Spec => []AdviceMatchesCatalog
<1>1. ASSUME Inv PROVE AdviceMatchesCatalog
  <2> SUFFICES ASSUME NEW c \in Calls, outcome[c].kind = "error", outcome[c].error.code \in AllCodes,
                      outcome[c].error.code # "message_not_yet_delivered"
               PROVE  outcome[c].error.retryable <=> outcome[c].error.code \in RetryableCodes
    BY DEF AdviceMatchesCatalog, AllCodes
  <2>1. PICK a \in Catalog : outcome[c].error = toE2AError(a.status, a.code)
    <3>1. outcome[c].error # connectionError
      BY ErrorCodes, OwnCodes
    <3>2. \A s \in Undeclared : outcome[c].error # toE2AError(s, NoCode)
      BY ErrorCodes, OwnCodes, SuccessRange
    <3> QED
      BY <1>1, <3>1, <3>2 DEF Inv, Throws, Blame
  <2>2. outcome[c].error.code = a.code /\ outcome[c].error.retryable = resolve(a.status, a.code).retryable
    BY <2>1, ErrorCodes
  <2> QED
    BY <2>2, CatalogAdvice
<1> QED
  BY <1>1, Invariant, PTL
=============================================================================
