-------------------------- MODULE CliCommandsProofs --------------------------
(***************************************************************************)
(* The promise behind exit 5 of the CLI, for any number of attempts,       *)
(* bodies, callers that share a key and faults: an answer that makes a     *)
(* command end with it is only written when no attempt of the invocation   *)
(* has executed, or by a lookup that lost its target.  The theorems that   *)
(* rest on SuccessDeclared are stated for the operations of the generated  *)
(* client as well, which satisfy it.                                       *)
(***************************************************************************)
EXTENDS CliCommands, SdkRequestProofs, SdkApi

\* An answer on which some command of the current operation exits with 5.
FinalAnswer(r) == \E command \in Invoked : EXIT.REQUEST \in ExitCodes(command, Result(r))
-----------------------------------------------------------------------------
(* Which answers are final.                                                *)

\* The exit codes are distinct.
LEMMA ExitNumbers ==
  /\ EXIT.REQUEST = 5 /\ EXIT.ERROR = 1 /\ EXIT.AUTH = 4
  /\ EXIT.OK = 0 /\ EXIT.HELD = 3 /\ EXIT.SEND_OUTCOME = 7
  BY DEF EXIT

\* A success never ends a command with 5, whatever became of the message.
LEMMA SuccessIsNotFinal ==
  ASSUME NEW e
  PROVE  \A command : EXIT.REQUEST \notin ExitCodes(command, Returned(e))
<1>1. Returned(e).kind = "ok"
  BY DEF Returned
<1>2. \A s : emitSendResult(s) \in {0, 3, 7}
  BY ExitNumbers DEF emitSendResult
<1>3. ASSUME NEW command PROVE EXIT.REQUEST \notin ExitCodes(command, Returned(e))
  <2>1. ExitCodes(command, Returned(e)) =
          IF command.emits THEN {emitSendResult(s) : s \in outboundResultView} ELSE {EXIT.OK}
    BY <1>1 DEF ExitCodes
  <2> QED
    BY <1>2, <2>1, ExitNumbers
<1> QED
  BY <1>3

\* Neither does an error that advises to retry.
LEMMA RetryableIsNotFinal ==
  ASSUME NEW e, e.retryable = TRUE
  PROVE  \A command : EXIT.REQUEST \notin ExitCodes(command, Thrown(e))
<1>1. Thrown(e).kind = "error" /\ Thrown(e).error = e
  BY DEF Thrown
<1>2. exitCodeForAPIError(e) \in {EXIT.AUTH, EXIT.ERROR}
  BY DEF exitCodeForAPIError
<1>3. ASSUME NEW command PROVE EXIT.REQUEST \notin ExitCodes(command, Thrown(e))
  <2>1. ExitCodes(command, Thrown(e)) = {exitCodeForAPIError(e)}
    BY <1>1 DEF ExitCodes
  <2> QED
    BY <1>2, <2>1, ExitNumbers
<1> QED
  BY <1>3

\* A failing store and a key that is in flight advise to retry.
LEMMA RetryAdvice ==
  /\ toE2AError(500, "internal_error").retryable = TRUE
  /\ toE2AError(409, "idempotency_in_flight").retryable = TRUE
<1>1. "internal_error" \notin TableCodes /\ "idempotency_in_flight" \in TableCodes
  BY DEF TableCodes
<1>2. resolve(409, "idempotency_in_flight").retryable = TRUE
  <2>1. CODE_TABLE["idempotency_in_flight"].retryable = TRUE
    BY DEF CODE_TABLE, Verdict
  <2> QED
    BY <1>1, <2>1, TableAdvice, FamiliesApart DEF resolve
<1>3. resolve(500, "internal_error").retryable = TRUE
  <2>1. StatusBucket(500).retryable = TRUE
    BY DEF StatusBucket, Verdict, isRetryableStatus
  <2>2. "internal_error" \notin NotFoundFamily /\ "internal_error" \notin TakenFamily /\ "internal_error" \notin InvalidFamily
    BY DEF NotFoundFamily, TakenFamily, InvalidFamily
  <2> QED
    BY <1>1, <2>1, <2>2, TableAdvice DEF resolve
<1> QED
  BY <1>2, <1>3 DEF toE2AError

\* What the processor makes of a refusal.
LEMMA RefusalResult ==
  ASSUME TypeInv, NEW s \in Nat, s >= 400, NEW k
  PROVE  Result(Refusal(s, k)) = Thrown(toE2AError(s, k))
<1>1. responses.ok \subseteq 200..299
  BY OperationsAssumption DEF TypeInv, responses
<1>2. Refusal(s, k).status = s /\ Refusal(s, k).code = k /\ NoReply.status = 0
  BY DEF Refusal, NoReply
<1>3. Refusal(s, k) # NoReply /\ Refusal(s, k).status \notin responses.ok
  BY <1>1, <1>2
<1> QED
  BY <1>2, <1>3 DEF Result

\* The answers that are not final: an error of the store, a key in flight, and
\* every success.
LEMMA NotFinal ==
  ASSUME TypeInv, SuccessDeclared
  PROVE  /\ ~FinalAnswer(StoreError) /\ ~FinalAnswer(InFlight)
         /\ \A s \in ServerSuccess(op) : \A e : ~FinalAnswer([status |-> s, code |-> NoCode, result |-> e])
<1>1. Result(StoreError) = Thrown(toE2AError(500, "internal_error"))
  BY RefusalResult DEF StoreError
<1>2. Result(InFlight) = Thrown(toE2AError(409, "idempotency_in_flight"))
  BY RefusalResult DEF InFlight
<1>3. ~FinalAnswer(StoreError) /\ ~FinalAnswer(InFlight)
  <2> DEFINE e == toE2AError(500, "internal_error")
             f == toE2AError(409, "idempotency_in_flight")
  <2>1. e.retryable = TRUE /\ f.retryable = TRUE
    BY RetryAdvice
  <2>2. Result(StoreError) = Thrown(e) /\ Result(InFlight) = Thrown(f)
    BY <1>1, <1>2
  <2> HIDE DEF e, f
  <2>3. \A command : EXIT.REQUEST \notin ExitCodes(command, Thrown(e))
    BY <2>1, RetryableIsNotFinal
  <2>4. \A command : EXIT.REQUEST \notin ExitCodes(command, Thrown(f))
    BY <2>1, RetryableIsNotFinal
  <2> QED
    BY <2>2, <2>3, <2>4, Zenon DEF FinalAnswer
<1>4. ASSUME NEW s \in ServerSuccess(op), NEW e PROVE ~FinalAnswer([status |-> s, code |-> NoCode, result |-> e])
  <2> DEFINE r == [status |-> s, code |-> NoCode, result |-> e]
  <2>1. r.status = s /\ NoReply.status = 0 /\ s # 0
    BY DEF NoReply, ServerSuccess
  <2>2. s \in responses.ok
    BY <1>4 DEF SuccessDeclared, responses, TypeInv
  <2>3. Result(r) = Returned(r.result)
    BY <2>1, <2>2 DEF Result
  <2> HIDE DEF r
  <2>4. ~FinalAnswer(r)
    BY <2>3, SuccessIsNotFinal DEF FinalAnswer
  <2> QED
    BY <2>4 DEF r
<1> QED
  BY <1>3, <1>4
-----------------------------------------------------------------------------
(* When a handler refuses for good.                                        *)

\* No command calls an operation that is unguarded, must run once, and is
\* repeated by the transport.
LEMMA NoRepeat ==
  ASSUME TypeInv, Once, ~Guarded, Invoked # {}
  PROVE  ~isRetrySafe
<1>1. op \in DOMAIN Operations /\ mode \in Modes(op) /\ mode \in {"plain", "direct"}
  BY DEF TypeInv, Guarded, Modes
<1>2. op # "approveReview" /\ op # "deleteMessage"
  <2>1. PICK command \in main : op \in {command.calls[i] : i \in DOMAIN command.calls}
    BY DEF Invoked
  <2>2. \A c \in main : \A i \in DOMAIN c.calls : c.calls[i] # "approveReview" /\ c.calls[i] # "deleteMessage"
    BY DEF main, send, replyCommand, messagesList, messagesGet, messagesLifecycle, agentsList, agentsCreate, agentsGet,
           keysCreate, keysList, keysDelete, whoami, protectionGet, protectionSet, Prints, Emits
  <2> QED
    BY <2>1, <2>2
<1>3. mode = "direct" => request.method = "DELETE"
  BY <1>1, <1>2 DEF Modes, request
<1>4. CASE op = "deleteAccount"
  <2>1. request.method = "DELETE"
    BY <1>1, <1>4, OperationsAssumption DEF request
  <2> QED
    BY <1>4, <2>1 DEF isRetrySafe
<1>5. CASE op # "deleteAccount"
  <2>1. request.method = "POST"
    BY <1>5 DEF Once
  <2>2. mode = "plain"
    BY <1>1, <1>3, <2>1
  <2>3. ~request.stub
    BY <1>1, <2>1, <2>2, OperationsAssumption DEF request
  <2> QED
    BY <2>1, <2>3 DEF isRetrySafe
<1> QED
  BY <1>4, <1>5

\* A handler that has not committed yet is the first of its call, or holds a
\* key under which nothing has executed.
LEMMA RunningIsUnsent ==
  ASSUME Inv, Once, licence, Invoked # {}, NEW h \in Handlers, hpc[h] = "running"
  PROVE  \A g \in executed : g[1] # h[1]
<1>1. TypeInv /\ Sequential /\ Executing /\ Claims
  BY DEF Inv
<1>2. CASE Guarded
  <2>1. RunningRow(h)
    BY <1>1, <1>2, ClaimsParts
  <2> QED
    BY <2>1 DEF RunningRow, SameKey
<1>3. CASE ~Guarded
  <2>1. ~isRetrySafe
    BY <1>1, <1>3, NoRepeat
  <2>2. ASSUME NEW g \in Handlers, hpc[g] # "none" PROVE g[2] = 0
    <3>1. PICK c \in Calls, n \in 0..MaxRetries : g = <<c, n>>
      BY DEF Handlers
    <3>2. hpc[<<c, n>>] # "none"
      BY <2>2, <3>1
    <3>3. attempt[c] = 0 /\ ~(n > attempt[c])
      BY <1>1, <2>1, <3>2 DEF Sequential
    <3> QED
      BY <3>1, <3>3, HandlerFact
  <2>3. ASSUME NEW g \in executed, g[1] = h[1] PROVE FALSE
    <3>1. g \in Handlers /\ hpc[g] # "none" /\ hpc[g] # "running" /\ hpc[h] # "none"
      BY <1>1 DEF TypeInv, Executing
    <3>2. g[2] = h[2]
      BY <2>2, <3>1
    <3>3. g = h
      BY <2>3, <3>1, <3>2, HandlerFact
    <3> QED
      BY <3>1, <3>3
  <2> QED
    BY <2>3
<1> QED
  BY <1>2, <1>3

\* A key is reused with another body only if the call itself has not executed.
LEMMA ReuseIsUnsent ==
  ASSUME Inv, licence, NEW h \in Handlers, hpc[h] = "classify", Row(h).hash # body[h[1]]
  PROVE  \A g \in executed : g[1] # h[1]
<1>1. TypeInv /\ Claims /\ Guarded
  BY DEF Inv, Classified
<1>2. Row(h) = row[group[h[1]]]
  BY <1>1, PlaceFact
<1>3. ASSUME NEW g \in executed, g[1] = h[1] PROVE FALSE
  <2>1. ExecutedRow(g)
    BY <1>1, ClaimsParts
  <2> QED
    BY <1>2, <1>3, <2>1 DEF ExecutedRow
<1> QED
  BY <1>3
-----------------------------------------------------------------------------
(* Every step.                                                             *)

\* A response is written in one place.
LEMMA Written ==
  ASSUME TypeInv, NEW h \in Handlers, NEW r, Respond(h, r)
  PROVE  reply'[h] = reply[h] \/ reply'[h] = r
  BY DEF Respond, TypeInv

\* A step of a handler writes a final answer only if nothing has executed, or
\* because it has lost its target.
LEMMA HandlerFinal ==
  ASSUME Inv, TargetInv, SuccessDeclared, NEW h \in Handlers, HandlerStep(h), UNCHANGED reqVars,
         reply'[h] # reply[h], Once, licence', ~TargetLost(h), FinalAnswer(reply'[h])
  PROVE  \A g \in executed' : g[1] # h[1]
<1>1. TypeInv /\ licence /\ Invoked # {}
  BY HandlerChanges DEF Inv, FinalAnswer
<1>2. /\ ~FinalAnswer(StoreError) /\ ~FinalAnswer(InFlight)
      /\ \A s \in ServerSuccess(op) : \A e : ~FinalAnswer([status |-> s, code |-> NoCode, result |-> e])
  BY <1>1, NotFinal
<1>3. \A r : Respond(h, r) => reply'[h] = r
  BY <1>1, Written
<1>4. reply' # reply
  OBVIOUS
<1>5. CASE Run(h) \/ Claim(h) \/ ClaimLost(h) \/ Commit(h) \/ Crash(h)
  BY <1>4, <1>5 DEF Run, Claim, ClaimLost, Commit, Crash
<1>6. CASE Classify(h)
  <2>1. hpc[h] = "classify" /\ UNCHANGED executed /\ Row(h).hash # body[h[1]]
    BY <1>2, <1>3, <1>6 DEF Classify
  <2> QED
    BY <1>1, <2>1, ReuseIsUnsent
<1>7. CASE ClaimFails(h) \/ Panic(h)
  BY <1>2, <1>3, <1>7 DEF ClaimFails, Panic
<1>8. CASE Refuse(h) \/ AlreadyGone(h)
  <2>1. hpc[h] = "running" /\ UNCHANGED executed
    BY <1>8 DEF Refuse, AlreadyGone
  <2> QED
    BY <1>1, <2>1, RunningIsUnsent
<1>9. CASE Finish(h) \/ FinishUnrecorded(h)
  BY <1>2, <1>3, <1>9 DEF Finish, FinishUnrecorded, Succeeded
<1>10. CASE Unresolved(h)
  <2>1. hpc[h] = "sent" /\ op \in Addressed /\ executed' = executed
    BY <1>10 DEF Unresolved
  <2>2. target # "gone" /\ ~Fault
    BY <1>1, <2>1, FaultsAssumption DEF TargetLost, Fault, TypeInv
  <2>3. target = "queued"
    BY <1>10, <2>2 DEF Unresolved
  <2> QED
    BY <2>1, <2>3 DEF TargetInv
<1> QED
  BY <1>5, <1>6, <1>7, <1>8, <1>9, <1>10 DEF HandlerStep

\* Exit 5 tells a script that repeating the invocation cannot succeed: for any
\* table of operations whose processors declare the handlers' successes, an
\* answer with which a command exits so is never written once an attempt of the
\* invocation has executed, while the deduplication guarantee stands, except by
\* a lookup that fails or finds its target gone.
THEOREM ExitFiveIsUnsent ==
  ASSUME SuccessDeclared
  PROVE  Spec => FinalMeansUnsent
<1> DEFINE Unsent == \A h \in Handlers :
                       /\ reply'[h] \notin {reply[h], NoReply}
                       /\ Once /\ licence' /\ ~TargetLost(h) /\ FinalAnswer(reply'[h])
                       => \A g \in executed' : g[1] # h[1]
<1>1. ASSUME Inv, TargetInv, [Next]_vars PROVE Unsent
  <2> SUFFICES ASSUME NEW h \in Handlers, reply'[h] \notin {reply[h], NoReply}, Once, licence', ~TargetLost(h),
                      FinalAnswer(reply'[h])
               PROVE  \A g \in executed' : g[1] # h[1]
    OBVIOUS
  <2>1. Next
    BY <1>1 DEF vars, srvVars
  <2>2. UNCHANGED reqVars
    BY <2>1, RequestFixed
  <2>3. ASSUME NEW c \in Calls, ClientStep(c) PROVE FALSE
    <3>1. TypeInv
      BY <1>1 DEF Inv
    <3> QED
      BY <2>3, <3>1, ClientFacts
  <2>4. ASSUME NEW e \in Handlers, HandlerStep(e) PROVE \A g \in executed' : g[1] # h[1]
    <3>1. e = h
      BY <1>1, <2>2, <2>4, HandlerChanges
    <3> QED
      BY <1>1, <2>2, <2>4, <3>1, HandlerFinal
  <2>5. ASSUME NEW k \in Keys, Age(k) \/ Sweep(k) PROVE FALSE
    BY <2>5 DEF Age, Sweep
  <2>6. ~TargetChanges
    BY DEF TargetChanges, srvVars
  <2> QED
    BY <2>1, <2>3, <2>4, <2>5, <2>6 DEF Next
<1>2. Unsent => \A h \in Handlers :
                  /\ reply'[h] \notin {reply[h], NoReply}
                  /\ Once /\ licence' /\ ~TargetLost(h)
                  /\ \E command \in Invoked : EXIT.REQUEST \in ExitCodes(command, Result(reply'[h]))
                  => \A g \in executed' : g[1] # h[1]
  BY DEF FinalAnswer
<1> QED
  BY <1>1, <1>2, Invariant, TargetInvariant, PTL DEF Spec, FinalMeansUnsent
-----------------------------------------------------------------------------
(* The table of the generated client.                                      *)

\* The processors of the generated client declare every status the handlers
\* answer success with, for all of its operations.
LEMMA ClientDeclares ==
  ASSUME Operations = SdkOperations
  PROVE  SuccessDeclared
<1> DEFINE Declares(f) == \A o \in DOMAIN f : ServerSuccess(o) \subseteq f[o].responses.ok
           G == {PromiseAccountApi, PromiseAgentsApi, PromiseConversationsApi, PromiseDomainsApi,
                 PromiseEventsApi, PromiseMessagesApi, PromiseMetaApi,
                 PromiseReviewsApi, PromiseTemplatesApi, PromiseWebhooksApi}
<1>1. Declares(PromiseAccountApi)
  BY DEF PromiseAccountApi, ObservableAccountApi, Operation, Responses, ServerSuccess,
         createApiKeyWithHttpInfo, deleteAccountWithHttpInfo, deleteApiKeyWithHttpInfo,
         deleteSuppressionWithHttpInfo, exportAccountWithHttpInfo, getAccountWithHttpInfo,
         listApiKeysWithHttpInfo, listSuppressionsWithHttpInfo
<1>2. Declares(PromiseAgentsApi)
  BY DEF PromiseAgentsApi, ObservableAgentsApi, Operation, Responses, ServerSuccess, createAgentWithHttpInfo,
         createAgentSuppressionWithHttpInfo, deleteAgentWithHttpInfo, deleteAgentSuppressionWithHttpInfo,
         getAgentWithHttpInfo, getAgentProtectionWithHttpInfo, listAgentSuppressionsWithHttpInfo,
         listAgentsWithHttpInfo, putAgentProtectionWithHttpInfo, restoreAgentWithHttpInfo,
         testAgentWithHttpInfo, updateAgentWithHttpInfo
<1>3. Declares(PromiseConversationsApi)
  BY DEF PromiseConversationsApi, ObservableConversationsApi, Operation, Responses, ServerSuccess,
         getConversationWithHttpInfo, listConversationsWithHttpInfo
<1>4. Declares(PromiseDomainsApi)
  BY DEF PromiseDomainsApi, ObservableDomainsApi, Operation, Responses, ServerSuccess,
         deleteDomainWithHttpInfo, getDomainWithHttpInfo, listDomainsWithHttpInfo,
         registerDomainWithHttpInfo, verifyDomainWithHttpInfo
<1>5. Declares(PromiseEventsApi)
  BY DEF PromiseEventsApi, ObservableEventsApi, Operation, Responses, ServerSuccess, getEventWithHttpInfo,
         listEventsWithHttpInfo, redeliverEventWithHttpInfo
<1>6. Declares(PromiseMessagesApi)
  BY DEF PromiseMessagesApi, ObservableMessagesApi, Operation, Responses, ServerSuccess,
         deleteMessageWithHttpInfo, forwardMessageWithHttpInfo, getAttachmentWithHttpInfo,
         getMessageWithHttpInfo, getMessageLifecycleWithHttpInfo, listMessagesWithHttpInfo,
         replyToMessageWithHttpInfo, restoreMessageWithHttpInfo, sendMessageWithHttpInfo,
         updateMessageWithHttpInfo
<1>7. Declares(PromiseMetaApi)
  BY DEF PromiseMetaApi, ObservableMetaApi, Operation, Responses, ServerSuccess, getInfoWithHttpInfo
<1>8. Declares(PromiseReviewsApi)
  BY DEF PromiseReviewsApi, ObservableReviewsApi, Operation, Responses, ServerSuccess,
         approveReviewWithHttpInfo, getReviewWithHttpInfo, listReviewsWithHttpInfo, rejectReviewWithHttpInfo
<1>9. Declares(PromiseTemplatesApi)
  BY DEF PromiseTemplatesApi, ObservableTemplatesApi, Operation, Responses, ServerSuccess,
         createTemplateWithHttpInfo, deleteTemplateWithHttpInfo, getStarterTemplateWithHttpInfo,
         getTemplateWithHttpInfo, listStarterTemplatesWithHttpInfo, listTemplatesWithHttpInfo,
         updateTemplateWithHttpInfo, validateTemplateWithHttpInfo
<1>10. Declares(PromiseWebhooksApi)
  BY DEF PromiseWebhooksApi, ObservableWebhooksApi, Operation, Responses, ServerSuccess,
         createWebhookWithHttpInfo, deleteWebhookWithHttpInfo, getWebhookWithHttpInfo,
         listWebhookDeliveriesWithHttpInfo, listWebhooksWithHttpInfo, rotateWebhookSecretWithHttpInfo,
         testWebhookWithHttpInfo, updateWebhookWithHttpInfo
<1>11. \A g \in G : Declares(g)
  BY <1>1, <1>2, <1>3, <1>4, <1>5, <1>6, <1>7, <1>8, <1>9, <1>10
<1>12. \A o \in E2AClient : \E g \in G : o \in DOMAIN g
  <2>1. AccountResource \subseteq DOMAIN PromiseAccountApi
    BY DEF AccountResource, SuppressionsResource, APIKeysResource, PromiseAccountApi, ObservableAccountApi
  <2>2. AgentsResource \subseteq DOMAIN PromiseAgentsApi
    BY DEF AgentsResource, PromiseAgentsApi, ObservableAgentsApi
  <2>3. ConversationsResource \subseteq DOMAIN PromiseConversationsApi
    BY DEF ConversationsResource, PromiseConversationsApi, ObservableConversationsApi
  <2>4. DomainsResource \subseteq DOMAIN PromiseDomainsApi
    BY DEF DomainsResource, PromiseDomainsApi, ObservableDomainsApi
  <2>5. EventsResource \subseteq DOMAIN PromiseEventsApi
    BY DEF EventsResource, PromiseEventsApi, ObservableEventsApi
  <2>6. MessagesResource \subseteq DOMAIN PromiseMessagesApi
    BY DEF MessagesResource, PromiseMessagesApi, ObservableMessagesApi
  <2>7. {"getInfo"} \subseteq DOMAIN PromiseMetaApi
    BY DEF PromiseMetaApi, ObservableMetaApi
  <2>8. ReviewsResource \subseteq DOMAIN PromiseReviewsApi
    BY DEF ReviewsResource, PromiseReviewsApi, ObservableReviewsApi
  <2>9. TemplatesResource \subseteq DOMAIN PromiseTemplatesApi
    BY DEF TemplatesResource, PromiseTemplatesApi, ObservableTemplatesApi
  <2>10. WebhooksResource \subseteq DOMAIN PromiseWebhooksApi
    BY DEF WebhooksResource, PromiseWebhooksApi, ObservableWebhooksApi
  <2> QED
    BY <2>1, <2>2, <2>3, <2>4, <2>5, <2>6, <2>7, <2>8, <2>9, <2>10 DEF E2AClient
<1>13. Api = Joined(G)
  BY DEF Api
<1> HIDE DEF G
<1>14. ASSUME NEW o \in E2AClient PROVE ServerSuccess(o) \subseteq Api[o].responses.ok
  <2> DEFINE h == CHOOSE g \in G : o \in DOMAIN g
  <2>1. h \in G /\ o \in DOMAIN h
    BY <1>12
  <2>2. Joined(G)[o] = h[o]
    BY <1>12 DEF Joined
  <2> QED
    BY <1>11, <1>13, <2>1, <2>2
<1> QED
  BY <1>14 DEF SuccessDeclared, SdkOperations

\* With the operations of the generated client, no answer on which a command
\* exits with 5 is written once an attempt of its invocation has executed,
\* unless a lookup failed or found the inbox or the message gone.
THEOREM SdkExitFiveIsUnsent ==
  ASSUME Operations = SdkOperations
  PROVE  Spec => FinalMeansUnsent
  BY ClientDeclares, ExitFiveIsUnsent

\* With the operations of the generated client, no success of the server is
\* thrown at the caller.
THEOREM SdkSuccessIsReturned ==
  ASSUME Operations = SdkOperations
  PROVE  Spec => []SuccessIsReturned
  BY ClientDeclares, SuccessReturned
==============================================================================
