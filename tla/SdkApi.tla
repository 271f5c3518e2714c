------------------------------ MODULE SdkApi ------------------------------
(***************************************************************************)
(* The operations of the /v1 API as the TypeScript SDK calls them          *)
(* (sdks/typescript/src/v1/generated/apis and client.ts).  An operation is *)
(* the request its factory builds (HTTP method, parameters it refuses to   *)
(* omit, whether it emits an Idempotency-Key header) and the statuses its  *)
(* response processor declares.  Paths, bodies, query parameters and the   *)
(* views the bodies are parsed into are abstracted away.                   *)
(***************************************************************************)
EXTENDS Naturals, TLC

\* The generated layer sets the Idempotency-Key header on every call of a
\* stubbed operation, empty when the caller passed no key.
Stub == TRUE
NoStub == FALSE

Request(method, required, stub) == [method |-> method, required |-> required, stub |-> stub]

\* The statuses the processor returns a body for.  Every processor declares a
\* default response, which isCodeInRange matches with any status: whatever is
\* not in ok is thrown as an ApiException, other 2xx statuses included.
Responses(ok) == [ok |-> ok]

\* An Observable*Api class runs a request factory, the HTTP library and a
\* response processor in turn; the Promise*Api class that the client holds
\* awaits it and adds nothing.
Operation(request, responses) == [request |-> request, responses |-> responses]
-----------------------------------------------------------------------------
(* generated/apis/AccountApi.ts *)

createApiKey == Request("POST", {"createAPIKeyRequest"}, Stub)
deleteAccount == Request("DELETE", {"confirm"}, NoStub)
deleteApiKey == Request("DELETE", {"id", "confirm"}, NoStub)
deleteSuppression == Request("DELETE", {"address", "confirm"}, NoStub)
exportAccount == Request("GET", {}, NoStub)
getAccount == Request("GET", {}, NoStub)
listApiKeys == Request("GET", {}, NoStub)
listSuppressions == Request("GET", {}, NoStub)

\* Mutant: the status the handler answers with is not declared.
CreatedAsOk == Responses({200})

createApiKeyWithHttpInfo == Responses({201})
deleteAccountWithHttpInfo == Responses({200})
deleteApiKeyWithHttpInfo == Responses({200})
deleteSuppressionWithHttpInfo == Responses({200})
exportAccountWithHttpInfo == Responses({200})
getAccountWithHttpInfo == Responses({200})
listApiKeysWithHttpInfo == Responses({200})
listSuppressionsWithHttpInfo == Responses({200})

ObservableAccountApi ==
  [createApiKey |-> Operation(createApiKey, createApiKeyWithHttpInfo),
   deleteAccount |-> Operation(deleteAccount, deleteAccountWithHttpInfo),
   deleteApiKey |-> Operation(deleteApiKey, deleteApiKeyWithHttpInfo),
   deleteSuppression |-> Operation(deleteSuppression, deleteSuppressionWithHttpInfo),
   exportAccount |-> Operation(exportAccount, exportAccountWithHttpInfo),
   getAccount |-> Operation(getAccount, getAccountWithHttpInfo),
   listApiKeys |-> Operation(listApiKeys, listApiKeysWithHttpInfo),
   listSuppressions |-> Operation(listSuppressions, listSuppressionsWithHttpInfo)]
PromiseAccountApi == ObservableAccountApi
-----------------------------------------------------------------------------
(* generated/apis/AgentsApi.ts *)

createAgent == Request("POST", {"createAgentRequest"}, NoStub)
createAgentSuppression == Request("POST", {"email", "createAgentSuppressionRequest"}, NoStub)
deleteAgent == Request("DELETE", {"email", "confirm"}, NoStub)
deleteAgentSuppression == Request("DELETE", {"email", "address", "confirm"}, NoStub)
getAgent == Request("GET", {"email"}, NoStub)
getAgentProtection == Request("GET", {"email"}, NoStub)
listAgentSuppressions == Request("GET", {"email"}, NoStub)
listAgents == Request("GET", {}, NoStub)
putAgentProtection == Request("PUT", {"email", "protectionConfigRequest"}, NoStub)
restoreAgent == Request("POST", {"email"}, NoStub)
testAgent == Request("POST", {"email"}, NoStub)
updateAgent == Request("PATCH", {"email", "updateAgentRequest"}, NoStub)

createAgentWithHttpInfo == Responses({201})
createAgentSuppressionWithHttpInfo == Responses({200})
deleteAgentWithHttpInfo == Responses({200})
deleteAgentSuppressionWithHttpInfo == Responses({200})
getAgentWithHttpInfo == Responses({200})
getAgentProtectionWithHttpInfo == Responses({200})
listAgentSuppressionsWithHttpInfo == Responses({200})
listAgentsWithHttpInfo == Responses({200})
putAgentProtectionWithHttpInfo == Responses({200})
restoreAgentWithHttpInfo == Responses({200})
testAgentWithHttpInfo == Responses({200, 202})
updateAgentWithHttpInfo == Responses({200})

ObservableAgentsApi ==
  [createAgent |-> Operation(createAgent, createAgentWithHttpInfo),
   createAgentSuppression |-> Operation(createAgentSuppression, createAgentSuppressionWithHttpInfo),
   deleteAgent |-> Operation(deleteAgent, deleteAgentWithHttpInfo),
   deleteAgentSuppression |-> Operation(deleteAgentSuppression, deleteAgentSuppressionWithHttpInfo),
   getAgent |-> Operation(getAgent, getAgentWithHttpInfo),
   getAgentProtection |-> Operation(getAgentProtection, getAgentProtectionWithHttpInfo),
   listAgentSuppressions |-> Operation(listAgentSuppressions, listAgentSuppressionsWithHttpInfo),
   listAgents |-> Operation(listAgents, listAgentsWithHttpInfo),
   putAgentProtection |-> Operation(putAgentProtection, putAgentProtectionWithHttpInfo),
   restoreAgent |-> Operation(restoreAgent, restoreAgentWithHttpInfo),
   testAgent |-> Operation(testAgent, testAgentWithHttpInfo),
   updateAgent |-> Operation(updateAgent, updateAgentWithHttpInfo)]
PromiseAgentsApi == ObservableAgentsApi
-----------------------------------------------------------------------------
(* generated/apis/ConversationsApi.ts *)

getConversation == Request("GET", {"email", "id"}, NoStub)
listConversations == Request("GET", {"email"}, NoStub)

getConversationWithHttpInfo == Responses({200})
listConversationsWithHttpInfo == Responses({200})

ObservableConversationsApi ==
  [getConversation |-> Operation(getConversation, getConversationWithHttpInfo),
   listConversations |-> Operation(listConversations, listConversationsWithHttpInfo)]
PromiseConversationsApi == ObservableConversationsApi
-----------------------------------------------------------------------------
(* generated/apis/DomainsApi.ts *)

deleteDomain == Request("DELETE", {"domain", "confirm"}, NoStub)
getDomain == Request("GET", {"domain"}, NoStub)
listDomains == Request("GET", {}, NoStub)
registerDomain == Request("POST", {"registerDomainRequest"}, NoStub)
verifyDomain == Request("POST", {"domain"}, NoStub)

deleteDomainWithHttpInfo == Responses({200})
getDomainWithHttpInfo == Responses({200})
listDomainsWithHttpInfo == Responses({200})
registerDomainWithHttpInfo == Responses({201})
verifyDomainWithHttpInfo == Responses({200})

ObservableDomainsApi ==
  [deleteDomain |-> Operation(deleteDomain, deleteDomainWithHttpInfo),
   getDomain |-> Operation(getDomain, getDomainWithHttpInfo),
   listDomains |-> Operation(listDomains, listDomainsWithHttpInfo),
   registerDomain |-> Operation(registerDomain, registerDomainWithHttpInfo),
   verifyDomain |-> Operation(verifyDomain, verifyDomainWithHttpInfo)]
PromiseDomainsApi == ObservableDomainsApi
-----------------------------------------------------------------------------
(* generated/apis/EventsApi.ts *)

getEvent == Request("GET", {"id"}, NoStub)
listEvents == Request("GET", {}, NoStub)
redeliverEvent == Request("POST", {"id", "redeliverEventRequest"}, NoStub)

getEventWithHttpInfo == Responses({200})
listEventsWithHttpInfo == Responses({200})
redeliverEventWithHttpInfo == Responses({202})

ObservableEventsApi ==
  [getEvent |-> Operation(getEvent, getEventWithHttpInfo),
   listEvents |-> Operation(listEvents, listEventsWithHttpInfo),
   redeliverEvent |-> Operation(redeliverEvent, redeliverEventWithHttpInfo)]
PromiseEventsApi == ObservableEventsApi
-----------------------------------------------------------------------------
(* generated/apis/MessagesApi.ts *)

deleteMessage == Request("DELETE", {"email", "id"}, NoStub)
forwardMessage == Request("POST", {"email", "id", "forwardRequest"}, Stub)
getAttachment == Request("GET", {"email", "id", "index"}, NoStub)
getMessage == Request("GET", {"email", "id"}, NoStub)
getMessageLifecycle == Request("GET", {"email", "id"}, NoStub)
listMessages == Request("GET", {"email"}, NoStub)
replyToMessage == Request("POST", {"email", "id", "replyRequest"}, Stub)
restoreMessage == Request("POST", {"email", "id"}, NoStub)
sendMessage == Request("POST", {"email", "sendEmailRequest"}, Stub)
updateMessage == Request("PATCH", {"email", "id", "updateMessageRequest"}, NoStub)

deleteMessageWithHttpInfo == Responses({200})
forwardMessageWithHttpInfo == Responses({200, 202})
getAttachmentWithHttpInfo == Responses({200})
getMessageWithHttpInfo == Responses({200})
getMessageLifecycleWithHttpInfo == Responses({200})
listMessagesWithHttpInfo == Responses({200})
replyToMessageWithHttpInfo == Responses({200, 202})
restoreMessageWithHttpInfo == Responses({200})
sendMessageWithHttpInfo == Responses({200, 202})
updateMessageWithHttpInfo == Responses({200})

ObservableMessagesApi ==
  [deleteMessage |-> Operation(deleteMessage, deleteMessageWithHttpInfo),
   forwardMessage |-> Operation(forwardMessage, forwardMessageWithHttpInfo),
   getAttachment |-> Operation(getAttachment, getAttachmentWithHttpInfo),
   getMessage |-> Operation(getMessage, getMessageWithHttpInfo),
   getMessageLifecycle |-> Operation(getMessageLifecycle, getMessageLifecycleWithHttpInfo),
   listMessages |-> Operation(listMessages, listMessagesWithHttpInfo),
   replyToMessage |-> Operation(replyToMessage, replyToMessageWithHttpInfo),
   restoreMessage |-> Operation(restoreMessage, restoreMessageWithHttpInfo),
   sendMessage |-> Operation(sendMessage, sendMessageWithHttpInfo),
   updateMessage |-> Operation(updateMessage, updateMessageWithHttpInfo)]
PromiseMessagesApi == ObservableMessagesApi
-----------------------------------------------------------------------------
(* generated/apis/MetaApi.ts *)

getInfo == Request("GET", {}, NoStub)

getInfoWithHttpInfo == Responses({200})

ObservableMetaApi ==
  [getInfo |-> Operation(getInfo, getInfoWithHttpInfo)]
PromiseMetaApi == ObservableMetaApi
-----------------------------------------------------------------------------
(* generated/apis/ReviewsApi.ts *)

approveReview == Request("POST", {"id", "approveRequest"}, Stub)
getReview == Request("GET", {"id"}, NoStub)
listReviews == Request("GET", {}, NoStub)
rejectReview == Request("POST", {"id", "rejectRequest"}, NoStub)

approveReviewWithHttpInfo == Responses({200, 202})
getReviewWithHttpInfo == Responses({200})
listReviewsWithHttpInfo == Responses({200})
rejectReviewWithHttpInfo == Responses({200})

ObservableReviewsApi ==
  [approveReview |-> Operation(approveReview, approveReviewWithHttpInfo),
   getReview |-> Operation(getReview, getReviewWithHttpInfo),
   listReviews |-> Operation(listReviews, listReviewsWithHttpInfo),
   rejectReview |-> Operation(rejectReview, rejectReviewWithHttpInfo)]
PromiseReviewsApi == ObservableReviewsApi
-----------------------------------------------------------------------------
(* generated/apis/TemplatesApi.ts *)

createTemplate == Request("POST", {"createTemplateRequest"}, NoStub)
deleteTemplate == Request("DELETE", {"id", "confirm"}, NoStub)
getStarterTemplate == Request("GET", {"alias"}, NoStub)
getTemplate == Request("GET", {"id"}, NoStub)
listStarterTemplates == Request("GET", {}, NoStub)
listTemplates == Request("GET", {}, NoStub)
updateTemplate == Request("PATCH", {"id", "updateTemplateRequest"}, NoStub)
validateTemplate == Request("POST", {"validateTemplateRequest"}, NoStub)

createTemplateWithHttpInfo == Responses({201})
deleteTemplateWithHttpInfo == Responses({200})
getStarterTemplateWithHttpInfo == Responses({200})
getTemplateWithHttpInfo == Responses({200})
listStarterTemplatesWithHttpInfo == Responses({200})
listTemplatesWithHttpInfo == Responses({200})
updateTemplateWithHttpInfo == Responses({200})
validateTemplateWithHttpInfo == Responses({200})

ObservableTemplatesApi ==
  [createTemplate |-> Operation(createTemplate, createTemplateWithHttpInfo),
   deleteTemplate |-> Operation(deleteTemplate, deleteTemplateWithHttpInfo),
   getStarterTemplate |-> Operation(getStarterTemplate, getStarterTemplateWithHttpInfo),
   getTemplate |-> Operation(getTemplate, getTemplateWithHttpInfo),
   listStarterTemplates |-> Operation(listStarterTemplates, listStarterTemplatesWithHttpInfo),
   listTemplates |-> Operation(listTemplates, listTemplatesWithHttpInfo),
   updateTemplate |-> Operation(updateTemplate, updateTemplateWithHttpInfo),
   validateTemplate |-> Operation(validateTemplate, validateTemplateWithHttpInfo)]
PromiseTemplatesApi == ObservableTemplatesApi
-----------------------------------------------------------------------------
(* generated/apis/WebhooksApi.ts *)

createWebhook == Request("POST", {"createWebhookRequest"}, Stub)
deleteWebhook == Request("DELETE", {"id", "confirm"}, NoStub)
getWebhook == Request("GET", {"id"}, NoStub)
listWebhookDeliveries == Request("GET", {"id"}, NoStub)
listWebhooks == Request("GET", {}, NoStub)
rotateWebhookSecret == Request("POST", {"id"}, Stub)
testWebhook == Request("POST", {"id", "testWebhookRequest"}, NoStub)
updateWebhook == Request("PATCH", {"id", "updateWebhookRequest"}, NoStub)

createWebhookWithHttpInfo == Responses({201})
deleteWebhookWithHttpInfo == Responses({200})
getWebhookWithHttpInfo == Responses({200})
listWebhookDeliveriesWithHttpInfo == Responses({200})
listWebhooksWithHttpInfo == Responses({200})
rotateWebhookSecretWithHttpInfo == Responses({200})
testWebhookWithHttpInfo == Responses({200})
updateWebhookWithHttpInfo == Responses({200})

ObservableWebhooksApi ==
  [createWebhook |-> Operation(createWebhook, createWebhookWithHttpInfo),
   deleteWebhook |-> Operation(deleteWebhook, deleteWebhookWithHttpInfo),
   getWebhook |-> Operation(getWebhook, getWebhookWithHttpInfo),
   listWebhookDeliveries |-> Operation(listWebhookDeliveries, listWebhookDeliveriesWithHttpInfo),
   listWebhooks |-> Operation(listWebhooks, listWebhooksWithHttpInfo),
   rotateWebhookSecret |-> Operation(rotateWebhookSecret, rotateWebhookSecretWithHttpInfo),
   testWebhook |-> Operation(testWebhook, testWebhookWithHttpInfo),
   updateWebhook |-> Operation(updateWebhook, updateWebhookWithHttpInfo)]
PromiseWebhooksApi == ObservableWebhooksApi
-----------------------------------------------------------------------------
(* client.ts: the operations each resource of E2AClient offers.            *)

AgentsResource == {"listAgents", "getAgent", "createAgent", "updateAgent", "getAgentProtection",
                   "putAgentProtection", "deleteAgent", "restoreAgent", "testAgent",
                   "listAgentSuppressions", "createAgentSuppression", "deleteAgentSuppression"}
MessagesResource == {"listMessages", "getMessage", "getMessageLifecycle", "deleteMessage", "restoreMessage",
                     "getAttachment", "sendMessage", "replyToMessage", "forwardMessage", "updateMessage"}
ReviewsResource == {"listReviews", "getReview", "approveReview", "rejectReview"}
TemplatesResource == {"listTemplates", "getTemplate", "createTemplate", "updateTemplate", "deleteTemplate",
                      "validateTemplate", "listStarterTemplates", "getStarterTemplate"}
ConversationsResource == {"listConversations", "getConversation"}
DomainsResource == {"listDomains", "getDomain", "registerDomain", "deleteDomain", "verifyDomain"}
EventsResource == {"listEvents", "getEvent", "redeliverEvent"}
WebhooksResource == {"listWebhooks", "getWebhook", "createWebhook", "updateWebhook", "deleteWebhook",
                     "rotateWebhookSecret", "testWebhook", "listWebhookDeliveries"}
SuppressionsResource == {"listSuppressions", "deleteSuppression"}
APIKeysResource == {"listApiKeys", "createApiKey", "deleteApiKey"}
AccountResource == {"getAccount", "exportAccount", "deleteAccount"} \union SuppressionsResource \union APIKeysResource

E2AClient == {"getInfo"} \union AgentsResource \union MessagesResource \union ReviewsResource
             \union TemplatesResource \union ConversationsResource \union DomainsResource
             \union EventsResource \union WebhooksResource \union AccountResource

\* The calls that take RequestOptions, with which a caller can supply its own key.
\* rotateSecret(id) takes no options, so its key is always minted.
RequestOptions == {"sendMessage", "replyToMessage", "forwardMessage", "approveReview",
                "createWebhook", "createApiKey"}

\* Records with no field in common, as one.
Joined(groups) == [x \in UNION {DOMAIN g : g \in groups} |-> (CHOOSE g \in groups : x \in DOMAIN g)[x]]

Api == Joined({PromiseAccountApi, PromiseAgentsApi, PromiseConversationsApi, PromiseDomainsApi,
               PromiseEventsApi, PromiseMessagesApi, PromiseMetaApi,
               PromiseReviewsApi, PromiseTemplatesApi, PromiseWebhooksApi})

\* What a client can call.
SdkOperations == [o \in E2AClient |-> Api[o]]
=============================================================================
