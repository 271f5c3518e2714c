---------------------------- MODULE ConsolePages ----------------------------
(***************************************************************************)
(* The dashboard (web/src/app): the views its pages render, each a request *)
(* to the API, which page mounts which view, and the operations the pages  *)
(* offer: what each changes in the API's answers and which views its       *)
(* handler asks for again once the API has accepted it.                    *)
(***************************************************************************)
EXTENDS Naturals

\* How a view is held: in the SWR cache shared by the pages, or in the state
\* of the page that loads it by hand; whether an interval asks for it again;
\* and how often a load that failed is repeated.
Cached(polled, retries) == [swr |-> TRUE, polled |-> polled, retries |-> retries]
ByHand == [swr |-> FALSE, polled |-> FALSE, retries |-> 0]

\* SWRProvider: onErrorRetry is called with retryCount 1 after the first
\* failure and stops at 2.
ErrorRetries == 1

listAgents == Cached(FALSE, ErrorRetries)
listDomains == Cached(FALSE, ErrorRetries)
listDeletedAgents == Cached(FALSE, ErrorRetries)

\* Mutant: the queue is loaded once and not polled.
PendingUnpolled == Cached(FALSE, ErrorRetries)

\* Polled by PendingPollingOwner for the whole tab.
listPendingMessages == Cached(TRUE, ErrorRetries)
loadUnreadCount == Cached(TRUE, ErrorRetries)
getInboxUnread == Cached(TRUE, ErrorRetries)
listAgentMessages == Cached(TRUE, ErrorRetries)
listAgentTrash == Cached(FALSE, ErrorRetries)
getProtection == Cached(FALSE, ErrorRetries)
getMessageDetailWire == Cached(FALSE, ErrorRetries)
fetchLimits == Cached(FALSE, ErrorRetries)
fetchPlan == Cached(FALSE, ErrorRetries)
refreshWebhooks == ByHand
fetchKeys == ByHand
fetchAllTemplates == ByHand
loadTemplate == ByHand
AuthProvider == ByHand

Views ==
  [agents |-> listAgents, domains |-> listDomains, deletedAgents |-> listDeletedAgents,
   pending |-> listPendingMessages, accountUnread |-> loadUnreadCount, agentUnread |-> getInboxUnread,
   agentMessages |-> listAgentMessages, agentTrash |-> listAgentTrash, protection |-> getProtection,
   messageDetail |-> getMessageDetailWire, limits |-> fetchLimits, plan |-> fetchPlan,
   webhooks |-> refreshWebhooks, apiKeys |-> fetchKeys, templates |-> fetchAllTemplates,
   template |-> loadTemplate, user |-> AuthProvider]
-----------------------------------------------------------------------------
(* Pages: the views they mount.                                            *)

\* The layout of every page: the badges of the sidebar and the poll behind them.
AppLayout == {"pending", "accountUnread", "user"}

DashboardPage == {"agents", "domains", "agentUnread"}
AgentLayout == {"agents"}
AgentInboxPage == AgentLayout \union {"agentMessages", "messageDetail"}
AgentMessageFocusPage == AgentLayout \union {"messageDetail"}
AgentTrashPage == AgentLayout \union {"agentTrash"}
AgentSettingsPage == AgentLayout \union {"protection"}
PendingPage == {"pending"}
PendingRowOpen == {"pending", "messageDetail"}
TrashPage == {"deletedAgents"}
DomainsPage == {"domains", "agents"}
WebhooksPage == {"webhooks"}
APIKeysPage == {"apiKeys", "agents"}
TemplatesPage == {"templates"}
TemplateEditPage == {"template"}
BillingPage == {"limits", "plan"}
SettingsPage == {"user"}
GetStartedPage == {}

Pages ==
  [inboxes |-> DashboardPage, inbox |-> AgentInboxPage, focus |-> AgentMessageFocusPage,
   inboxTrash |-> AgentTrashPage, inboxSettings |-> AgentSettingsPage,
   reviews |-> PendingPage, reviewRow |-> PendingRowOpen, trash |-> TrashPage,
   domains |-> DomainsPage, webhooks |-> WebhooksPage, apiKeys |-> APIKeysPage,
   templates |-> TemplatesPage, templateEdit |-> TemplateEditPage,
   billing |-> BillingPage, settings |-> SettingsPage, getStarted |-> GetStartedPage]

MountedOn(p) == AppLayout \union Pages[p]
-----------------------------------------------------------------------------
(* lib/swrKeys.ts: the views each helper invalidates.                      *)

invalidateAgents == {"agents"}
invalidatePendingList == {"pending"}
invalidateMessageDetail == {"messageDetail"}
invalidateAgentMessages == {"agentMessages"}
invalidateAgentUnread == {"accountUnread", "agentUnread"}
invalidateDomains == {"domains"}
invalidateDeletedAgents == {"deletedAgents"}
invalidateAgentTrash == {"agentTrash"}
invalidateProtection == {"protection"}
-----------------------------------------------------------------------------
(* Operations.  "first" is asked for as soon as the API has answered; the  *)
(* handler then waits for "awaits", asks for "then", and opens "goes".     *)
(* "replaced" is set from the answer itself.                               *)

Stay == "stay"
Changes(where, changes) == [on |-> where, changes |-> changes, first |-> {}, awaits |-> {}, then |-> {},
                            replaced |-> {}, goes |-> Stay]

handleCreateWebhook == [Changes("webhooks", {"webhooks"}) EXCEPT !.first = {"webhooks"}]
handleDeleteWebhook == [Changes("webhooks", {"webhooks"}) EXCEPT !.first = {"webhooks"}]
handleRotateWebhook == [Changes("webhooks", {"webhooks"}) EXCEPT !.first = {"webhooks"}]
handleCreateKey == [Changes("apiKeys", {"apiKeys"}) EXCEPT !.first = {"apiKeys"}]
handleDeleteKey == [Changes("apiKeys", {"apiKeys"}) EXCEPT !.first = {"apiKeys"}]
handleDeleteTemplate == [Changes("templates", {"templates"}) EXCEPT !.first = {"templates"}]
handleSaveTemplate == [Changes("templateEdit", {"template", "templates"}) EXCEPT !.replaced = {"template"}]
createFromStarter == [Changes("templates", {"templates"}) EXCEPT !.goes = "templateEdit"]
handleSaveName == [Changes("settings", {"user"}) EXCEPT !.replaced = {"user"}]

handleListChanged == invalidateDomains \union invalidateAgents
addDomain == [Changes("domains", {"domains"}) EXCEPT !.first = handleListChanged]
handleVerifyDomain == [Changes("domains", {"domains", "agents"}) EXCEPT !.first = handleListChanged]
handleDeleteDomain == [Changes("domains", {"domains"}) EXCEPT !.first = handleListChanged]

\* The onboarding checklist keeps its own copy of the domain.
onboardDomain == Changes("getStarted", {"domains"})
onboardVerify == Changes("getStarted", {"domains", "agents"})
createSharedAgent == [Changes("getStarted", {"agents", "limits"})
                        EXCEPT !.first = invalidateAgents, !.awaits = invalidateAgents]
createCustomAgent == [Changes("getStarted", {"agents", "limits"})
                        EXCEPT !.first = invalidateAgents, !.awaits = invalidateAgents]
sendTestEmail == Changes("getStarted", {"agentMessages", "accountUnread", "agentUnread"})

\* Checkout leaves the site; the pageshow event of a page restored by Back asks
\* for both views of the billing page.
postBilling == [Changes("billing", {"limits", "plan"}) EXCEPT !.first = {"limits", "plan"}]

onEditorSaved == [Changes("inboxSettings", {"protection"}) EXCEPT !.first = invalidateProtection]

\* A trashed inbox takes its held drafts out of the review queue.
onDeleteAgent ==
  [Changes("inboxSettings", {"agents", "deletedAgents", "accountUnread", "pending", "limits"})
     EXCEPT !.first = invalidateAgentUnread \union invalidateAgents, !.awaits = invalidateAgents,
            !.then = invalidateDeletedAgents, !.goes = "inboxes"]

\* Mutant: the trash page does not ask for its own list again.
RunWithoutMutate(changes, afterSuccess) ==
  [Changes("trash", changes)
     EXCEPT !.first = afterSuccess, !.awaits = {"deletedAgents"}, !.then = invalidateAgents]

\* run of the trash page: its own list, then the live one.
runAgentTrash(changes, afterSuccess) ==
  [Changes("trash", changes)
     EXCEPT !.first = afterSuccess \union {"deletedAgents"}, !.awaits = {"deletedAgents"},
            !.then = invalidateAgents]
restoreAgent == runAgentTrash({"agents", "deletedAgents", "accountUnread", "agentUnread", "pending", "limits"},
                              invalidateAgentUnread)
permanentDeleteAgent == runAgentTrash({"deletedAgents", "limits"}, {})

onDeleteMessage ==
  [Changes("inbox", {"agentMessages", "agentTrash", "accountUnread", "agentUnread"})
     EXCEPT !.first = invalidateAgentMessages, !.awaits = invalidateAgentMessages,
            !.then = invalidateAgentTrash \union invalidateAgentUnread]

runMessageTrash(changes) ==
  [Changes("inboxTrash", changes)
     EXCEPT !.first = {"agentTrash"}, !.awaits = {"agentTrash"},
            !.then = invalidateAgentMessages \union invalidateAgentUnread]
restoreMessage == runMessageTrash({"agentTrash", "agentMessages", "accountUnread", "agentUnread"})
purgeMessage == runMessageTrash({"agentTrash"})

\* Opening an unread message marks it read; its onSuccess refreshes the list
\* and the badges.
openMessage ==
  [Changes("inbox", {"agentMessages", "accountUnread", "agentUnread"})
     EXCEPT !.first = invalidateAgentMessages \union invalidateAgentUnread]

\* A decision in the review queue (PendingRow over handleResolved), and on the
\* page of the message (refreshAfterMutation).  Releasing a held inbound
\* message makes it unread mail; rejecting one is the same as rejecting a draft.
handleResolved(changes) ==
  [Changes("reviewRow", changes \union {"pending", "messageDetail", "agentMessages"})
     EXCEPT !.first = invalidateMessageDetail \union invalidateAgents \union invalidateAgentMessages \union {"pending"},
            !.goes = "reviews"]
refreshAfterMutation ==
  LET all == invalidatePendingList \union invalidateMessageDetail \union invalidateAgentMessages \union invalidateAgents
  IN  [Changes("focus", {"pending", "messageDetail", "agentMessages"})
         EXCEPT !.first = all, !.awaits = all, !.goes = "inbox"]

Operations ==
  [createWebhook |-> handleCreateWebhook, deleteWebhook |-> handleDeleteWebhook,
   rotateWebhookSecret |-> handleRotateWebhook, createApiKey |-> handleCreateKey,
   deleteApiKey |-> handleDeleteKey, deleteTemplate |-> handleDeleteTemplate,
   updateTemplate |-> handleSaveTemplate, createTemplate |-> createFromStarter,
   updateName |-> handleSaveName, addDomain |-> addDomain, verifyDomain |-> handleVerifyDomain,
   deleteDomain |-> handleDeleteDomain, onboardDomain |-> onboardDomain, onboardVerify |-> onboardVerify,
   createSharedAgent |-> createSharedAgent, createCustomAgent |-> createCustomAgent,
   testAgent |-> sendTestEmail, setProtection |-> onEditorSaved, deleteAgent |-> onDeleteAgent,
   restoreAgent |-> restoreAgent, permanentDeleteAgent |-> permanentDeleteAgent,
   deleteMessage |-> onDeleteMessage, restoreMessage |-> restoreMessage, purgeMessage |-> purgeMessage,
   openMessage |-> openMessage, checkout |-> postBilling,
   approveRow |-> handleResolved({}), rejectRow |-> handleResolved({}),
   approveInboundRow |-> handleResolved({"accountUnread", "agentUnread"}),
   approveFocus |-> refreshAfterMutation, rejectFocus |-> refreshAfterMutation]

\* What an operation changes and neither refreshes nor polls: the next visit of
\* a page that mounts the view loads it again.
LeftToTheNextVisit ==
  {<<"onboardDomain", "domains">>, <<"onboardVerify", "domains">>, <<"onboardVerify", "agents">>,
   <<"createSharedAgent", "limits">>, <<"createCustomAgent", "limits">>,
   <<"deleteAgent", "limits">>, <<"restoreAgent", "limits">>, <<"permanentDeleteAgent", "limits">>}
=============================================================================
