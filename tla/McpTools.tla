------------------------------ MODULE McpTools ------------------------------
(***************************************************************************)
(* The tools of the MCP server (mcp/src/tools), the client methods they    *)
(* call (mcp/src/client.ts) and the operations those call, the scope tiers *)
(* that decide which credential is offered which tool (tools/tiers.ts),    *)
(* and the scope checks of the API behind them (internal/httpapi).  Input  *)
(* schemas, descriptions and the shape of results are left out.            *)
(***************************************************************************)
EXTENDS SdkApi, FiniteSets

-----------------------------------------------------------------------------
(* client.ts: the operation behind each method of McpClient.               *)

AccountMethods == [whoami |-> "getAccount"]
AgentMethods ==
  [listAgents |-> "listAgents", getAgent |-> "getAgent", createAgent |-> "createAgent",
   updateAgent |-> "updateAgent", getProtection |-> "getAgentProtection",
   updateProtection |-> "putAgentProtection", deleteAgent |-> "deleteAgent", restoreAgent |-> "restoreAgent"]
MessageMethods ==
  [send |-> "sendMessage", reply |-> "replyToMessage", forward |-> "forwardMessage",
   updateMessageLabels |-> "updateMessage", getMessage |-> "getMessage",
   getMessageLifecycle |-> "getMessageLifecycle", getAttachment |-> "getAttachment",
   listMessages |-> "listMessages", restoreMessage |-> "restoreMessage", deleteMessage |-> "deleteMessage"]
ConversationMethods == [listConversations |-> "listConversations", getConversation |-> "getConversation"]
ReviewMethods == [listReviews |-> "listReviews", getReview |-> "getReview",
                  approveReview |-> "approveReview", rejectReview |-> "rejectReview"]
DomainMethods ==
  [listDomains |-> "listDomains", getDomain |-> "getDomain", registerDomain |-> "registerDomain",
   verifyDomain |-> "verifyDomain", deleteDomain |-> "deleteDomain"]
WebhookMethods ==
  [listWebhooks |-> "listWebhooks", getWebhook |-> "getWebhook", createWebhook |-> "createWebhook",
   updateWebhook |-> "updateWebhook", deleteWebhook |-> "deleteWebhook",
   rotateWebhookSecret |-> "rotateWebhookSecret", testWebhook |-> "testWebhook",
   listWebhookDeliveries |-> "listWebhookDeliveries"]
\* createAgentApiKey hardwires the agent scope.
ApiKeyMethods == [listApiKeys |-> "listApiKeys", createAgentApiKey |-> "createApiKey", deleteApiKey |-> "deleteApiKey"]
TemplateMethods ==
  [listTemplates |-> "listTemplates", getTemplate |-> "getTemplate", createTemplate |-> "createTemplate",
   updateTemplate |-> "updateTemplate", deleteTemplate |-> "deleteTemplate",
   validateTemplate |-> "validateTemplate", listStarterTemplates |-> "listStarterTemplates",
   getStarterTemplate |-> "getStarterTemplate"]
EventMethods == [listEvents |-> "listEvents", getEvent |-> "getEvent", redeliverEvent |-> "redeliverEvent"]

McpClient == Joined({AccountMethods, AgentMethods, MessageMethods, ConversationMethods, ReviewMethods,
                     DomainMethods, WebhookMethods, ApiKeyMethods, TemplateMethods, EventMethods})

\* The methods that act on one inbox and take its address through resolveAddress.
Resolved == (DOMAIN AgentMethods \ {"listAgents", "getAgent", "createAgent"})
            \union DOMAIN MessageMethods \union DOMAIN ConversationMethods
-----------------------------------------------------------------------------
(* A tool: the methods it calls in order and its traits.  readOnly,        *)
(* destructive and idempotent are the hints it is listed with, confirm     *)
(* asks for confirm:true before anything is called, keyed accepts a        *)
(* caller's idempotency key, email makes the address a required argument.  *)

Tool(methods, traits) == [methods |-> methods, traits |-> traits]


(* tools/messages.ts *)

send_message == Tool(<<"send">>, {"keyed"})
reply_to_message == Tool(<<"reply">>, {"keyed"})
forward_message == Tool(<<"forward">>, {"keyed"})
update_message_labels == Tool(<<"updateMessageLabels">>, {"idempotent"})
list_conversations == Tool(<<"listConversations">>, {"readOnly"})
get_conversation == Tool(<<"getConversation">>, {"readOnly"})
list_messages == Tool(<<"listMessages">>, {"readOnly"})
restore_message == Tool(<<"restoreMessage">>, {})
delete_message == Tool(<<"deleteMessage">>, {"destructive", "idempotent", "confirm"})
get_message == Tool(<<"getMessage">>, {"destructive"})
get_message_lifecycle == Tool(<<"getMessageLifecycle">>, {"readOnly", "idempotent"})
get_attachment == Tool(<<"getAttachment">>, {"readOnly"})

(* tools/agents.ts *)

list_agents == Tool(<<"listAgents">>, {"readOnly"})
get_agent == Tool(<<"getAgent">>, {"readOnly", "email"})
whoami == Tool(<<"whoami">>, {"readOnly"})
create_agent == Tool(<<"createAgent">>, {})
update_agent == Tool(<<"updateAgent">>, {"idempotent"})
get_protection == Tool(<<"getProtection">>, {"readOnly"})
update_protection == Tool(<<"getProtection", "updateProtection">>, {"idempotent"})
restore_agent == Tool(<<"restoreAgent">>, {})
delete_agent == Tool(<<"deleteAgent">>, {"destructive", "idempotent", "confirm"})

(* tools/apikeys.ts *)

list_api_keys == Tool(<<"listApiKeys">>, {"readOnly"})
create_api_key == Tool(<<"createAgentApiKey">>, {})
delete_api_key == Tool(<<"deleteApiKey">>, {"destructive", "idempotent", "confirm"})

(* tools/domains.ts *)

list_domains == Tool(<<"listDomains">>, {"readOnly"})
register_domain == Tool(<<"registerDomain">>, {"idempotent"})
get_domain == Tool(<<"getDomain">>, {"readOnly"})
verify_domain == Tool(<<"verifyDomain">>, {"idempotent"})
delete_domain == Tool(<<"deleteDomain">>, {"destructive", "idempotent", "confirm"})

(* tools/events.ts *)

list_events == Tool(<<"listEvents">>, {"readOnly"})
get_event == Tool(<<"getEvent">>, {"readOnly"})
redeliver_event == Tool(<<"redeliverEvent">>, {})

(* tools/review.ts *)

list_reviews == Tool(<<"listReviews">>, {"readOnly"})
get_review == Tool(<<"getReview">>, {"readOnly"})
approve_review == Tool(<<"approveReview">>, {"keyed"})
reject_review == Tool(<<"rejectReview">>, {"destructive"})

(* tools/templates.ts *)

list_templates == Tool(<<"listTemplates">>, {"readOnly"})
get_template == Tool(<<"getTemplate">>, {"readOnly"})
create_template == Tool(<<"createTemplate">>, {})
update_template == Tool(<<"updateTemplate">>, {"idempotent"})
delete_template == Tool(<<"deleteTemplate">>, {"destructive", "idempotent", "confirm"})
validate_template == Tool(<<"validateTemplate">>, {"readOnly"})
list_starter_templates == Tool(<<"listStarterTemplates">>, {"readOnly"})
get_starter_template == Tool(<<"getStarterTemplate">>, {"readOnly"})

(* tools/webhooks.ts *)

list_webhooks == Tool(<<"listWebhooks">>, {"readOnly"})
get_webhook == Tool(<<"getWebhook">>, {"readOnly"})
create_webhook == Tool(<<"createWebhook">>, {})
update_webhook == Tool(<<"updateWebhook">>, {"idempotent"})
delete_webhook == Tool(<<"deleteWebhook">>, {"destructive", "idempotent", "confirm"})
rotate_webhook_secret == Tool(<<"rotateWebhookSecret">>, {})
test_webhook == Tool(<<"testWebhook">>, {})
list_webhook_deliveries == Tool(<<"listWebhookDeliveries">>, {"readOnly"})

(* tools/legacy.ts *)

send_email == Tool(<<"send">>, {"keyed"})
get_attachment_data == Tool(<<"getAttachment">>, {"readOnly"})
list_pending_messages == Tool(<<"listReviews">>, {"readOnly"})
get_pending_message == Tool(<<"getReview">>, {"readOnly"})
approve_pending_message == Tool(<<"approveReview">>, {"keyed"})
approve_message == Tool(<<"approveReview">>, {"keyed"})
reject_pending_message == Tool(<<"rejectReview">>, {"destructive"})
reject_message == Tool(<<"rejectReview">>, {"destructive"})
-----------------------------------------------------------------------------
(* server.ts registers the groups; the name it registers a tool under is   *)
(* the name the tiers speak of.                                            *)

registerMessageTools ==
  [send_message |-> send_message, reply_to_message |-> reply_to_message,
   forward_message |-> forward_message, update_message_labels |-> update_message_labels,
   list_conversations |-> list_conversations, get_conversation |-> get_conversation,
   list_messages |-> list_messages, restore_message |-> restore_message,
   delete_message |-> delete_message, get_message |-> get_message,
   get_message_lifecycle |-> get_message_lifecycle, get_attachment |-> get_attachment]
registerAgentTools ==
  [list_agents |-> list_agents, get_agent |-> get_agent, whoami |-> whoami,
   create_agent |-> create_agent, update_agent |-> update_agent, get_protection |-> get_protection,
   update_protection |-> update_protection, restore_agent |-> restore_agent,
   delete_agent |-> delete_agent]
registerDomainTools ==
  [list_domains |-> list_domains, register_domain |-> register_domain, get_domain |-> get_domain,
   verify_domain |-> verify_domain, delete_domain |-> delete_domain]
registerReviewTools ==
  [list_reviews |-> list_reviews, get_review |-> get_review, approve_review |-> approve_review,
   reject_review |-> reject_review]
registerWebhookTools ==
  [list_webhooks |-> list_webhooks, get_webhook |-> get_webhook, create_webhook |-> create_webhook,
   update_webhook |-> update_webhook, delete_webhook |-> delete_webhook,
   rotate_webhook_secret |-> rotate_webhook_secret, test_webhook |-> test_webhook,
   list_webhook_deliveries |-> list_webhook_deliveries]
registerEventTools ==
  [list_events |-> list_events, get_event |-> get_event, redeliver_event |-> redeliver_event]
registerTemplateTools ==
  [list_templates |-> list_templates, get_template |-> get_template,
   create_template |-> create_template, update_template |-> update_template,
   delete_template |-> delete_template, validate_template |-> validate_template,
   list_starter_templates |-> list_starter_templates, get_starter_template |-> get_starter_template]
registerApiKeyTools ==
  [list_api_keys |-> list_api_keys, create_api_key |-> create_api_key,
   delete_api_key |-> delete_api_key]
registerLegacyTools ==
  [send_email |-> send_email, get_attachment_data |-> get_attachment_data,
   list_pending_messages |-> list_pending_messages, get_pending_message |-> get_pending_message,
   approve_pending_message |-> approve_pending_message, approve_message |-> approve_message,
   reject_pending_message |-> reject_pending_message, reject_message |-> reject_message]

Tools ==
  Joined({registerMessageTools, registerAgentTools, registerDomainTools, registerReviewTools,
          registerWebhookTools, registerEventTools, registerTemplateTools, registerApiKeyTools, registerLegacyTools})
-----------------------------------------------------------------------------
(* tiers.ts *)

RUNTIME_TOOLS ==
  {"whoami", "get_agent", "list_messages", "get_message", "get_message_lifecycle",
   "get_attachment", "get_attachment_data", "delete_message", "restore_message",
   "update_message_labels", "list_conversations", "get_conversation", "send_message", "send_email",
   "reply_to_message", "forward_message"}
ADMIN_TOOLS ==
  {"list_agents", "create_agent", "update_agent", "get_protection", "update_protection",
   "delete_agent", "restore_agent", "list_reviews", "get_review", "list_pending_messages",
   "get_pending_message", "approve_review", "reject_review", "approve_pending_message",
   "reject_pending_message", "approve_message", "reject_message", "list_domains", "get_domain",
   "register_domain", "verify_domain", "delete_domain", "list_webhooks", "get_webhook",
   "create_webhook", "update_webhook", "delete_webhook", "rotate_webhook_secret", "test_webhook",
   "list_webhook_deliveries", "list_events", "get_event", "redeliver_event", "list_templates",
   "get_template", "create_template", "update_template", "delete_template", "validate_template",
   "list_starter_templates", "get_starter_template", "list_api_keys", "create_api_key",
   "delete_api_key"}

\* Mutant: a scope the server does not recognise is offered everything.
ToolNamesFailOpen(scope) == RUNTIME_TOOLS \union ADMIN_TOOLS

\* Any scope but account is offered the runtime tier only.
toolNamesForScope(scope) == RUNTIME_TOOLS \union (IF scope = "account" THEN ADMIN_TOOLS ELSE {})

\* The drift guard of tiers.ts: every registered tool has exactly one tier.
assertToolTiersComplete ==
  /\ RUNTIME_TOOLS \union ADMIN_TOOLS = DOMAIN Tools
  /\ RUNTIME_TOOLS \intersect ADMIN_TOOLS = {}
-----------------------------------------------------------------------------
(* internal/httpapi: what the API lets a credential do.                    *)

\* Operations that resolve one agent and admit a credential bound to it
\* (resolveOwnedAgent), or that any principal may call; every other operation
\* starts with requireAccountScope.
AgentScoped == {"getAgent", "listMessages", "getMessage", "getMessageLifecycle", "getAttachment",
                "deleteMessage", "restoreMessage", "updateMessage", "listConversations", "getConversation",
                "sendMessage", "replyToMessage", "forwardMessage", "testAgent"}
AnyPrincipal == {"getAccount", "getInfo"}

\* Loading a message (GetMessageWithContent), for itself or for one of its
\* attachments, marks it read; validating a template stores nothing.
Writes(operation) ==
  \/ operation \in {"getMessage", "getAttachment"}
  \/ SdkOperations[operation].request.method # "GET" /\ operation # "validateTemplate"
=============================================================================
