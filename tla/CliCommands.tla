----------------------------- MODULE CliCommands -----------------------------
(***************************************************************************)
(* The one-shot commands of the CLI (cli/src/bin/e2a.ts and the commands   *)
(* it dispatches to) over the calls of module SdkRequest: the operations   *)
(* each command calls, in order, and the exit code of its process.  A      *)
(* command line that is refused (exit USAGE, or AUTH without a key) makes  *)
(* no call.  Output formats and flags are left out.                        *)
(***************************************************************************)
EXTENDS SdkRequest, Sequences

EXIT == [OK |-> 0, ERROR |-> 1, USAGE |-> 2, HELD |-> 3, AUTH |-> 4, REQUEST |-> 5, SEND_OUTCOME |-> 7]

\* Mutant: everything the SDK throws that is not about the credential is final.
FinalUnlessAuth(error) ==
  IF error.code \in {"unauthorized", "forbidden"} THEN EXIT.AUTH ELSE EXIT.REQUEST

exitCodeForAPIError(error) ==
  CASE error.code \in {"unauthorized", "forbidden"} -> EXIT.AUTH
    [] OTHER -> IF error.retryable THEN EXIT.ERROR ELSE EXIT.REQUEST

\* The status of the body decides, not the HTTP status: a held draft went
\* nowhere, and a failed or unfamiliar outcome is recorded under an id.
emitSendResult(status) ==
  CASE status = "pending_review" -> EXIT.HELD
    [] status \in {"sent", "accepted"} -> EXIT.OK
    [] OTHER -> EXIT.SEND_OUTCOME

\* A command calls its operations in order, each after the previous one
\* returned, and prints the last result or emits it as a send result.
Prints(calls) == [calls |-> calls, emits |-> FALSE]
Emits(calls) == [calls |-> calls, emits |-> TRUE]

send == Emits(<<"sendMessage">>)
replyCommand == Emits(<<"replyToMessage">>)
messagesList == Prints(<<"listMessages">>)
messagesGet == Prints(<<"getMessage">>)
messagesLifecycle == Prints(<<"getMessageLifecycle">>)
agentsList == Prints(<<"listAgents">>)
agentsCreate == Prints(<<"createAgent">>)
agentsGet == Prints(<<"getAgent">>)
keysCreate == Prints(<<"createApiKey">>)
keysList == Prints(<<"listApiKeys">>)
keysDelete == Prints(<<"deleteApiKey">>)
whoami == Prints(<<"getAccount">>)
protectionGet == Prints(<<"getAgentProtection">>)
\* The document is never replaced unless it was read first.
protectionSet == Prints(<<"getAgentProtection", "putAgentProtection">>)

main ==
  {send, replyCommand, messagesList, messagesGet, messagesLifecycle, agentsList, agentsCreate, agentsGet,
   keysCreate, keysList, keysDelete, whoami, protectionGet, protectionSet}

\* The commands the current operation is a call of.
Invoked == {command \in main : op \in {command.calls[i] : i \in DOMAIN command.calls}}

\* outboundResultView: a draft held for review, a queued message, or one that
\* was delivered without a provider.
outboundResultView == IF mode = "posthoc" THEN {"pending_review"} ELSE {"accepted", "sent"}

\* The exit codes a command's process can end with on the outcome of a call.
ExitCodes(command, o) ==
  CASE o.kind = "error" -> {exitCodeForAPIError(o.error)}
    [] o.kind = "ok" -> IF command.emits THEN {emitSendResult(s) : s \in outboundResultView} ELSE {EXIT.OK}
    [] OTHER -> {}

\* The request is refused before the key is consulted because what it
\* addresses has gone away, or could not be looked up.
TargetLost(h) == hpc[h] = "sent" /\ op \in Addressed /\ (target = "gone" \/ faults' # faults)

\* A script may give up on exit 5 (EXIT.REQUEST, "retrying the identical
\* invocation cannot succeed"): an answer that makes a send, a reply, a new key
\* or a new inbox exit with it is only written when no attempt of that
\* invocation has executed, whatever its earlier attempts met and whatever
\* becomes of the message that is answered, as long as the deduplication
\* guarantee stands.  An earlier attempt that is still at work therefore
\* surfaces as a retryable error.  (One that is still in the network may be
\* executed later, when what refused the last one has changed.)  The excuse is
\* real: a retry of a send that went out is answered 404, and exits 5, once
\* the inbox or the message it answers is gone or its lookup fails.
FinalMeansUnsent ==
  [][\A h \in Handlers :
       /\ reply'[h] \notin {reply[h], NoReply}
       /\ Once /\ licence' /\ ~TargetLost(h)
       /\ \E command \in Invoked : EXIT.REQUEST \in ExitCodes(command, Result(reply'[h]))
       => \A g \in executed' : g[1] # h[1]]_vars
=============================================================================
