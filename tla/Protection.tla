----------------------------- MODULE Protection -----------------------------
(***************************************************************************)
(* The protection config of one inbox, replaced wholesale by PUT           *)
(* /v1/agents/{email}/protection (internal/httpapi/protection.go), and its *)
(* three editors, each of which reads it, changes what its user asked for  *)
(* and writes it back: the CLI (cli/src/commands/protection.ts), the MCP   *)
(* tool update_protection (mcp/src/tools/agents.ts) and the form of the    *)
(* console (web ProtectionEditor.tsx), which may stay open for long.       *)
(***************************************************************************)
EXTENDS Naturals, FiniteSets

CONSTANTS
  Editors,              \* users editing the inbox
  Kind,                 \* the editor each of them uses: "cli", "mcp" or "web"
  ContentScanEnabled,   \* identity.ContentScanEnabled()
  MaxSaves,             \* bound: saves
  Nobody

(* The leaves of ProtectionConfigRequest for one direction and the holds;  *)
(* the other direction behaves as the first does.                          *)
Values == [policy |-> {"open", "allowlist"}, allowlist |-> {"empty", "listed"},
           action |-> {"flag", "review"}, scan |-> {"off", "medium"},
           onExpiry |-> {"reject", "approve"}, suppress |-> BOOLEAN]
Knobs == DOMAIN Values
Default == [policy |-> "open", allowlist |-> "empty", action |-> "flag", scan |-> "off",
            onExpiry |-> "reject", suppress |-> FALSE]

VARIABLES
  config,   \* the agent's row
  edit,     \* each editor: next step, what it read, the knobs its user set
  writes,   \* PUTs so far
  lastPut   \* the latest PUT: who, what was asked, the config before it,
            \* and whether another PUT came after the editor's read

vars == <<config, edit, writes, lastPut>>

Closed == [pc |-> "closed", draft |-> Default, asked |-> {}, at |-> 0]
NoPut == [by |-> Nobody, asked |-> {}, before |-> Default, overlapped |-> FALSE]
-----------------------------------------------------------------------------
(* internal/httpapi/protection.go *)

\* The body is stored as it is, a leaf it leaves out as its default; the scan is
\* clamped while the feature is off.
handlePutProtection(body) ==
  [k \in Knobs |->
     CASE k = "scan" /\ ~ContentScanEnabled -> "off"
       [] k \in DOMAIN body -> body[k]
       [] OTHER -> Default[k]]
-----------------------------------------------------------------------------
(* The editors.                                                            *)

\* What each editor can be asked to set.  The CLI's review switch sets the
\* action and the scan together; the form shows no notification switch.
Shown(e) ==
  CASE Kind[e] = "cli" -> {"action", "scan", "suppress"}
    [] Kind[e] = "mcp" -> Knobs
    [] Kind[e] = "web" -> Knobs \ {"suppress"}

\* applyReview: on holds non-matches and turns a disabled scan on, off lets them
\* through and turns the scan off.
applyReview(draft, mode) ==
  [draft EXCEPT !.action = IF mode = "on" THEN "review" ELSE "flag",
                !.scan = IF mode = "off" THEN "off" ELSE IF @ = "off" THEN "medium" ELSE @]

\* directionToConfig and handleSave: the form sends the knobs it shows, and an
\* empty list with an open policy.
FormBody(draft) ==
  [k \in Knobs \ {"suppress"} |->
     IF k = "allowlist" /\ draft.policy = "open" THEN "empty" ELSE draft[k]]

Body(e) == IF Kind[e] = "web" THEN FormBody(edit[e].draft) ELSE edit[e].draft

\* GET: the CLI and the tool read just before they write, the form when it is
\* mounted; a failed read ends the edit before any write.
Open(e) ==
  /\ edit[e].pc = "closed" /\ writes < MaxSaves
  /\ edit' = [edit EXCEPT ![e] = [pc |-> "open", draft |-> config, asked |-> {}, at |-> writes]]
  /\ UNCHANGED <<config, writes, lastPut>>

ReviewSwitch(e, mode) ==
  /\ Kind[e] = "cli" /\ edit[e].pc = "open"
  /\ edit' = [edit EXCEPT ![e].draft = applyReview(@, mode),
                          ![e].asked = @ \union {"action", "scan"}]
  /\ UNCHANGED <<config, writes, lastPut>>

SetKnob(e, k, v) ==
  /\ edit[e].pc = "open" /\ k \in Shown(e)
  /\ Kind[e] = "cli" => k = "suppress"
  /\ edit' = [edit EXCEPT ![e].draft[k] = v, ![e].asked = @ \union {k}]
  /\ UNCHANGED <<config, writes, lastPut>>

\* PUT.  The CLI and the tool refuse an edit that asks for nothing or have
\* nothing to do; the form can be saved as it is and stays open with its draft.
Save(e) ==
  /\ edit[e].pc = "open" /\ writes < MaxSaves
  /\ Kind[e] = "cli" => edit[e].asked # {}
  /\ config' = handlePutProtection(Body(e))
  /\ writes' = writes + 1
  /\ lastPut' = [by |-> e, asked |-> edit[e].asked, before |-> config,
                 overlapped |-> edit[e].at # writes]
  /\ edit' = [edit EXCEPT ![e] = IF Kind[e] = "web" THEN [@ EXCEPT !.asked = {}, !.at = writes + 1]
                                 ELSE Closed]

Abandon(e) ==
  /\ edit[e].pc = "open"
  /\ edit' = [edit EXCEPT ![e] = Closed]
  /\ UNCHANGED <<config, writes, lastPut>>
-----------------------------------------------------------------------------
\* Any config can be stored, a scan only while the feature is on.
Init ==
  /\ config \in [policy : Values.policy, allowlist : Values.allowlist, action : Values.action,
                 scan : IF ContentScanEnabled THEN Values.scan ELSE {"off"},
                 onExpiry : Values.onExpiry, suppress : Values.suppress]
  /\ edit = [e \in Editors |-> Closed]
  /\ writes = 0
  /\ lastPut = NoPut

Next ==
  \E e \in Editors :
    \/ Open(e) \/ Save(e) \/ Abandon(e)
    \/ \E mode \in {"on", "off"} : ReviewSwitch(e, mode)
    \/ \E k \in Knobs : \E v \in Values[k] : SetKnob(e, k, v)

Spec == Init /\ [][Next]_vars
-----------------------------------------------------------------------------
(* Properties.                                                             *)

\* What the config makes the server do: an open policy has no list, and no scan
\* runs while the feature is off.
Effective(c) ==
  [c EXCEPT !.allowlist = IF c.policy = "open" THEN "empty" ELSE @,
            !.scan = IF ContentScanEnabled THEN @ ELSE "off"]

\* Nothing but what its user asked for changes when an editor saves what nobody
\* else has written since it read: the tool promises that "only the fields you
\* pass change", the CLI that it touches "ONLY the requested knobs", and the form
\* that it "submits the whole thing".
SaveKeepsTheRest ==
  lastPut.by # Nobody /\ ~lastPut.overlapped =>
    \A k \in Knobs \ lastPut.asked :
      \/ Effective(config)[k] = Effective(lastPut.before)[k]
      \/ k = "allowlist" /\ "policy" \in lastPut.asked
=============================================================================
