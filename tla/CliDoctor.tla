------------------------------ MODULE CliDoctor ------------------------------
(***************************************************************************)
(* `e2a doctor` (cli/src/commands/doctor.ts): read-only diagnostics of the *)
(* production mail path.  A run probes the setup one step at a time, any   *)
(* probe may fail for reasons of its own, the key may be revoked and the   *)
(* API may lose its database in the middle, and every outcome argues for   *)
(* an exit code.  Of a check only its status and its exit class are kept;  *)
(* titles, evidence and advice are left out.  One domain and one webhook   *)
(* stand for the ones that are looked at, "others" for those past the caps *)
(* on what is enumerated.                                                  *)
(***************************************************************************)
EXTENDS SdkErrors, FiniteSets

CONSTANT MaxFailures   \* bound: probes that fail in one run

ASSUME FailuresAssumption == MaxFailures \in Nat

EXIT == [OK |-> 0, ERROR |-> 1, USAGE |-> 2, AUTH |-> 4, WARN |-> 8, CONFIG |-> 9]
-----------------------------------------------------------------------------
(* What doctor looks at.  Of each part: the values nothing is wrong with,  *)
(* those that deserve a warning, those that are broken, and those that are *)
(* the credential's fault.                                                 *)

Part(sound, warn, broken, auth) == [sound |-> sound, warn |-> warn, broken |-> broken, auth |-> auth]
Record == Part({"published", "unprescribed"}, {}, {"mismatch", "missing"}, {})

Parts ==
  [key |-> Part({"account", "agent"}, {}, {}, {"none", "bad"}),
   url |-> Part({"root"}, {}, {"garbled", "elsewhere"}, {}),
   agent |-> Part({"ours", "unset"}, {}, {"gone"}, {"foreign"}),
   asked |-> Part({"all", "registered"}, {}, {"unknown"}, {}),      \* --domain
   domains |-> Part({"none", "some"}, {"tooMany"}, {}, {}),
   ownership |-> Record, mx |-> Record, dkim |-> Record, mailFrom |-> Record, spf |-> Record,
   dmarc |-> Part({"published"}, {"missing"}, {}, {}),
   sending |-> Part({"verified", "none"}, {"pending"}, {"failed"}, {}),
   mcp |-> Part({"routed", "unknown", "malformed"}, {}, {"notRouted"}, {}),
   metadata |-> Part({"advertised"}, {"missing"}, {}, {}),
   webhooks |-> Part({"none", "some"}, {"tooMany"}, {}, {}),
   webhook |-> Part({"enabled"}, {"disabled", "insecure"}, {"autoDisabled"}, {}),
   delivery |-> Part({"delivered", "none"}, {"failing"}, {}, {}),
   others |-> Part({"fine"}, {}, {"broken"}, {}),
   smtp |-> Part({"whole", "invisible"}, {"partial"}, {}, {})]

Values(p) == UNION {Parts[p].sound, Parts[p].warn, Parts[p].broken, Parts[p].auth}

Usual ==
  [key |-> "account", url |-> "root", agent |-> "ours", asked |-> "all", domains |-> "some",
   ownership |-> "published", mx |-> "published", dkim |-> "published", mailFrom |-> "published",
   spf |-> "published", dmarc |-> "published", sending |-> "verified", mcp |-> "routed",
   metadata |-> "advertised", webhooks |-> "some", webhook |-> "enabled", delivery |-> "delivered",
   others |-> "fine", smtp |-> "whole"]

VARIABLES
  setup,       \* the deployment, the account and the options of this run
  pc,          \* the next check
  reachable,   \* Ctx.apiReachable
  account,     \* Ctx.account is set
  rec,         \* Recorder: the outcomes so far
  denied,      \* the key was revoked, or the API's database has failed, during the run
  failures,    \* how many of the MaxFailures probes have failed
  exit         \* DoctorReport.exit_code

ctxVars == <<reachable, account>>
vars == <<setup, pc, ctxVars, rec, denied, failures, exit>>

Steps == {"start", "config", "reachability", "auth", "access", "domains", "ownership", "mx", "dkim", "mailFrom",
          "spf", "dmarc", "sending", "mcp", "metadata", "webhooks", "webhook", "delivery", "smtp", "report", "done"}
NoExit == 100
-----------------------------------------------------------------------------
(* Recorder, classification and probes                                     *)

Pass == [status |-> "pass", class |-> "none"]
Skip == [status |-> "skip", class |-> "none"]
Warn == [status |-> "warn", class |-> "none"]
Fail(class) == [status |-> "fail", class |-> class]

\* Record outcomes and go on with the next check.
Add(outcomes, next) == rec' = rec \union outcomes /\ pc' = next

Ok == [code |-> NoCode, status |-> 200, class |-> "none", retryable |-> FALSE]
Unauthorized == toE2AError(401, "unauthorized")
Forbidden == toE2AError(403, "forbidden")
NotFound == toE2AError(404, "not_found")
Troubles == {connectionError, toE2AError(503, "limits_unavailable"), toE2AError(429, "rate_limited")}

\* Mutant: the retry advice of a typed error is not consulted.
ClassifyByStatus(e) ==
  CASE e.status = 200 -> "none"
    [] e.status \in {401, 403} -> "auth"
    [] e.status \in {404, 410} -> "not_found"
    [] e.status = 0 \/ e.status >= 500 -> "transient"
    [] OTHER -> "request"

classifyError(e) ==
  CASE e.status = 200 -> "none"
    [] e.status \in {401, 403} -> "auth"
    [] e.status \in {404, 410} -> "not_found"
    [] e.status = 0 \/ e.status >= 500 \/ e.retryable -> "transient"
    [] OTHER -> "request"

\* A probe gets the answer the setup gives, or one of its own failures.
Probe(answer, troubles, Then(_)) ==
  \/ Then(answer) /\ UNCHANGED failures
  \/ /\ failures < MaxFailures
     /\ failures' = failures + 1
     /\ \E trouble \in troubles : Then(trouble)

\* What the API answers where e is true: 401 to a revoked key; and a database
\* error is a 401 while the key is looked up and a 404 while the resource is.
Answers(e, lookup) ==
  {e} \union IF ~denied THEN {} ELSE {Unauthorized} \union IF lookup THEN {NotFound} ELSE {}

\* A call of the SDK, without retries: the kind of error it throws, if any.
Call(e, lookup, Then(_)) ==
  \E a \in Answers(e, lookup) : Probe(classifyError(a), {classifyError(f) : f \in Troubles}, Then)

\* defaultIO: ENOTFOUND and ENODATA are the answer that there is no record, any
\* other failure of a lookup, its deadline included, is inconclusive.
HttpTroubles == {"network", "serverError", "throttled"}
LookupTroubles == {"lookupFailed"}

Quiet == UNCHANGED <<setup, denied, exit>>
-----------------------------------------------------------------------------
(* The checks, in the order of runDoctor                                   *)

\* doctor: a malformed --mcp-url is a usage error.
doctor ==
  /\ pc = "start"
  /\ IF setup.mcp = "malformed" THEN pc' = "done" /\ exit' = EXIT.USAGE
                                ELSE pc' = "config" /\ UNCHANGED exit
  /\ UNCHANGED <<setup, ctxVars, rec, denied, failures>>

checkCliConfig ==
  /\ pc = "config"
  /\ Add({IF setup.key = "none" THEN Fail("auth") ELSE Pass}, "reachability")
  /\ UNCHANGED <<ctxVars, failures>> /\ Quiet

\* A garbled URL is never asked; another web site answers something else.
checkApiReachability ==
  LET Then(answer) ==
        /\ Add({CASE answer = "root" -> Pass
                  [] answer \in {"elsewhere", "garbled"} -> Fail("config")
                  [] OTHER -> Fail("transient")}, "auth")
        /\ reachable' = (answer = "root")
  IN
  /\ pc = "reachability"
  /\ Probe(setup.url, IF setup.url = "garbled" THEN {} ELSE HttpTroubles, Then)
  /\ UNCHANGED account /\ Quiet

checkApiAuth ==
  LET Then(kind) ==
        /\ Add({CASE kind = "none" -> Pass
                  [] kind \in {"auth", "transient"} -> Fail(kind)
                  [] OTHER -> Fail("config")}, "access")
        /\ account' = (kind = "none")
  IN
  /\ pc = "auth"
  /\ IF setup.key = "none" \/ ~reachable
       THEN Add({Skip}, "access") /\ UNCHANGED <<account, failures>>
       ELSE Call(IF setup.key = "bad" THEN Unauthorized ELSE Ok, FALSE, Then)
  /\ UNCHANGED reachable /\ Quiet

\* Without a selection an agent-scoped key falls back on its own inbox; an
\* inbox of someone else is forbidden to it and unknown to the account.
checkAgentAccess ==
  LET Then(kind) ==
        Add({CASE kind = "none" -> Pass
               [] kind \in {"auth", "transient"} -> Fail(kind)
               [] OTHER -> Fail("config")}, "domains")
  IN
  /\ pc = "access"
  /\ IF ~account \/ (setup.agent = "unset" /\ setup.key = "account")
       THEN Add({Skip}, "domains") /\ UNCHANGED failures
       ELSE Call(CASE setup.agent \in {"ours", "unset"} -> Ok
                   [] setup.agent = "foreign" /\ setup.key = "agent" -> Forbidden
                   [] OTHER -> NotFound, TRUE, Then)
  /\ UNCHANGED ctxVars /\ Quiet

\* Mutant: the cap on the domains that are checked is not mentioned.
CapSilently(kind) ==
  IF kind # "none" THEN Add({Fail(IF kind = "transient" THEN kind ELSE "config")}, "mcp")
  ELSE IF setup.asked = "all" /\ setup.domains = "none" THEN Add({Skip}, "mcp")
  ELSE Add({Pass}, "ownership")

\* A refused key counts as a configuration failure here.
Registered(kind) ==
  IF kind # "none" THEN Add({Fail(IF kind = "transient" THEN kind ELSE "config")}, "mcp")
  ELSE IF setup.asked = "all" /\ setup.domains = "none" THEN Add({Skip}, "mcp")
  ELSE Add({Pass} \union IF setup.asked = "all" /\ setup.domains = "tooMany" THEN {Warn} ELSE {}, "ownership")

checkDomains ==
  /\ pc = "domains"
  /\ IF ~account \/ setup.key = "agent"
       THEN Add({Skip}, "mcp") /\ UNCHANGED failures
       ELSE Call(IF setup.asked = "unknown" THEN NotFound ELSE Ok, setup.asked # "all", Registered)
  /\ UNCHANGED ctxVars /\ Quiet

\* A definite answer decides; a lookup that fails is inconclusive.  (Values are
\* compared the way the server compares them.)
checkTxtRecord(answer) ==
  CASE answer = "published" -> Pass
    [] answer \in {"mismatch", "missing"} -> Fail("config")
    [] OTHER -> Fail("transient")

checkMxRecord(answer) ==
  CASE answer = "published" -> Pass
    [] answer \in {"mismatch", "missing"} -> Fail("config")
    [] OTHER -> Fail("transient")

\* One prescribed record of checkOneDomain; the first two are skipped in
\* silence when nothing is prescribed.
CheckRecord(p, next) ==
  LET Then(answer) == Add({IF p \in {"mx", "mailFrom"} THEN checkMxRecord(answer) ELSE checkTxtRecord(answer)}, next)
  IN
  /\ pc = p
  /\ IF setup[p] = "unprescribed"
       THEN Add(IF p \in {"ownership", "mx"} THEN {} ELSE {Skip}, next) /\ UNCHANGED failures
       ELSE Probe(setup[p], LookupTroubles, Then)
  /\ UNCHANGED ctxVars /\ Quiet

checkOneDomain ==
  \/ CheckRecord("ownership", "mx") \/ CheckRecord("mx", "dkim") \/ CheckRecord("dkim", "mailFrom")
  \/ CheckRecord("mailFrom", "spf") \/ CheckRecord("spf", "dmarc")

\* DMARC is advisory, whatever the lookup does.
CheckDmarc ==
  LET Then(answer) == Add({IF answer = "published" THEN Pass ELSE Warn}, "sending") IN
  /\ pc = "dmarc"
  /\ Probe(setup.dmarc, LookupTroubles, Then)
  /\ UNCHANGED ctxVars /\ Quiet

CheckSending ==
  /\ pc = "sending"
  /\ Add({CASE setup.sending = "verified" -> Pass
            [] setup.sending = "pending" -> Warn
            [] setup.sending = "failed" -> Fail("config")
            [] OTHER -> Skip}, "mcp")
  /\ UNCHANGED <<ctxVars, failures>> /\ Quiet

\* Any answer but a missing route or a server error proves the endpoint alive;
\* a limiter answers for a routed path only.
checkMcp ==
  LET Then(answer) ==
        Add({CASE answer \in {"routed", "throttled"} -> Pass
               [] answer = "notRouted" -> Fail("config")
               [] OTHER -> Fail("transient")}, "metadata")
  IN
  /\ pc = "mcp"
  /\ IF setup.mcp = "unknown"
       THEN Add({Skip}, "webhooks") /\ UNCHANGED failures
       ELSE Probe(setup.mcp, IF setup.mcp = "routed" THEN HttpTroubles ELSE HttpTroubles \ {"throttled"}, Then)
  /\ UNCHANGED ctxVars /\ Quiet

CheckMetadata ==
  LET Then(answer) ==
        Add({CASE answer = "advertised" -> Pass
               [] answer = "network" -> Fail("transient")
               [] OTHER -> Warn}, "webhooks")
  IN
  /\ pc = "metadata"
  /\ Probe(setup.metadata, HttpTroubles, Then)
  /\ UNCHANGED ctxVars /\ Quiet

checkWebhooks ==
  LET Then(kind) ==
        IF kind # "none" THEN Add({Fail(IF kind = "transient" THEN kind ELSE "config")}, "smtp")
        ELSE IF setup.webhooks = "none" THEN Add({Skip}, "smtp")
        ELSE Add(IF setup.webhooks = "tooMany" THEN {Warn} ELSE {}, "webhook")
  IN
  /\ pc = "webhooks"
  /\ IF ~account \/ setup.key = "agent" THEN Add({Skip}, "smtp") /\ UNCHANGED failures ELSE Call(Ok, FALSE, Then)
  /\ UNCHANGED ctxVars /\ Quiet

checkOneWebhook ==
  /\ pc = "webhook"
  /\ Add({CASE setup.webhook = "autoDisabled" -> Fail("config")
            [] setup.webhook \in {"disabled", "insecure"} -> Warn
            [] OTHER -> Pass}, "delivery")
  /\ UNCHANGED <<ctxVars, failures>> /\ Quiet

\* The latest delivery; reachability itself has no safe probe and is skipped.
CheckDelivery ==
  LET Then(kind) ==
        Add({Skip, CASE kind = "none" /\ setup.delivery = "delivered" -> Pass
                     [] kind = "none" /\ setup.delivery = "none" -> Skip
                     [] kind = "none" /\ setup.delivery = "failing" -> Warn
                     [] kind = "transient" -> Fail(kind)
                     [] OTHER -> Fail("config")}, "smtp")
  IN
  /\ pc = "delivery"
  /\ Call(Ok, TRUE, Then)
  /\ UNCHANGED ctxVars /\ Quiet

checkSmtpConfig ==
  /\ pc = "smtp"
  /\ Add({CASE setup.smtp = "whole" -> Pass
            [] setup.smtp = "partial" -> Warn
            [] OTHER -> Skip}, "report")
  /\ UNCHANGED <<ctxVars, failures>> /\ Quiet

\* The credential outranks the configuration, which outranks what a retry may
\* cure, which outranks a warning.
Classes == {r.class : r \in rec}
buildReport ==
  /\ pc = "report"
  /\ pc' = "done"
  /\ exit' = CASE "auth" \in Classes -> EXIT.AUTH
               [] "auth" \notin Classes /\ "config" \in Classes -> EXIT.CONFIG
               [] Classes \intersect {"auth", "config"} = {} /\ "transient" \in Classes -> EXIT.ERROR
               [] OTHER -> IF Warn \in rec THEN EXIT.WARN ELSE EXIT.OK
  /\ UNCHANGED <<setup, ctxVars, rec, denied, failures>>

\* The key is revoked, or the database of the API fails from now on or for a while.
Deny ==
  /\ pc # "done" /\ ~denied
  /\ setup.key \in {"account", "agent"}
  /\ denied' = TRUE
  /\ UNCHANGED <<setup, pc, ctxVars, rec, failures, exit>>
-----------------------------------------------------------------------------
\* Setups that differ from the usual one in at most two parts.
Init ==
  /\ \E p, q \in DOMAIN Parts : \E v \in Values(p), w \in Values(q) :
       setup = [Usual EXCEPT ![p] = v, ![q] = w]
  /\ pc = "start"
  /\ reachable = FALSE /\ account = FALSE
  /\ rec = {}
  /\ denied = FALSE
  /\ failures = 0
  /\ exit = NoExit

runDoctor ==
  \/ checkCliConfig \/ checkApiReachability \/ checkApiAuth \/ checkAgentAccess
  \/ checkDomains \/ checkOneDomain \/ CheckDmarc \/ CheckSending
  \/ checkMcp \/ CheckMetadata \/ checkWebhooks \/ checkOneWebhook \/ CheckDelivery
  \/ checkSmtpConfig \/ buildReport

Next == doctor \/ runDoctor \/ Deny

Spec == Init /\ [][Next]_vars
-----------------------------------------------------------------------------
(* Properties                                                              *)

\* What these options let a run look at, if every probe succeeds.
Visible(p) ==
  LET domain == setup.key = "account" /\ (setup.asked # "all" \/ setup.domains # "none")
      hooks == setup.key = "account" /\ setup.webhooks # "none"
  IN
  CASE p \in {"key", "url", "agent", "smtp"} -> TRUE
    [] p = "asked" -> setup.key = "account"
    [] p = "domains" -> setup.key = "account" /\ setup.asked = "all"
    [] p \in {"ownership", "mx", "dkim", "mailFrom", "spf", "dmarc", "sending"} -> domain
    [] p \in {"webhooks", "webhook", "delivery"} -> hooks
    [] p = "others" -> \/ hooks /\ setup.webhooks = "tooMany"
                       \/ domain /\ setup.asked = "all" /\ setup.domains = "tooMany"
    [] p \in {"mcp", "metadata"} -> setup.mcp # "unknown"

\* CI gates on exit 0 and on exit 8 ("nothing is broken") without reading the
\* report: exit 0 means that nothing doctor could look at deserves even a
\* warning, and exit 8 that nothing it looked at is broken.  A check that was
\* skipped because another had failed, a probe that timed out or was throttled,
\* a key revoked half way, an API that lost its database and a list that was cut
\* short never pass for health.
CleanBillIsEarned ==
  \A p \in DOMAIN Parts :
    /\ exit = EXIT.OK /\ Visible(p) => setup[p] \in Parts[p].sound
    /\ exit = EXIT.WARN /\ Visible(p) /\ p # "others" => setup[p] \in Parts[p].sound \union Parts[p].warn

\* A retry-on-1 wrapper relies on the exit class: 9 and 4 (a human must act) are
\* never the result of probes that merely failed, and 1 (try again) only of
\* such.  A key revoked half way and an API whose database fails are the
\* exceptions: the domain and webhook checks report their refusals as a
\* configuration failure, and the API calls its own failure unauthorized.
ExitCodeIsWarranted ==
  /\ exit = EXIT.CONFIG => denied \/ \E p \in DOMAIN Parts : setup[p] \in Parts[p].broken \union Parts[p].auth
  /\ exit = EXIT.AUTH => denied \/ \E p \in DOMAIN Parts : setup[p] \in Parts[p].auth
  /\ exit = EXIT.ERROR => failures > 0
=============================================================================
