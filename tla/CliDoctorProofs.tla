--------------------------- MODULE CliDoctorProofs ---------------------------
(***************************************************************************)
(* Theorems about CliDoctor, for every setup (not only those with two      *)
(* peculiarities) and any number of failed probes: exits 0 and 8 are       *)
(* earned, exits 1, 4 and 9 are warranted.                                 *)
(***************************************************************************)
EXTENDS CliDoctor, TLAPS

\* Every combination of what doctor looks at.
Setups == {x \in [DOMAIN Parts -> UNION {Values(p) : p \in DOMAIN Parts}] : \A p \in DOMAIN Parts : x[p] \in Values(p)}

AnyInit ==
  /\ setup \in Setups
  /\ pc = "start"
  /\ reachable = FALSE /\ account = FALSE
  /\ rec = {}
  /\ denied = FALSE
  /\ failures = 0
  /\ exit = NoExit

AnySpec == AnyInit /\ [][Next]_vars
-----------------------------------------------------------------------------
(* The inductive invariant.                                                *)

Outcomes == {Pass, Skip, Warn, Fail("auth"), Fail("config"), Fail("transient")}

DoctorTypes ==
  /\ setup \in Setups
  /\ pc \in Steps
  /\ reachable \in BOOLEAN /\ account \in BOOLEAN /\ denied \in BOOLEAN
  /\ rec \subseteq Outcomes
  /\ failures \in Nat

\* The parts that have been judged before step k.
Judged(k) ==
  LET keys == {"url", "key", "agent"}
      records == {"ownership", "mx", "dkim", "mailFrom", "spf", "dmarc", "sending"}
      upToMcp == keys \union {"asked", "domains"} \union records
  IN
  CASE k \in {"start", "config", "reachability"} -> {}
    [] k = "auth" -> {"url"}
    [] k = "access" -> {"url", "key"}
    [] k = "domains" -> keys
    [] k = "ownership" -> keys \union {"asked", "domains"}
    [] k = "mx" -> keys \union {"asked", "domains", "ownership"}
    [] k = "dkim" -> keys \union {"asked", "domains", "ownership", "mx"}
    [] k = "mailFrom" -> keys \union {"asked", "domains", "ownership", "mx", "dkim"}
    [] k = "spf" -> keys \union {"asked", "domains", "ownership", "mx", "dkim", "mailFrom"}
    [] k = "dmarc" -> keys \union {"asked", "domains", "ownership", "mx", "dkim", "mailFrom", "spf"}
    [] k = "sending" -> keys \union {"asked", "domains", "ownership", "mx", "dkim", "mailFrom", "spf", "dmarc"}
    [] k = "mcp" -> upToMcp
    [] k = "metadata" -> upToMcp \union {"mcp"}
    [] k = "webhooks" -> upToMcp \union {"mcp", "metadata"}
    [] k = "webhook" -> upToMcp \union {"mcp", "metadata", "webhooks"}
    [] k = "delivery" -> upToMcp \union {"mcp", "metadata", "webhooks", "webhook"}
    [] k = "smtp" -> upToMcp \union {"mcp", "metadata", "webhooks", "webhook", "delivery"}
    [] OTHER -> upToMcp \union {"mcp", "metadata", "webhooks", "webhook", "delivery", "smtp"}

\* Without a failed check so far, what was judged is not broken, and without a
\* warning it is sound.
NoFail == \A r \in rec : r.class = "none"
Healthy ==
  NoFail => \A p \in Judged(pc) :
              Visible(p) => /\ setup[p] \in Parts[p].sound \union Parts[p].warn
                            /\ (Warn \notin rec) => (setup[p] \in Parts[p].sound)

\* Without a failed check so far, nothing was skipped for want of an account.
Context ==
  NoFail => /\ pc \notin {"start", "config"} => setup.key # "none"
            /\ pc \notin {"start", "config", "reachability"} => reachable
            /\ pc \notin {"start", "config", "reachability", "auth"} => account

\* Each failed check has its cause.
Broken == \E p \in DOMAIN Parts : setup[p] \in Parts[p].broken \union Parts[p].auth
Refused == \E p \in DOMAIN Parts : setup[p] \in Parts[p].auth
Warrant ==
  \A r \in rec : /\ r.class = "config" => denied \/ Broken
                 /\ r.class = "auth" => denied \/ Refused
                 /\ r.class = "transient" => failures > 0

Running == pc # "done" => Healthy /\ Context /\ exit = NoExit /\ (pc # "start" => setup.mcp # "malformed")

Inv == DoctorTypes /\ Warrant /\ Running /\ CleanBillIsEarned /\ ExitCodeIsWarranted
-----------------------------------------------------------------------------
(* The parts of a setup.                                                   *)

PartNames == {"key", "url", "agent", "asked", "domains", "ownership", "mx", "dkim", "mailFrom", "spf", "dmarc",
              "sending", "mcp", "metadata", "webhooks", "webhook", "delivery", "others", "smtp"}

\* The parts of a setup.
LEMMA PartDomain == DOMAIN Parts = PartNames
  BY DEF Parts, PartNames

\* What each part makes of its values.
LEMMA PartTable ==
  /\ Parts["key"] = Part({"account", "agent"}, {}, {}, {"none", "bad"})
  /\ Parts["url"] = Part({"root"}, {}, {"garbled", "elsewhere"}, {})
  /\ Parts["agent"] = Part({"ours", "unset"}, {}, {"gone"}, {"foreign"})
  /\ Parts["asked"] = Part({"all", "registered"}, {}, {"unknown"}, {})
  /\ Parts["domains"] = Part({"none", "some"}, {"tooMany"}, {}, {})
  /\ Parts["ownership"] = Record
  /\ Parts["mx"] = Record
  /\ Parts["dkim"] = Record
  /\ Parts["mailFrom"] = Record
  /\ Parts["spf"] = Record
  /\ Parts["dmarc"] = Part({"published"}, {"missing"}, {}, {})
  /\ Parts["sending"] = Part({"verified", "none"}, {"pending"}, {"failed"}, {})
  /\ Parts["mcp"] = Part({"routed", "unknown", "malformed"}, {}, {"notRouted"}, {})
  /\ Parts["metadata"] = Part({"advertised"}, {"missing"}, {}, {})
  /\ Parts["webhooks"] = Part({"none", "some"}, {"tooMany"}, {}, {})
  /\ Parts["webhook"] = Part({"enabled"}, {"disabled", "insecure"}, {"autoDisabled"}, {})
  /\ Parts["delivery"] = Part({"delivered", "none"}, {"failing"}, {}, {})
  /\ Parts["others"] = Part({"fine"}, {}, {"broken"}, {})
  /\ Parts["smtp"] = Part({"whole", "invisible"}, {"partial"}, {}, {})
  BY DEF Parts

\* What a setup can hold, part by part.
LEMMA SetupValues ==
  ASSUME NEW x \in Setups
  PROVE  /\ x["key"] \in {"account", "agent", "none", "bad"}
         /\ x["url"] \in {"root", "garbled", "elsewhere"}
         /\ x["agent"] \in {"ours", "unset", "gone", "foreign"}
         /\ x["asked"] \in {"all", "registered", "unknown"}
         /\ x["domains"] \in {"none", "some", "tooMany"}
         /\ \A p \in {"ownership", "mx", "dkim", "mailFrom", "spf"} : x[p] \in {"published", "unprescribed", "mismatch", "missing"}
         /\ x["dmarc"] \in {"published", "missing"}
         /\ x["sending"] \in {"verified", "none", "pending", "failed"}
         /\ x["mcp"] \in {"routed", "unknown", "malformed", "notRouted"}
         /\ x["metadata"] \in {"advertised", "missing"}
         /\ x["webhooks"] \in {"none", "some", "tooMany"}
         /\ x["webhook"] \in {"enabled", "disabled", "insecure", "autoDisabled"}
         /\ x["delivery"] \in {"delivered", "none", "failing"}
         /\ x["smtp"] \in {"whole", "invisible", "partial"}
<1>1. \A p \in PartNames : x[p] \in Values(p)
  BY PartDomain DEF Setups
<1>2. \A p : Values(p) = UNION {Parts[p].sound, Parts[p].warn, Parts[p].broken, Parts[p].auth}
  BY DEF Values
<1>3. \A p \in PartNames : x[p] \in Parts[p].sound \/ x[p] \in Parts[p].warn \/ x[p] \in Parts[p].broken \/ x[p] \in Parts[p].auth
  BY <1>1, <1>2
<1>4. x["key"] \in {"account", "agent", "none", "bad"} /\ x["url"] \in {"root", "garbled", "elsewhere"}
  BY <1>3, PartTable DEF Part, PartNames
<1>5. x["agent"] \in {"ours", "unset", "gone", "foreign"} /\ x["asked"] \in {"all", "registered", "unknown"}
  BY <1>3, PartTable DEF Part, PartNames
<1>6. x["domains"] \in {"none", "some", "tooMany"} /\ x["dmarc"] \in {"published", "missing"}
  BY <1>3, PartTable DEF Part, PartNames
<1>7. \A p \in {"ownership", "mx", "dkim", "mailFrom", "spf"} : x[p] \in {"published", "unprescribed", "mismatch", "missing"}
  BY <1>3, PartTable DEF Record, Part, PartNames
<1>8. x["sending"] \in {"verified", "none", "pending", "failed"} /\ x["mcp"] \in {"routed", "unknown", "malformed", "notRouted"}
  BY <1>3, PartTable DEF Part, PartNames
<1>9. x["metadata"] \in {"advertised", "missing"} /\ x["webhooks"] \in {"none", "some", "tooMany"}
  BY <1>3, PartTable DEF Part, PartNames
<1>10. x["webhook"] \in {"enabled", "disabled", "insecure", "autoDisabled"} /\ x["delivery"] \in {"delivered", "none", "failing"}
  BY <1>3, PartTable DEF Part, PartNames
<1>11. x["smtp"] \in {"whole", "invisible", "partial"}
  BY <1>3, PartTable DEF Part, PartNames
<1> QED
  BY <1>4, <1>5, <1>6, <1>7, <1>8, <1>9, <1>10, <1>11
-----------------------------------------------------------------------------
(* The classes of errors.                                                  *)

\* classifyError, for each kind of answer.
LEMMA Classified ==
  /\ classifyError(Ok) = "none" /\ classifyError(Unauthorized) = "auth" /\ classifyError(Forbidden) = "auth"
  /\ classifyError(NotFound) = "not_found" /\ \A e \in Troubles : classifyError(e) = "transient"
<1>1. \A s, k : toE2AError(s, k).status = s /\ toE2AError(s, k).retryable = resolve(s, k).retryable
  BY DEF toE2AError
<1>2. classifyError(Ok) = "none"
  BY DEF classifyError, Ok
<1>0. \A k \in {"unauthorized", "forbidden", "not_found"} : \A s : ~resolve(s, k).retryable
  <2> SUFFICES ASSUME NEW k \in {"unauthorized", "forbidden", "not_found"}, NEW s PROVE ~resolve(s, k).retryable
    OBVIOUS
  <2>1. k \in DOMAIN CODE_TABLE /\ ~CODE_TABLE[k].retryable
    BY DEF CODE_TABLE, Verdict
  <2>2. k \notin NotFoundFamily \union TakenFamily \union InvalidFamily
    BY DEF NotFoundFamily, TakenFamily, InvalidFamily
  <2>3. resolve(s, k) = CODE_TABLE[k]
    BY <2>1, <2>2 DEF resolve
  <2> QED
    BY <2>1, <2>3
<1>3. classifyError(Unauthorized) = "auth" /\ classifyError(Forbidden) = "auth"
  BY <1>0, <1>1 DEF classifyError, Unauthorized, Forbidden
<1>4. classifyError(NotFound) = "not_found"
  BY <1>0, <1>1 DEF classifyError, NotFound
<1>5. classifyError(connectionError) = "transient"
  BY DEF classifyError, connectionError
<1>6. classifyError(toE2AError(503, "limits_unavailable")) = "transient"
  BY <1>1 DEF classifyError
<1>7. classifyError(toE2AError(429, "rate_limited")) = "transient"
  <2>1. "rate_limited" \in DOMAIN CODE_TABLE /\ CODE_TABLE["rate_limited"].retryable = TRUE
    BY DEF CODE_TABLE, Verdict
  <2>2. "rate_limited" \notin NotFoundFamily \union TakenFamily \union InvalidFamily
    BY DEF NotFoundFamily, TakenFamily, InvalidFamily
  <2>3. resolve(429, "rate_limited") = CODE_TABLE["rate_limited"]
    BY <2>1, <2>2 DEF resolve
  <2> QED
    BY <1>1, <2>1, <2>3 DEF classifyError
<1> QED
  BY <1>2, <1>3, <1>4, <1>5, <1>6, <1>7 DEF Troubles
-----------------------------------------------------------------------------
(* The steps.                                                              *)

\* What each step adds to the parts that have been judged.
LEMMA JudgedSteps ==
  /\ Judged("start") = {} /\ Judged("config") = {} /\ Judged("reachability") = {} /\ Judged("auth") = {"url"}
  /\ Judged("access") \subseteq Judged("auth") \union {"key"}
  /\ Judged("domains") \subseteq Judged("access") \union {"agent"}
  /\ Judged("ownership") \subseteq Judged("domains") \union {"asked", "domains"}
  /\ Judged("mx") \subseteq Judged("ownership") \union {"ownership"}
  /\ Judged("dkim") \subseteq Judged("mx") \union {"mx"}
  /\ Judged("mailFrom") \subseteq Judged("dkim") \union {"dkim"}
  /\ Judged("spf") \subseteq Judged("mailFrom") \union {"mailFrom"}
  /\ Judged("dmarc") \subseteq Judged("spf") \union {"spf"}
  /\ Judged("sending") \subseteq Judged("dmarc") \union {"dmarc"}
  /\ Judged("mcp") \subseteq Judged("sending") \union {"sending"}
  /\ Judged("mcp") \subseteq Judged("domains") \union {"asked", "domains", "ownership", "mx", "dkim", "mailFrom",
                                                       "spf", "dmarc", "sending"}
  /\ Judged("metadata") \subseteq Judged("mcp") \union {"mcp"}
  /\ Judged("webhooks") \subseteq Judged("metadata") \union {"metadata"}
  /\ Judged("webhooks") \subseteq Judged("mcp") \union {"mcp", "metadata"}
  /\ Judged("webhook") \subseteq Judged("webhooks") \union {"webhooks"}
  /\ Judged("delivery") \subseteq Judged("webhook") \union {"webhook"}
  /\ Judged("smtp") \subseteq Judged("delivery") \union {"delivery"}
  /\ Judged("smtp") \subseteq Judged("webhooks") \union {"webhooks", "webhook", "delivery"}
  /\ Judged("report") \subseteq Judged("smtp") \union {"smtp"}
  /\ Judged("report") = PartNames \ {"others"}
<1> DEFINE k == {"url", "key", "agent"}
           d == k \union {"asked", "domains"}
           u == d \union {"ownership", "mx", "dkim", "mailFrom", "spf", "dmarc", "sending"}
<1>1. Judged("start") = {} /\ Judged("config") = {} /\ Judged("reachability") = {} /\ Judged("auth") = {"url"}
  BY DEF Judged
<1>2. Judged("access") = {"url", "key"} /\ Judged("domains") = k
  BY DEF Judged
<1>3. Judged("ownership") = d /\ Judged("mx") = d \union {"ownership"}
  BY DEF Judged
<1>4. Judged("dkim") = d \union {"ownership", "mx"} /\ Judged("mailFrom") = d \union {"ownership", "mx", "dkim"}
  BY DEF Judged
<1>5. Judged("spf") = d \union {"ownership", "mx", "dkim", "mailFrom"}
  BY DEF Judged
<1>6. Judged("dmarc") = d \union {"ownership", "mx", "dkim", "mailFrom", "spf"}
  BY DEF Judged
<1>7. Judged("sending") = d \union {"ownership", "mx", "dkim", "mailFrom", "spf", "dmarc"}
  BY DEF Judged
<1>8. Judged("mcp") = u /\ Judged("metadata") = u \union {"mcp"}
  BY DEF Judged
<1>9. Judged("webhooks") = u \union {"mcp", "metadata"} /\ Judged("webhook") = u \union {"mcp", "metadata", "webhooks"}
  BY DEF Judged
<1>10. Judged("delivery") = u \union {"mcp", "metadata", "webhooks", "webhook"}
  BY DEF Judged
<1>11. Judged("smtp") = u \union {"mcp", "metadata", "webhooks", "webhook", "delivery"}
  BY DEF Judged
<1>12. Judged("report") = u \union {"mcp", "metadata", "webhooks", "webhook", "delivery", "smtp"}
  BY DEF Judged
<1> QED
  BY <1>1, <1>2, <1>3, <1>4, <1>5, <1>6, <1>7, <1>8, <1>9, <1>10, <1>11, <1>12 DEF PartNames

\* The outcomes of a check are told apart.
LEMMA OutcomeFacts ==
  /\ Pass.class = "none" /\ Skip.class = "none" /\ Warn.class = "none"
  /\ \A k : Fail(k).class = k /\ Fail(k) # Warn
  /\ Pass # Warn /\ Skip # Warn
  /\ Pass \in Outcomes /\ Skip \in Outcomes /\ Warn \in Outcomes
  /\ Fail("auth") \in Outcomes /\ Fail("config") \in Outcomes /\ Fail("transient") \in Outcomes
  BY DEF Pass, Skip, Warn, Fail, Outcomes

\* Why a failed outcome is recorded.
Warranted(r) ==
  /\ r.class = "config" => denied \/ Broken
  /\ r.class = "auth" => denied \/ Refused
  /\ r.class = "transient" => failures' > 0

\* What an outcome says of a part.
Judges(O, p) ==
  Visible(p) => /\ setup[p] \in Parts[p].sound \union Parts[p].warn
                /\ (Warn \notin O) => (setup[p] \in Parts[p].sound)

\* A check records its outcomes and judges the parts Q.
LEMMA Recorded ==
  ASSUME Inv, NEW O, O \subseteq Outcomes, NEW n \in Steps \ {"start", "done"}, Add(O, n), Quiet, pc \notin {"start", "done"},
         reachable' \in BOOLEAN, account' \in BOOLEAN,
         failures' = failures \/ failures' = failures + 1,
         \A r \in O : Warranted(r),
         NEW Q, Judged(n) \subseteq Judged(pc) \union Q,
         NoFail /\ (\A r \in O : r.class = "none") => \A p \in Q : Judges(O, p),
         NoFail /\ (\A r \in O : r.class = "none") =>
           /\ n # "config" => setup.key # "none"
           /\ n \notin {"config", "reachability"} => reachable'
           /\ n \notin {"config", "reachability", "auth"} => account'
  PROVE  Inv'
<1>1. rec' = rec \union O /\ pc' = n /\ setup' = setup /\ denied' = denied /\ exit' = exit /\ exit = NoExit
  BY DEF Add, Quiet, Inv, Running
<1>2. failures \in Nat /\ failures' \in Nat /\ failures' >= failures
  BY DEF Inv, DoctorTypes
<1>3. DoctorTypes'
  BY <1>1, <1>2 DEF Inv, DoctorTypes
<1>4. Broken' = Broken /\ Refused' = Refused /\ \A p : Visible(p)' = Visible(p)
  BY <1>1 DEF Broken, Refused, Visible
<1>5. Warrant'
  <2> SUFFICES ASSUME NEW r \in rec'
               PROVE  /\ r.class = "config" => denied \/ Broken
                      /\ r.class = "auth" => denied \/ Refused
                      /\ r.class = "transient" => failures' > 0
    BY <1>1, <1>4 DEF Warrant
  <2>1. CASE r \in rec
    BY <1>2, <2>1 DEF Inv, Warrant
  <2>2. CASE r \in O
    BY <2>2 DEF Warranted
  <2> QED
    BY <1>1, <2>1, <2>2
<1>6. NoFail' => NoFail /\ \A r \in O : r.class = "none"
  BY <1>1 DEF NoFail
<1>7. Healthy'
  <2> SUFFICES ASSUME NoFail', NEW p \in Judged(n), Visible(p)
               PROVE  /\ setup[p] \in Parts[p].sound \union Parts[p].warn
                      /\ Warn \notin rec' => setup[p] \in Parts[p].sound
    BY <1>1, <1>4 DEF Healthy
  <2>1. CASE p \in Judged(pc)
    BY <1>1, <1>6, <2>1 DEF Inv, Running, Healthy
  <2>2. CASE p \in Q
    BY <1>1, <1>6, <2>2 DEF Judges
  <2> QED
    BY <2>1, <2>2
<1>8. Context'
  BY <1>1, <1>6 DEF Context
<1>9. CleanBillIsEarned' /\ ExitCodeIsWarranted'
  BY <1>1 DEF CleanBillIsEarned, ExitCodeIsWarranted, NoExit, EXIT
<1> QED
  BY <1>1, <1>3, <1>5, <1>7, <1>8, <1>9 DEF Inv, Running

\* The same, once an account is known or its lack has been recorded.
LEMMA RecordedLater ==
  ASSUME Inv, pc \notin {"start", "config", "reachability", "auth", "done"},
         NEW O, O \subseteq Outcomes, NEW n \in Steps \ {"start", "done"}, Add(O, n), Quiet, UNCHANGED ctxVars,
         failures' = failures \/ failures' = failures + 1,
         \A r \in O : Warranted(r),
         NEW Q, Judged(n) \subseteq Judged(pc) \union Q,
         account /\ (\A r \in O : r.class = "none") => \A p \in Q : Judges(O, p)
  PROVE  Inv'
<1>1. reachable' = reachable /\ account' = account /\ reachable \in BOOLEAN /\ account \in BOOLEAN
  BY DEF ctxVars, Inv, DoctorTypes
<1>2. NoFail => setup.key # "none" /\ reachable /\ account
  BY DEF Inv, Running, Context
<1>3. /\ NoFail /\ (\A r \in O : r.class = "none") => \A p \in Q : Judges(O, p)
      /\ NoFail /\ (\A r \in O : r.class = "none") =>
           /\ n # "config" => setup.key # "none"
           /\ n \notin {"config", "reachability"} => reachable'
           /\ n \notin {"config", "reachability", "auth"} => account'
  BY <1>1, <1>2
<1> QED
  BY <1>1, <1>3, Recorded

\* The values of each part, by what they deserve.
LEMMA PartSets ==
  /\ Parts["key"].sound = {"account", "agent"} /\ Parts["key"].warn = {}
  /\ Parts["key"].broken = {} /\ Parts["key"].auth = {"none", "bad"}
  /\ Parts["url"].sound = {"root"} /\ Parts["url"].warn = {}
  /\ Parts["url"].broken = {"garbled", "elsewhere"} /\ Parts["url"].auth = {}
  /\ Parts["agent"].sound = {"ours", "unset"} /\ Parts["agent"].warn = {}
  /\ Parts["agent"].broken = {"gone"} /\ Parts["agent"].auth = {"foreign"}
  /\ Parts["asked"].sound = {"all", "registered"} /\ Parts["asked"].warn = {}
  /\ Parts["asked"].broken = {"unknown"} /\ Parts["asked"].auth = {}
  /\ Parts["domains"].sound = {"none", "some"} /\ Parts["domains"].warn = {"tooMany"}
  /\ Parts["domains"].broken = {} /\ Parts["domains"].auth = {}
  /\ Parts["dmarc"].sound = {"published"} /\ Parts["dmarc"].warn = {"missing"}
  /\ Parts["dmarc"].broken = {} /\ Parts["dmarc"].auth = {}
  /\ Parts["sending"].sound = {"verified", "none"} /\ Parts["sending"].warn = {"pending"}
  /\ Parts["sending"].broken = {"failed"} /\ Parts["sending"].auth = {}
  /\ Parts["mcp"].sound = {"routed", "unknown", "malformed"} /\ Parts["mcp"].warn = {}
  /\ Parts["mcp"].broken = {"notRouted"} /\ Parts["mcp"].auth = {}
  /\ Parts["metadata"].sound = {"advertised"} /\ Parts["metadata"].warn = {"missing"}
  /\ Parts["metadata"].broken = {} /\ Parts["metadata"].auth = {}
  /\ Parts["webhooks"].sound = {"none", "some"} /\ Parts["webhooks"].warn = {"tooMany"}
  /\ Parts["webhooks"].broken = {} /\ Parts["webhooks"].auth = {}
  /\ Parts["webhook"].sound = {"enabled"} /\ Parts["webhook"].warn = {"disabled", "insecure"}
  /\ Parts["webhook"].broken = {"autoDisabled"} /\ Parts["webhook"].auth = {}
  /\ Parts["delivery"].sound = {"delivered", "none"} /\ Parts["delivery"].warn = {"failing"}
  /\ Parts["delivery"].broken = {} /\ Parts["delivery"].auth = {}
  /\ Parts["smtp"].sound = {"whole", "invisible"} /\ Parts["smtp"].warn = {"partial"}
  /\ Parts["smtp"].broken = {} /\ Parts["smtp"].auth = {}
  /\ \A p \in {"ownership", "mx", "dkim", "mailFrom", "spf"} :
       /\ Parts[p].sound = {"published", "unprescribed"} /\ Parts[p].warn = {}
       /\ Parts[p].broken = {"mismatch", "missing"} /\ Parts[p].auth = {}
  BY PartTable DEF Part, Record

\* What a broken part or a refused credential amounts to.
LEMMA Causes ==
  /\ \A p \in PartNames : setup[p] \in Parts[p].broken \/ setup[p] \in Parts[p].auth => Broken
  /\ \A p \in PartNames : setup[p] \in Parts[p].auth => Refused
  BY PartDomain DEF Broken, Refused

\* What is visible, part by part.
LEMMA Visibility ==
  /\ Visible("asked") => setup.key = "account"
  /\ Visible("domains") => setup.key = "account" /\ setup.asked = "all"
  /\ \A p \in {"ownership", "mx", "dkim", "mailFrom", "spf", "dmarc", "sending"} :
       Visible(p) => setup.key = "account" /\ (setup.asked # "all" \/ setup.domains # "none")
  /\ \A p \in {"webhooks", "webhook", "delivery"} : Visible(p) => setup.key = "account" /\ setup.webhooks # "none"
  /\ \A p \in {"mcp", "metadata"} : Visible(p) => setup.mcp # "unknown"
  /\ Visible("others") => (setup.key = "account" /\ setup.webhooks = "tooMany")
       \/ (setup.key = "account" /\ setup.asked = "all" /\ setup.domains = "tooMany")
<1>1. Visible("asked") => setup.key = "account"
  BY DEF Visible
<1>2. Visible("domains") => setup.key = "account" /\ setup.asked = "all"
  BY DEF Visible
<1>3. \A p \in {"ownership", "mx", "dkim", "mailFrom", "spf", "dmarc", "sending"} :
        Visible(p) => setup.key = "account" /\ (setup.asked # "all" \/ setup.domains # "none")
  BY DEF Visible
<1>4. \A p \in {"webhooks", "webhook", "delivery"} : Visible(p) => setup.key = "account" /\ setup.webhooks # "none"
  BY DEF Visible
<1>5. \A p \in {"mcp", "metadata"} : Visible(p) => setup.mcp # "unknown"
  BY DEF Visible
<1>6. Visible("others") => (setup.key = "account" /\ setup.webhooks = "tooMany")
       \/ (setup.key = "account" /\ setup.asked = "all" /\ setup.domains = "tooMany")
  BY DEF Visible
<1> QED
  BY <1>1, <1>2, <1>3, <1>4, <1>5, <1>6

\* The parts a key can see.
LEMMA VisibleMore ==
  /\ Visible("key") /\ Visible("url") /\ Visible("agent") /\ Visible("smtp")
  /\ setup.key = "account" => Visible("asked")
  /\ setup.key = "account" /\ setup.asked = "all" => Visible("domains")
  /\ setup.key = "account" /\ setup.webhooks # "none" => Visible("webhooks")
<1>1. Visible("key") /\ Visible("url") /\ Visible("agent") /\ Visible("smtp")
  BY DEF Visible
<1>2. setup.key = "account" => Visible("asked")
  BY DEF Visible
<1>3. setup.key = "account" /\ setup.asked = "all" => Visible("domains")
  BY DEF Visible
<1>4. setup.key = "account" /\ setup.webhooks # "none" => Visible("webhooks")
  BY DEF Visible
<1> QED
  BY <1>1, <1>2, <1>3, <1>4

\* The first steps.
LEMMA ConfigStep ==
  ASSUME Inv, checkCliConfig
  PROVE  Inv'
<1> DEFINE r == IF setup.key = "none" THEN Fail("auth") ELSE Pass
<1>1. pc = "config" /\ Add({r}, "reachability") /\ Quiet /\ failures' = failures /\ reachable' = reachable /\ account' = account
  BY DEF checkCliConfig, ctxVars
<1>2. /\ r \in Outcomes /\ (r.class = "none" => setup.key # "none")
      /\ r.class # "config" /\ r.class # "transient" /\ (r.class = "auth" => setup["key"] \in Parts["key"].auth)
  BY OutcomeFacts, PartSets
<1> HIDE DEF r
<1>3. Warranted(r)
  BY <1>2, Causes DEF Warranted, PartNames
<1>4. reachable \in BOOLEAN /\ account \in BOOLEAN /\ "reachability" \in Steps \ {"start", "done"}
  BY DEF Inv, DoctorTypes, Steps
<1>5. Judged("reachability") \subseteq Judged(pc) \union {}
  BY <1>1, JudgedSteps
<1>6. /\ {r} \subseteq Outcomes /\ \A x \in {r} : Warranted(x)
      /\ (\A x \in {r} : x.class = "none") => setup.key # "none"
  BY <1>2, <1>3
<1> DEFINE Q == {}
<1>7. reachable' \in BOOLEAN /\ account' \in BOOLEAN /\ pc \notin {"start", "done"} /\ \A p \in Q : Judges({r}, p)
  BY <1>1, <1>4
<1>8. Judged("reachability") \subseteq Judged(pc) \union Q
  BY <1>5
<1> HIDE DEF Q
<1> QED
  BY <1>1, <1>4, <1>6, <1>7, <1>8, Recorded

\* checkApiReachability.
LEMMA ReachabilityStep ==
  ASSUME Inv, checkApiReachability
  PROVE  Inv'
<1> DEFINE out(a) == CASE a = "root" -> Pass
                       [] a \in {"elsewhere", "garbled"} -> Fail("config")
                       [] OTHER -> Fail("transient")
<1>1. pc = "reachability" /\ Quiet /\ account' = account
  BY DEF checkApiReachability
<1>2. PICK a : /\ Add({out(a)}, "auth") /\ reachable' = (a = "root")
               /\ \/ a = setup.url /\ failures' = failures
                  \/ a \in HttpTroubles /\ failures' = failures + 1
  BY DEF checkApiReachability, Probe
<1>3. setup["url"] \in {"root", "garbled", "elsewhere"} /\ failures \in Nat
  BY SetupValues DEF Inv, DoctorTypes
<1> DEFINE r == out(a)
<1>4. /\ r \in Outcomes /\ (r.class = "none" => a = "root") /\ r.class # "auth"
      /\ r.class = "config" => a \in {"elsewhere", "garbled"}
      /\ r.class = "transient" => a \notin {"root", "elsewhere", "garbled"}
  BY OutcomeFacts
<1> HIDE DEF r, out
<1>5. Add({r}, "auth")
  BY <1>2 DEF r
<1>6. a \notin HttpTroubles \/ a \notin {"root", "elsewhere", "garbled"}
  BY DEF HttpTroubles
<1>7. Warranted(r)
  BY <1>2, <1>3, <1>4, <1>6, PartSets, Causes DEF Warranted, PartNames
<1>8. reachable' \in BOOLEAN /\ account \in BOOLEAN /\ "auth" \in Steps \ {"start", "done"}
  BY <1>2 DEF Inv, DoctorTypes, Steps
<1>9. Judged("auth") \subseteq Judged(pc) \union {"url"}
  BY <1>1, JudgedSteps
<1>10. r.class = "none" => reachable' /\ Judges({r}, "url")
  BY <1>2, <1>4, <1>6, PartSets DEF Judges
<1>11. NoFail => setup.key # "none"
  BY <1>1 DEF Inv, Running, Context
<1>12. failures' = failures \/ failures' = failures + 1
  BY <1>2
<1> DEFINE O == {r}
           Q == {"url"}
<1>13. O \subseteq Outcomes /\ Add(O, "auth") /\ (\A x \in O : Warranted(x)) /\ Judged("auth") \subseteq Judged(pc) \union Q
  BY <1>4, <1>5, <1>7, <1>9
<1>14. (\A x \in O : x.class = "none") => reachable' /\ \A p \in Q : Judges(O, p)
  BY <1>10
<1>15. pc \notin {"start", "done"} /\ account' \in BOOLEAN /\ Quiet
  BY <1>1, <1>8
<1>16. NoFail /\ (\A x \in O : x.class = "none") => setup.key # "none" /\ reachable'
  BY <1>11, <1>14
<1> HIDE DEF O, Q
<1> QED
  BY <1>8, <1>12, <1>13, <1>14, <1>15, <1>16, Recorded

\* The same for a single outcome.
LEMMA OneOutcome ==
  ASSUME Inv, pc \notin {"start", "config", "reachability", "auth", "done"}, NEW r \in Outcomes,
         NEW n \in Steps \ {"start", "done"}, Add({r}, n), Quiet, UNCHANGED ctxVars,
         failures' = failures \/ failures' = failures + 1, Warranted(r),
         NEW Q, Judged(n) \subseteq Judged(pc) \union Q,
         account /\ r.class = "none" => \A p \in Q : Judges({r}, p)
  PROVE  Inv'
<1> DEFINE O == {r}
<1>1. O \subseteq Outcomes /\ Add(O, n) /\ \A x \in O : Warranted(x)
  OBVIOUS
<1>2. account /\ (\A x \in O : x.class = "none") => \A p \in Q : Judges(O, p)
  OBVIOUS
<1> HIDE DEF O
<1> QED
  BY <1>1, <1>2, RecordedLater

\* What kind of error a call throws.
LEMMA CallKinds ==
  ASSUME NEW kind, NEW e, NEW lookup,
         \/ kind \in {classifyError(a) : a \in Answers(e, lookup)} /\ failures' = failures
         \/ kind \in {classifyError(f) : f \in Troubles} /\ failures' = failures + 1,
         failures \in Nat
  PROVE  /\ failures' = failures \/ failures' = failures + 1
         /\ \/ kind = "transient" /\ failures' > 0
            \/ kind \in {"auth", "not_found"} /\ denied
            \/ kind = classifyError(e)
<1>1. CASE kind \in {classifyError(a) : a \in Answers(e, lookup)} /\ failures' = failures
  <2>1. PICK a \in Answers(e, lookup) : kind = classifyError(a)
    BY <1>1
  <2>2. a = e \/ (denied /\ a \in {Unauthorized, NotFound})
    BY <2>1 DEF Answers
  <2> QED
    BY <1>1, <2>1, <2>2, Classified
<1>2. CASE kind \in {classifyError(f) : f \in Troubles} /\ failures' = failures + 1
  BY <1>2, Classified
<1> QED
  BY <1>1, <1>2

\* checkApiAuth.
LEMMA AuthStep ==
  ASSUME Inv, checkApiAuth
  PROVE  Inv'
<1> DEFINE out(k) == CASE k = "none" -> Pass
                       [] k \in {"auth", "transient"} -> Fail(k)
                       [] OTHER -> Fail("config")
           e == IF setup.key = "bad" THEN Unauthorized ELSE Ok
<1>1. pc = "auth" /\ Quiet /\ reachable' = reachable
  BY DEF checkApiAuth
<1>2. /\ reachable \in BOOLEAN /\ account \in BOOLEAN /\ "access" \in Steps \ {"start", "done"} /\ failures \in Nat
      /\ setup["key"] \in {"account", "agent", "none", "bad"}
  BY SetupValues DEF Inv, DoctorTypes, Steps
<1>3. Judged("access") \subseteq Judged(pc) \union {"key"}
  BY <1>1, JudgedSteps
<1>4. NoFail => setup.key # "none" /\ reachable
  BY <1>1 DEF Inv, Running, Context
<1>5. CASE setup.key = "none" \/ ~reachable
  <2>1. Add({Skip}, "access") /\ account' = account /\ failures' = failures
    BY <1>5 DEF checkApiAuth
  <2>2. {Skip} \subseteq Outcomes /\ (\A r \in {Skip} : Warranted(r)) /\ ~NoFail
    BY <1>4, <1>5, OutcomeFacts DEF Warranted
  <2> DEFINE O == {Skip}
             Q == {"key"}
  <2>3. O \subseteq Outcomes /\ Add(O, "access") /\ (\A x \in O : Warranted(x)) /\ Judged("access") \subseteq Judged(pc) \union Q
    BY <1>3, <2>1, <2>2
  <2>4. pc \notin {"start", "done"} /\ account' \in BOOLEAN /\ reachable' \in BOOLEAN /\ Quiet
    BY <1>1, <1>2, <2>1
  <2> HIDE DEF O, Q
  <2> QED
    BY <1>2, <2>1, <2>2, <2>3, <2>4, Recorded
<1>6. CASE ~(setup.key = "none" \/ ~reachable)
  <2>1. PICK k : /\ Add({out(k)}, "access") /\ account' = (k = "none")
                 /\ \/ k \in {classifyError(a) : a \in Answers(e, FALSE)} /\ failures' = failures
                    \/ k \in {classifyError(f) : f \in Troubles} /\ failures' = failures + 1
    BY <1>6 DEF checkApiAuth, Call, Probe
  <2>2. classifyError(e) = IF setup.key = "bad" THEN "auth" ELSE "none"
    BY Classified
  <2> HIDE DEF e
  <2>3. /\ failures' = failures \/ failures' = failures + 1
        /\ \/ k = "transient" /\ failures' > 0
           \/ (k = "auth" /\ setup.key = "bad") \/ (k \in {"auth", "not_found"} /\ denied)
           \/ k = "none" /\ setup.key # "bad"
    BY <1>2, <2>1, <2>2, CallKinds
  <2> DEFINE r == out(k)
  <2>4. r \in Outcomes /\ r.class = (IF k = "not_found" THEN "config" ELSE k) /\ r # Warn
    BY <2>3, OutcomeFacts
  <2> HIDE DEF r, out
  <2>5. Add({r}, "access")
    BY <2>1 DEF r
  <2>6. Warranted(r)
    BY <2>3, <2>4, PartSets, Causes DEF Warranted, PartNames
  <2>7. r.class = "none" => account' /\ Judges({r}, "key")
    BY <1>2, <1>6, <2>1, <2>3, <2>4, PartSets DEF Judges
  <2>8. account' \in BOOLEAN
    BY <2>1
  <2>9. /\ {r} \subseteq Outcomes /\ (\A x \in {r} : Warranted(x))
        /\ NoFail /\ (\A x \in {r} : x.class = "none") => \A p \in {"key"} : Judges({r}, p)
        /\ NoFail /\ (\A x \in {r} : x.class = "none") => setup.key # "none" /\ reachable' /\ account'
    BY <1>1, <1>4, <2>4, <2>6, <2>7
  <2> DEFINE O == {r}
  <2> HIDE DEF O
  <2>10. /\ O \subseteq Outcomes /\ (\A x \in O : Warranted(x)) /\ Add(O, "access")
         /\ NoFail /\ (\A x \in O : x.class = "none") => \A p \in {"key"} : Judges(O, p)
         /\ NoFail /\ (\A x \in O : x.class = "none") => setup.key # "none" /\ reachable' /\ account'
    BY <2>5, <2>9 DEF O
  <2>11. failures' = failures \/ failures' = failures + 1
    BY <2>3
  <2> QED
    BY <1>1, <1>2, <1>3, <2>8, <2>10, <2>11, Recorded
<1> QED
  BY <1>5, <1>6

\* checkAgentAccess.
LEMMA AccessStep ==
  ASSUME Inv, checkAgentAccess
  PROVE  Inv'
<1> DEFINE out(k) == CASE k = "none" -> Pass
                       [] k \in {"auth", "transient"} -> Fail(k)
                       [] OTHER -> Fail("config")
           e == CASE setup.agent \in {"ours", "unset"} -> Ok
                  [] setup.agent = "foreign" /\ setup.key = "agent" -> Forbidden
                  [] OTHER -> NotFound
<1>1. pc = "access" /\ Quiet /\ UNCHANGED ctxVars
  BY DEF checkAgentAccess
<1>2. /\ "domains" \in Steps \ {"start", "done"} /\ failures \in Nat
      /\ setup["agent"] \in {"ours", "unset", "gone", "foreign"}
  BY SetupValues DEF Inv, DoctorTypes, Steps
<1>3. Judged("domains") \subseteq Judged(pc) \union {"agent"}
  BY <1>1, JudgedSteps
<1>5. CASE ~account \/ (setup.agent = "unset" /\ setup.key = "account")
  <2>1. Add({Skip}, "domains") /\ failures' = failures
    BY <1>5 DEF checkAgentAccess
  <2>2. {Skip} \subseteq Outcomes /\ (\A r \in {Skip} : Warranted(r)) /\ (account => Judges({Skip}, "agent"))
    BY <1>5, OutcomeFacts, PartSets DEF Warranted, Judges
  <2> DEFINE r == Skip
             Q == {"agent"}
  <2>3. r \in Outcomes /\ Warranted(r) /\ Add({r}, "domains") /\ Judged("domains") \subseteq Judged(pc) \union Q
    BY <1>3, <2>1, <2>2
  <2>4. account /\ r.class = "none" => \A p \in Q : Judges({r}, p)
    BY <2>2
  <2>5. pc \notin {"start", "config", "reachability", "auth", "done"}
    BY <1>1
  <2> HIDE DEF r, Q
  <2> QED
    BY <1>1, <1>2, <2>1, <2>3, <2>4, <2>5, OneOutcome
<1>6. CASE ~(~account \/ (setup.agent = "unset" /\ setup.key = "account"))
  <2>1. PICK k : /\ Add({out(k)}, "domains")
                 /\ \/ k \in {classifyError(a) : a \in Answers(e, TRUE)} /\ failures' = failures
                    \/ k \in {classifyError(f) : f \in Troubles} /\ failures' = failures + 1
    BY <1>6 DEF checkAgentAccess, Call, Probe
  <2>2. classifyError(e) = CASE setup.agent \in {"ours", "unset"} -> "none"
                             [] setup.agent = "foreign" /\ setup.key = "agent" -> "auth"
                             [] OTHER -> "not_found"
    BY Classified
  <2> HIDE DEF e
  <2>3. /\ failures' = failures \/ failures' = failures + 1
        /\ \/ k = "transient" /\ failures' > 0
           \/ (k = "auth" /\ setup.agent = "foreign") \/ (k \in {"auth", "not_found"} /\ denied)
           \/ k = "not_found" /\ setup.agent \in {"gone", "foreign"}
           \/ k = "none" /\ setup.agent \in {"ours", "unset"}
    BY <1>2, <2>1, <2>2, CallKinds
  <2> DEFINE r == out(k)
  <2>4. r \in Outcomes /\ r.class = (IF k = "not_found" THEN "config" ELSE k) /\ r # Warn
    BY <2>3, OutcomeFacts
  <2> HIDE DEF r, out
  <2>5. Add({r}, "domains")
    BY <2>1 DEF r
  <2>6. Warranted(r)
    BY <2>3, <2>4, PartSets, Causes DEF Warranted, PartNames
  <2>7. r.class = "none" => Judges({r}, "agent")
    BY <2>3, <2>4, PartSets DEF Judges
  <2> DEFINE Q == {"agent"}
  <2>8. Judged("domains") \subseteq Judged(pc) \union Q
    BY <1>3
  <2>9. r.class = "none" => \A p \in Q : Judges({r}, p)
    BY <2>7
  <2>10. pc \notin {"start", "config", "reachability", "auth", "done"}
    BY <1>1
  <2> HIDE DEF Q
  <2> QED
    BY <1>1, <1>2, <2>3, <2>4, <2>5, <2>6, <2>8, <2>9, <2>10, OneOutcome
<1> QED
  BY <1>5, <1>6

\* checkDomains.
LEMMA DomainsStep ==
  ASSUME Inv, checkDomains
  PROVE  Inv'
<1> DEFINE e == IF setup.asked = "unknown" THEN NotFound ELSE Ok
           lookup == (setup.asked # "all")
           R == {"ownership", "mx", "dkim", "mailFrom", "spf", "dmarc", "sending"}
           Q == {"asked", "domains"} \union R
<1>1. pc = "domains" /\ Quiet /\ UNCHANGED ctxVars
  BY DEF checkDomains
<1>2. /\ "mcp" \in Steps \ {"start", "done"} /\ "ownership" \in Steps \ {"start", "done"} /\ failures \in Nat
      /\ setup["asked"] \in {"all", "registered", "unknown"} /\ setup["domains"] \in {"none", "some", "tooMany"}
  BY SetupValues DEF Inv, DoctorTypes, Steps
<1>3. Judged("mcp") \subseteq Judged(pc) \union Q /\ Judged("ownership") \subseteq Judged(pc) \union {"asked", "domains"}
  BY <1>1, JudgedSteps
<1>4. CASE ~account \/ setup.key = "agent"
  <2>1. Add({Skip}, "mcp") /\ failures' = failures
    BY <1>4 DEF checkDomains
  <2>2. account => \A p \in Q : Judges({Skip}, p)
    BY <1>4, Visibility DEF Judges
  <2>3. {Skip} \subseteq Outcomes /\ (\A r \in {Skip} : Warranted(r))
    BY OutcomeFacts DEF Warranted
  <2> HIDE DEF Q
  <2> QED
    BY <1>1, <1>2, <1>3, <2>1, <2>2, <2>3, RecordedLater
<1>5. CASE ~(~account \/ setup.key = "agent")
  <2>1. PICK k : /\ Registered(k)
                 /\ \/ k \in {classifyError(a) : a \in Answers(e, lookup)} /\ failures' = failures
                    \/ k \in {classifyError(f) : f \in Troubles} /\ failures' = failures + 1
    BY <1>5 DEF checkDomains, Call, Probe
  <2>2. classifyError(e) = IF setup.asked = "unknown" THEN "not_found" ELSE "none"
    BY Classified
  <2> HIDE DEF e
  <2>3. failures' = failures \/ failures' = failures + 1
    BY <1>2, <2>1, CallKinds
  <2>4. \/ k = "transient" /\ failures' > 0
        \/ k \in {"auth", "not_found"} /\ denied
        \/ k = "not_found" /\ setup.asked = "unknown"
        \/ k = "none" /\ setup.asked # "unknown"
    BY <1>2, <2>1, <2>2, CallKinds
  <2>5. CASE k # "none"
    <3> DEFINE r == Fail(IF k = "transient" THEN k ELSE "config")
    <3>1. Add({r}, "mcp")
      BY <2>1, <2>5 DEF Registered
    <3>2. r \in Outcomes /\ r.class = (IF k = "transient" THEN k ELSE "config")
      BY OutcomeFacts
    <3> HIDE DEF r, Q
    <3>3. Warranted(r) /\ r.class # "none"
      BY <2>4, <2>5, <3>2, PartSets, Causes DEF Warranted, PartNames
    <3>4. account /\ r.class = "none" => \A p \in Q : Judges({r}, p)
      BY <3>3
    <3> QED
      BY <1>1, <1>2, <1>3, <2>3, <3>1, <3>2, <3>3, <3>4, OneOutcome
  <2>6. CASE k = "none" /\ setup.asked = "all" /\ setup.domains = "none"
    <3>1. Add({Skip}, "mcp")
      BY <2>1, <2>6 DEF Registered
    <3>2. \A p \in Q : Judges({Skip}, p)
      <4>1. \A p \in R : Judges({Skip}, p)
        BY <2>6, Visibility DEF Judges
      <4>2. Judges({Skip}, "asked") /\ Judges({Skip}, "domains")
        BY <2>6, PartSets DEF Judges
      <4> QED
        BY <4>1, <4>2
    <3>3. {Skip} \subseteq Outcomes /\ (\A r \in {Skip} : Warranted(r))
      BY OutcomeFacts DEF Warranted
    <3> HIDE DEF Q
    <3> QED
      BY <1>1, <1>2, <1>3, <2>3, <3>1, <3>2, <3>3, RecordedLater
  <2>7. CASE k = "none" /\ ~(setup.asked = "all" /\ setup.domains = "none")
    <3> DEFINE O == {Pass} \union IF setup.asked = "all" /\ setup.domains = "tooMany" THEN {Warn} ELSE {}
    <3>1. Add(O, "ownership")
      BY <2>1, <2>7 DEF Registered
    <3>2. /\ O \subseteq Outcomes /\ (\A r \in O : Warranted(r))
          /\ setup.asked = "all" /\ setup.domains = "tooMany" => Warn \in O
      BY OutcomeFacts DEF Warranted
    <3> HIDE DEF O
    <3>3. Judges(O, "asked")
      BY <1>2, <2>4, <2>7, PartSets DEF Judges
    <3>4. Judges(O, "domains")
      BY <1>2, <3>2, PartSets, Visibility DEF Judges
    <3> DEFINE P == {"asked", "domains"}
    <3>5. Judged("ownership") \subseteq Judged(pc) \union P /\ \A p \in P : Judges(O, p)
      BY <1>3, <3>3, <3>4
    <3> HIDE DEF P
    <3> QED
      BY <1>1, <1>2, <2>3, <3>1, <3>2, <3>5, RecordedLater
  <2> QED
    BY <2>5, <2>6, <2>7
<1> QED
  BY <1>4, <1>5

\* The check of one DNS record.
LEMMA RecordStep ==
  ASSUME Inv, NEW p \in {"ownership", "mx", "dkim", "mailFrom", "spf"}, NEW n \in Steps \ {"start", "done"},
         CheckRecord(p, n), Judged(n) \subseteq Judged(p) \union {p}
  PROVE  Inv'
<1>1. pc = p /\ Quiet /\ UNCHANGED ctxVars
  BY DEF CheckRecord
<1>2. setup[p] \in {"published", "unprescribed", "mismatch", "missing"} /\ failures \in Nat
  BY SetupValues DEF Inv, DoctorTypes
<1>3. p \in PartNames /\ Parts[p].sound = {"published", "unprescribed"} /\ Parts[p].broken = {"mismatch", "missing"}
  BY PartSets DEF PartNames
<1>4. CASE setup[p] = "unprescribed"
  <2> DEFINE O == IF p \in {"ownership", "mx"} THEN {} ELSE {Skip}
  <2>1. Add(O, n) /\ failures' = failures
    BY <1>4 DEF CheckRecord
  <2>2. O \subseteq Outcomes /\ \A r \in O : Warranted(r)
    BY OutcomeFacts DEF Warranted
  <2> HIDE DEF O
  <2>3. Judges(O, p)
    BY <1>3, <1>4 DEF Judges
  <2> DEFINE Q == {p}
  <2>4. Judged(n) \subseteq Judged(pc) \union Q /\ \A q \in Q : Judges(O, q)
    BY <1>1, <2>3
  <2> HIDE DEF Q
  <2>5. pc \notin {"start", "config", "reachability", "auth", "done"} /\ n \in Steps \ {"start", "done"}
    BY <1>1
  <2> QED
    BY <1>1, <2>1, <2>2, <2>4, <2>5, RecordedLater
<1>5. CASE setup[p] # "unprescribed"
  <2> DEFINE out(a) == IF p \in {"mx", "mailFrom"} THEN checkMxRecord(a) ELSE checkTxtRecord(a)
  <2>1. PICK a : /\ Add({out(a)}, n)
                 /\ \/ a = setup[p] /\ failures' = failures
                    \/ a \in LookupTroubles /\ failures' = failures + 1
    BY <1>5 DEF CheckRecord, Probe
  <2> DEFINE r == out(a)
  <2>2. Add({r}, n)
    BY <2>1
  <2>3. r = CASE a = "published" -> Pass
              [] a \in {"mismatch", "missing"} -> Fail("config")
              [] OTHER -> Fail("transient")
    BY DEF checkMxRecord, checkTxtRecord
  <2> HIDE DEF r, out
  <2>4. /\ r \in Outcomes /\ (r.class = "none" => a = "published") /\ r.class # "auth"
        /\ r.class = "config" => a \in {"mismatch", "missing"}
        /\ r.class = "transient" => a \notin {"published", "mismatch", "missing"}
    BY <2>3, OutcomeFacts
  <2>5. a \notin LookupTroubles \/ a \notin {"published", "mismatch", "missing"}
    BY DEF LookupTroubles
  <2>6. Warranted(r)
    BY <1>2, <1>3, <1>5, <2>1, <2>4, <2>5, Causes DEF Warranted
  <2>7. r.class = "none" => Judges({r}, p)
    BY <1>3, <2>1, <2>4, <2>5 DEF Judges
  <2>8. failures' = failures \/ failures' = failures + 1
    BY <2>1
  <2>9. account /\ r.class = "none" => \A q \in {p} : Judges({r}, q)
    BY <2>7
  <2> QED
    BY <1>1, <2>2, <2>4, <2>6, <2>8, <2>9, OneOutcome
<1> QED
  BY <1>4, <1>5

\* checkOneDomain, record by record.
LEMMA OneDomainStep ==
  ASSUME Inv, checkOneDomain
  PROVE  Inv'
<1>1. {"ownership", "mx", "dkim", "mailFrom", "spf", "dmarc"} \subseteq Steps \ {"start", "done"}
  BY DEF Steps
<1> QED
  BY <1>1, RecordStep, JudgedSteps DEF checkOneDomain

\* The DMARC check.
LEMMA DmarcStep ==
  ASSUME Inv, CheckDmarc
  PROVE  Inv'
<1>1. pc = "dmarc" /\ Quiet /\ UNCHANGED ctxVars /\ "sending" \in Steps \ {"start", "done"}
  BY DEF CheckDmarc, Steps
<1>2. setup["dmarc"] \in {"published", "missing"} /\ failures \in Nat
  BY SetupValues DEF Inv, DoctorTypes
<1>3. PICK a : /\ Add({IF a = "published" THEN Pass ELSE Warn}, "sending")
               /\ \/ a = setup.dmarc /\ failures' = failures
                  \/ a \in LookupTroubles /\ failures' = failures + 1
  BY DEF CheckDmarc, Probe
<1> DEFINE r == IF a = "published" THEN Pass ELSE Warn
<1>4. r \in Outcomes /\ r.class = "none" /\ (r # Warn => a = "published")
  BY OutcomeFacts
<1>5. Add({r}, "sending")
  BY <1>3
<1> HIDE DEF r
<1>6. Judges({r}, "dmarc") /\ Warranted(r)
  BY <1>2, <1>3, <1>4, PartSets DEF Judges, Warranted, LookupTroubles
<1>7. Judged("sending") \subseteq Judged(pc) \union {"dmarc"}
  BY <1>1, JudgedSteps
<1>8. failures' = failures \/ failures' = failures + 1
  BY <1>3
<1>9. account /\ r.class = "none" => \A p \in {"dmarc"} : Judges({r}, p)
  BY <1>6
<1> QED
  BY <1>1, <1>4, <1>5, <1>6, <1>7, <1>8, <1>9, OneOutcome

\* The check of the sending status.
LEMMA SendingStep ==
  ASSUME Inv, CheckSending
  PROVE  Inv'
<1> DEFINE r == CASE setup.sending = "verified" -> Pass
                  [] setup.sending = "pending" -> Warn
                  [] setup.sending = "failed" -> Fail("config")
                  [] OTHER -> Skip
<1>1. /\ pc = "sending" /\ Quiet /\ UNCHANGED ctxVars /\ "mcp" \in Steps \ {"start", "done"} /\ failures' = failures
      /\ Add({r}, "mcp")
  BY DEF CheckSending, Steps
<1>2. setup["sending"] \in {"verified", "none", "pending", "failed"}
  BY SetupValues DEF Inv, DoctorTypes
<1>3. /\ r \in Outcomes /\ (r.class = "none" \/ r.class = "config")
      /\ r.class = "config" => setup.sending = "failed"
      /\ r.class = "none" => setup.sending # "failed"
      /\ r # Warn => setup.sending # "pending"
  BY <1>2, OutcomeFacts
<1> HIDE DEF r
<1>4. Warranted(r)
  BY <1>3, PartSets, Causes DEF Warranted, PartNames
<1>5. r.class = "none" => Judges({r}, "sending")
  BY <1>2, <1>3, PartSets DEF Judges
<1>6. Judged("mcp") \subseteq Judged(pc) \union {"sending"}
  BY <1>1, JudgedSteps
<1>7. account /\ r.class = "none" => \A p \in {"sending"} : Judges({r}, p)
  BY <1>5
<1> QED
  BY <1>1, <1>3, <1>4, <1>6, <1>7, OneOutcome

\* checkMcp.
LEMMA McpStep ==
  ASSUME Inv, checkMcp
  PROVE  Inv'
<1>1. /\ pc = "mcp" /\ Quiet /\ UNCHANGED ctxVars
      /\ "metadata" \in Steps \ {"start", "done"} /\ "webhooks" \in Steps \ {"start", "done"}
  BY DEF checkMcp, Steps
<1>2. setup["mcp"] \in {"routed", "unknown", "notRouted"} /\ failures \in Nat
  BY <1>1, SetupValues DEF Inv, DoctorTypes, Running
<1>3. CASE setup.mcp = "unknown"
  <2>1. Add({Skip}, "webhooks") /\ failures' = failures
    BY <1>3 DEF checkMcp
  <2>2. \A p \in {"mcp", "metadata"} : Judges({Skip}, p)
    BY <1>3, Visibility DEF Judges
  <2>3. {Skip} \subseteq Outcomes /\ (\A r \in {Skip} : Warranted(r))
    BY OutcomeFacts DEF Warranted
  <2>4. Judged("webhooks") \subseteq Judged(pc) \union {"mcp", "metadata"}
    BY <1>1, JudgedSteps
  <2> QED
    BY <1>1, <2>1, <2>2, <2>3, <2>4, RecordedLater
<1>4. CASE setup.mcp # "unknown"
  <2> DEFINE out(a) == CASE a \in {"routed", "throttled"} -> Pass
                         [] a = "notRouted" -> Fail("config")
                         [] OTHER -> Fail("transient")
             T == IF setup.mcp = "routed" THEN HttpTroubles ELSE HttpTroubles \ {"throttled"}
  <2>1. PICK a : /\ Add({out(a)}, "metadata")
                 /\ \/ a = setup.mcp /\ failures' = failures
                    \/ a \in T /\ failures' = failures + 1
    BY <1>4 DEF checkMcp, Probe
  <2>2. T \subseteq {"network", "serverError", "throttled"} /\ ("throttled" \in T => setup.mcp = "routed")
    BY DEF HttpTroubles
  <2> DEFINE r == out(a)
  <2>3. /\ r \in Outcomes /\ r.class # "auth" /\ r # Warn
        /\ r.class = "none" => a \in {"routed", "throttled"}
        /\ r.class = "config" => a = "notRouted"
        /\ r.class = "transient" => a \notin {"routed", "throttled", "notRouted"}
    BY OutcomeFacts
  <2>4. Add({r}, "metadata")
    BY <2>1
  <2> HIDE DEF r, out, T
  <2>5. r.class = "none" => Judges({r}, "mcp")
    BY <1>2, <2>1, <2>2, <2>3, PartSets DEF Judges
  <2>6. r.class = "config" => setup["mcp"] \in Parts["mcp"].broken
    BY <2>1, <2>2, <2>3, PartSets
  <2>7. r.class = "transient" => failures' > 0
    BY <1>2, <1>4, <2>1, <2>3
  <2>8. Warranted(r)
    BY <2>3, <2>6, <2>7, Causes DEF Warranted, PartNames
  <2>9. account /\ r.class = "none" => \A p \in {"mcp"} : Judges({r}, p)
    BY <2>5
  <2>10. Judged("metadata") \subseteq Judged(pc) \union {"mcp"}
    BY <1>1, JudgedSteps
  <2>11. failures' = failures \/ failures' = failures + 1
    BY <2>1
  <2> QED
    BY <1>1, <2>3, <2>4, <2>8, <2>9, <2>10, <2>11, OneOutcome
<1> QED
  BY <1>3, <1>4

\* The check of the MCP metadata.
LEMMA MetadataStep ==
  ASSUME Inv, CheckMetadata
  PROVE  Inv'
<1> DEFINE out(a) == CASE a = "advertised" -> Pass
                       [] a = "network" -> Fail("transient")
                       [] OTHER -> Warn
<1>1. pc = "metadata" /\ Quiet /\ UNCHANGED ctxVars /\ "webhooks" \in Steps \ {"start", "done"}
  BY DEF CheckMetadata, Steps
<1>2. setup["metadata"] \in {"advertised", "missing"} /\ failures \in Nat
  BY SetupValues DEF Inv, DoctorTypes
<1>3. PICK a : /\ Add({out(a)}, "webhooks")
               /\ \/ a = setup.metadata /\ failures' = failures
                  \/ a \in HttpTroubles /\ failures' = failures + 1
  BY DEF CheckMetadata, Probe
<1> DEFINE r == out(a)
<1>4. /\ r \in Outcomes /\ r.class \in {"none", "transient"}
      /\ r.class = "transient" => a = "network"
      /\ r.class = "none" /\ r # Warn => a = "advertised"
  BY OutcomeFacts
<1>5. Add({r}, "webhooks")
  BY <1>3
<1> HIDE DEF r, out
<1>6. Warranted(r)
  BY <1>2, <1>3, <1>4 DEF Warranted
<1>7. r.class = "none" => Judges({r}, "metadata")
  BY <1>2, <1>3, <1>4, PartSets DEF Judges, HttpTroubles
<1>8. Judged("webhooks") \subseteq Judged(pc) \union {"metadata"}
  BY <1>1, JudgedSteps
<1>9. account /\ r.class = "none" => \A p \in {"metadata"} : Judges({r}, p)
  BY <1>7
<1>10. failures' = failures \/ failures' = failures + 1
  BY <1>3
<1> QED
  BY <1>1, <1>4, <1>5, <1>6, <1>8, <1>9, <1>10, OneOutcome

\* checkWebhooks.
LEMMA WebhooksStep ==
  ASSUME Inv, checkWebhooks
  PROVE  Inv'
<1> DEFINE Q == {"webhooks", "webhook", "delivery"}
<1>1. /\ pc = "webhooks" /\ Quiet /\ UNCHANGED ctxVars
      /\ "smtp" \in Steps \ {"start", "done"} /\ "webhook" \in Steps \ {"start", "done"}
  BY DEF checkWebhooks, Steps
<1>2. setup["webhooks"] \in {"none", "some", "tooMany"} /\ failures \in Nat
  BY SetupValues DEF Inv, DoctorTypes
<1>3. Judged("smtp") \subseteq Judged(pc) \union Q /\ Judged("webhook") \subseteq Judged(pc) \union {"webhooks"}
  BY <1>1, JudgedSteps
<1>4. CASE ~account \/ setup.key = "agent"
  <2>1. Add({Skip}, "smtp") /\ failures' = failures
    BY <1>4 DEF checkWebhooks
  <2>2. account => \A p \in Q : Judges({Skip}, p)
    BY <1>4, Visibility DEF Judges
  <2>3. Skip \in Outcomes /\ Warranted(Skip)
    BY OutcomeFacts DEF Warranted
  <2> HIDE DEF Q
  <2> QED
    BY <1>1, <1>3, <2>1, <2>2, <2>3, OneOutcome
<1>5. CASE ~(~account \/ setup.key = "agent")
  <2>1. PICK k : /\ IF k # "none" THEN Add({Fail(IF k = "transient" THEN k ELSE "config")}, "smtp")
                    ELSE IF setup.webhooks = "none" THEN Add({Skip}, "smtp")
                    ELSE Add(IF setup.webhooks = "tooMany" THEN {Warn} ELSE {}, "webhook")
                 /\ \/ k \in {classifyError(a) : a \in Answers(Ok, FALSE)} /\ failures' = failures
                    \/ k \in {classifyError(f) : f \in Troubles} /\ failures' = failures + 1
    BY <1>5 DEF checkWebhooks, Call, Probe
  <2>2. failures' = failures \/ failures' = failures + 1
    BY <1>2, <2>1, CallKinds
  <2>3. (k = "transient" /\ failures' > 0) \/ (k \in {"auth", "not_found"} /\ denied) \/ k = "none"
    BY <1>2, <2>1, CallKinds, Classified
  <2>4. CASE k # "none"
    <3> DEFINE r == Fail(IF k = "transient" THEN k ELSE "config")
    <3>1. Add({r}, "smtp")
      BY <2>1, <2>4
    <3>2. r \in Outcomes /\ r.class = (IF k = "transient" THEN k ELSE "config")
      BY OutcomeFacts
    <3> HIDE DEF r, Q
    <3>3. Warranted(r) /\ r.class # "none"
      BY <2>3, <2>4, <3>2 DEF Warranted
    <3>4. account /\ r.class = "none" => \A p \in Q : Judges({r}, p)
      BY <3>3
    <3> QED
      BY <1>1, <1>3, <2>2, <3>1, <3>2, <3>3, <3>4, OneOutcome
  <2>5. CASE k = "none" /\ setup.webhooks = "none"
    <3>1. Add({Skip}, "smtp")
      BY <2>1, <2>5
    <3>2. \A p \in Q : Judges({Skip}, p)
      BY <2>5, Visibility DEF Judges
    <3>3. Skip \in Outcomes /\ Warranted(Skip)
      BY OutcomeFacts DEF Warranted
    <3> HIDE DEF Q
    <3> QED
      BY <1>1, <1>3, <2>2, <3>1, <3>2, <3>3, OneOutcome
  <2>6. CASE k = "none" /\ setup.webhooks # "none"
    <3> DEFINE O == IF setup.webhooks = "tooMany" THEN {Warn} ELSE {}
               P == {"webhooks"}
    <3>1. Add(O, "webhook")
      BY <2>1, <2>6
    <3>2. /\ O \subseteq Outcomes /\ (\A r \in O : Warranted(r))
          /\ setup.webhooks = "tooMany" => Warn \in O
      BY OutcomeFacts DEF Warranted
    <3> HIDE DEF O
    <3>3. Judged("webhook") \subseteq Judged(pc) \union P /\ \A p \in P : Judges(O, p)
      BY <1>2, <1>3, <3>2, PartSets DEF Judges
    <3> HIDE DEF P
    <3> QED
      BY <1>1, <2>2, <3>1, <3>2, <3>3, RecordedLater
  <2> QED
    BY <2>4, <2>5, <2>6
<1> QED
  BY <1>4, <1>5

\* checkOneWebhook.
LEMMA WebhookStep ==
  ASSUME Inv, checkOneWebhook
  PROVE  Inv'
<1> DEFINE r == CASE setup.webhook = "autoDisabled" -> Fail("config")
                  [] setup.webhook \in {"disabled", "insecure"} -> Warn
                  [] OTHER -> Pass
<1>1. /\ pc = "webhook" /\ Quiet /\ UNCHANGED ctxVars /\ "delivery" \in Steps \ {"start", "done"} /\ failures' = failures
      /\ Add({r}, "delivery")
  BY DEF checkOneWebhook, Steps
<1>2. setup["webhook"] \in {"enabled", "disabled", "insecure", "autoDisabled"}
  BY SetupValues DEF Inv, DoctorTypes
<1>3. /\ r \in Outcomes /\ (r.class = "none" \/ r.class = "config")
      /\ r.class = "config" => setup.webhook = "autoDisabled"
      /\ r.class = "none" => setup.webhook # "autoDisabled"
      /\ r # Warn => setup.webhook \notin {"disabled", "insecure"}
  BY <1>2, OutcomeFacts
<1> HIDE DEF r
<1>4. Warranted(r)
  BY <1>3, PartSets, Causes DEF Warranted, PartNames
<1>5. r.class = "none" => Judges({r}, "webhook")
  BY <1>2, <1>3, PartSets DEF Judges
<1>6. Judged("delivery") \subseteq Judged(pc) \union {"webhook"}
  BY <1>1, JudgedSteps
<1>7. account /\ r.class = "none" => \A p \in {"webhook"} : Judges({r}, p)
  BY <1>5
<1> QED
  BY <1>1, <1>3, <1>4, <1>6, <1>7, OneOutcome

\* The check of the recent deliveries.
LEMMA DeliveryStep ==
  ASSUME Inv, CheckDelivery
  PROVE  Inv'
<1> DEFINE out(k) == CASE k = "none" /\ setup.delivery = "delivered" -> Pass
                       [] k = "none" /\ setup.delivery = "none" -> Skip
                       [] k = "none" /\ setup.delivery = "failing" -> Warn
                       [] k = "transient" -> Fail(k)
                       [] OTHER -> Fail("config")
<1>1. pc = "delivery" /\ Quiet /\ UNCHANGED ctxVars /\ "smtp" \in Steps \ {"start", "done"}
  BY DEF CheckDelivery, Steps
<1>2. setup["delivery"] \in {"delivered", "none", "failing"} /\ failures \in Nat
  BY SetupValues DEF Inv, DoctorTypes
<1>3. PICK k : /\ Add({Skip, out(k)}, "smtp")
               /\ \/ k \in {classifyError(a) : a \in Answers(Ok, TRUE)} /\ failures' = failures
                  \/ k \in {classifyError(f) : f \in Troubles} /\ failures' = failures + 1
  BY DEF CheckDelivery, Call, Probe
<1>4. failures' = failures \/ failures' = failures + 1
  BY <1>2, <1>3, CallKinds
<1>5. (k = "transient" /\ failures' > 0) \/ (k \in {"auth", "not_found"} /\ denied) \/ k = "none"
  BY <1>2, <1>3, CallKinds, Classified
<1> DEFINE r == out(k)
           O == {Skip, r}
           Q == {"delivery"}
<1>6. /\ r \in Outcomes /\ r.class # "auth"
      /\ r.class = "none" => k = "none"
      /\ r.class = "transient" => k = "transient"
      /\ r.class = "config" => k \in {"auth", "not_found"}
      /\ r.class = "none" /\ r # Warn => setup.delivery # "failing"
  BY <1>2, <1>5, OutcomeFacts
<1>7. Add(O, "smtp")
  BY <1>3
<1> HIDE DEF r, out
<1>8. Warranted(r) /\ Warranted(Skip)
  BY <1>5, <1>6, OutcomeFacts DEF Warranted
<1>9. O \subseteq Outcomes /\ (\A x \in O : Warranted(x)) /\ (Warn \notin O => r # Warn)
  BY <1>6, <1>8, OutcomeFacts
<1>10. (\A x \in O : x.class = "none") => \A p \in Q : Judges(O, p)
  BY <1>2, <1>6, <1>9, PartSets DEF Judges
<1>11. Judged("smtp") \subseteq Judged(pc) \union Q
  BY <1>1, JudgedSteps
<1> HIDE DEF O, Q
<1> QED
  BY <1>1, <1>4, <1>7, <1>9, <1>10, <1>11, RecordedLater

\* checkSmtpConfig.
LEMMA SmtpStep ==
  ASSUME Inv, checkSmtpConfig
  PROVE  Inv'
<1> DEFINE r == CASE setup.smtp = "whole" -> Pass
                  [] setup.smtp = "partial" -> Warn
                  [] OTHER -> Skip
<1>1. /\ pc = "smtp" /\ Quiet /\ UNCHANGED ctxVars /\ "report" \in Steps \ {"start", "done"} /\ failures' = failures
      /\ Add({r}, "report")
  BY DEF checkSmtpConfig, Steps
<1>2. setup["smtp"] \in {"whole", "invisible", "partial"}
  BY SetupValues DEF Inv, DoctorTypes
<1>3. r \in Outcomes /\ r.class = "none" /\ (r # Warn => setup.smtp # "partial")
  BY <1>2, OutcomeFacts
<1> HIDE DEF r
<1>4. Warranted(r)
  BY <1>3 DEF Warranted
<1>5. Judges({r}, "smtp")
  BY <1>2, <1>3, PartSets DEF Judges
<1>6. Judged("report") \subseteq Judged(pc) \union {"smtp"}
  BY <1>1, JudgedSteps
<1>7. account /\ r.class = "none" => \A p \in {"smtp"} : Judges({r}, p)
  BY <1>5
<1> QED
  BY <1>1, <1>3, <1>4, <1>6, <1>7, OneOutcome

\* The run starts, or the options are refused.
LEMMA StartStep ==
  ASSUME Inv, doctor
  PROVE  Inv'
<1>1. /\ pc = "start" /\ setup' = setup /\ rec' = rec /\ denied' = denied /\ failures' = failures
      /\ reachable' = reachable /\ account' = account
  BY DEF doctor, ctxVars
<1>2. \/ setup.mcp # "malformed" /\ pc' = "config" /\ exit' = exit
      \/ pc' = "done" /\ exit' = 2
  BY DEF doctor, EXIT
<1>3. exit = NoExit
  BY <1>1 DEF Inv, Running
<1>4. DoctorTypes'
  BY <1>1, <1>2 DEF Inv, DoctorTypes, Steps
<1>5. Warrant'
  BY <1>1 DEF Inv, Warrant, Broken, Refused
<1>6. exit' \notin {0, 1, 4, 8, 9}
  BY <1>2, <1>3 DEF NoExit
<1>7. CleanBillIsEarned' /\ ExitCodeIsWarranted'
  BY <1>6 DEF CleanBillIsEarned, ExitCodeIsWarranted, EXIT
<1>8. Running'
  <2> SUFFICES ASSUME pc' = "config", setup.mcp # "malformed", exit' = NoExit PROVE Running'
    BY <1>2, <1>3 DEF Running
  <2>1. Healthy'
    BY <1>1, JudgedSteps DEF Healthy
  <2>2. Context'
    BY <1>1 DEF Context
  <2> QED
    BY <1>1, <2>1, <2>2 DEF Running
<1> QED
  BY <1>4, <1>5, <1>7, <1>8 DEF Inv

\* The verdict of a run, from the outcomes of its checks.
LEMMA ReportVerdict ==
  ASSUME Inv, buildReport
  PROVE  /\ exit' \in {0, 1, 4, 8, 9}
         /\ exit' \in {0, 8} => NoFail
         /\ exit' = 0 => Warn \notin rec
         /\ exit' = 1 => \E r \in rec : r.class = "transient"
         /\ exit' = 4 => \E r \in rec : r.class = "auth"
         /\ exit' = 9 => \E r \in rec : r.class = "config"
<1>1. exit' = CASE "auth" \in Classes -> 4
                [] "auth" \notin Classes /\ "config" \in Classes -> 9
                [] Classes \intersect {"auth", "config"} = {} /\ "transient" \in Classes -> 1
                [] OTHER -> IF Warn \in rec THEN 8 ELSE 0
  BY DEF buildReport, EXIT
<1>2. \A k : k \in Classes <=> \E r \in rec : r.class = k
  BY DEF Classes
<1>3. rec \subseteq Outcomes
  BY DEF Inv, DoctorTypes
<1>4. \A r \in rec : r.class \in {"none", "auth", "config", "transient"}
  BY <1>3, OutcomeFacts DEF Outcomes
<1>5. "auth" \notin Classes /\ "config" \notin Classes /\ "transient" \notin Classes => NoFail
  BY <1>2, <1>4 DEF NoFail
<1>6. CASE "auth" \in Classes
  <2>1. exit' = 4
    BY <1>1, <1>6
  <2> QED
    BY <1>2, <1>6, <2>1
<1>7. CASE "auth" \notin Classes /\ "config" \in Classes
  <2>1. exit' = 9
    BY <1>1, <1>7
  <2> QED
    BY <1>2, <1>7, <2>1
<1>8. CASE "auth" \notin Classes /\ "config" \notin Classes /\ "transient" \in Classes
  <2>1. exit' = 1
    BY <1>1, <1>8
  <2> QED
    BY <1>2, <1>8, <2>1
<1>9. CASE "auth" \notin Classes /\ "config" \notin Classes /\ "transient" \notin Classes
  <2>1. exit' = IF Warn \in rec THEN 8 ELSE 0
    BY <1>1, <1>9
  <2> QED
    BY <1>5, <1>9, <2>1
<1> QED
  BY <1>6, <1>7, <1>8, <1>9

\* The report.
LEMMA ReportStep ==
  ASSUME Inv, buildReport
  PROVE  Inv'
<1>1. /\ pc = "report" /\ pc' = "done" /\ setup' = setup /\ rec' = rec /\ denied' = denied /\ failures' = failures
      /\ reachable' = reachable /\ account' = account
  BY DEF buildReport, ctxVars
<1>2. Warrant /\ Healthy /\ Context /\ setup \in Setups
  BY <1>1 DEF Inv, Running, DoctorTypes
<1>3. DoctorTypes' /\ Running'
  BY <1>1 DEF Inv, DoctorTypes, Running, Steps
<1>4. Warrant'
  BY <1>1, <1>2 DEF Warrant, Broken, Refused
<1>5. \A p : Visible(p)' = Visible(p)
  BY <1>1 DEF Visible
<1>6. ASSUME NEW p \in PartNames, exit' = 8, Visible(p), p # "others"
      PROVE  setup[p] \in Parts[p].sound \union Parts[p].warn
  <2>1. p \in Judged(pc) /\ NoFail
    BY <1>1, <1>6, JudgedSteps, ReportVerdict
  <2> QED
    BY <1>2, <1>6, <2>1 DEF Healthy
<1>7. ASSUME NEW p \in PartNames, exit' = 0, Visible(p), p # "others"
      PROVE  setup[p] \in Parts[p].sound
  <2>1. p \in Judged(pc) /\ NoFail /\ Warn \notin rec
    BY <1>1, <1>7, JudgedSteps, ReportVerdict
  <2> QED
    BY <1>2, <1>7, <2>1 DEF Healthy
<1>8. exit' = 0 => ~Visible("others")
  <2> SUFFICES ASSUME exit' = 0, Visible("others") PROVE FALSE
    OBVIOUS
  <2>1. CASE setup.key = "account" /\ setup.webhooks = "tooMany"
    <3>1. Visible("webhooks")
      BY <2>1, VisibleMore
    <3>2. setup["webhooks"] \in Parts["webhooks"].sound
      BY <1>7, <3>1 DEF PartNames
    <3> QED
      BY <2>1, <3>2, PartSets
  <2>2. CASE setup.key = "account" /\ setup.asked = "all" /\ setup.domains = "tooMany"
    <3>1. Visible("domains")
      BY <2>2, VisibleMore
    <3>2. setup["domains"] \in Parts["domains"].sound
      BY <1>7, <3>1 DEF PartNames
    <3> QED
      BY <2>2, <3>2, PartSets
  <2> QED
    BY <2>1, <2>2, Visibility
<1>9. CleanBillIsEarned'
  BY <1>1, <1>5, <1>6, <1>7, <1>8, PartDomain DEF CleanBillIsEarned, EXIT
<1>10. ExitCodeIsWarranted'
  <2>1. /\ exit' = 9 => denied \/ Broken
        /\ exit' = 4 => denied \/ Refused
        /\ exit' = 1 => failures > 0
    BY <1>2, ReportVerdict DEF Warrant
  <2> QED
    BY <1>1, <2>1 DEF ExitCodeIsWarranted, Broken, Refused, EXIT
<1> QED
  BY <1>3, <1>4, <1>9, <1>10 DEF Inv

\* The API begins to refuse the key.
LEMMA DenyStep ==
  ASSUME Inv, Deny
  PROVE  Inv'
<1>1. /\ pc # "done" /\ pc' = pc /\ setup' = setup /\ rec' = rec /\ denied' = TRUE /\ failures' = failures
      /\ reachable' = reachable /\ account' = account /\ exit' = exit
  BY DEF Deny, ctxVars
<1>2. exit = NoExit
  BY <1>1 DEF Inv, Running
<1>3. DoctorTypes'
  BY <1>1 DEF Inv, DoctorTypes
<1>4. Warrant'
  BY <1>1 DEF Inv, Warrant
<1>5. CleanBillIsEarned' /\ ExitCodeIsWarranted'
  BY <1>1, <1>2 DEF CleanBillIsEarned, ExitCodeIsWarranted, EXIT, NoExit
<1>6. \A p : Visible(p)' = Visible(p)
  BY <1>1 DEF Visible
<1>7. Healthy' /\ Context'
  BY <1>1, <1>6 DEF Inv, Running, Healthy, Context, NoFail
<1>8. Running'
  BY <1>1, <1>7 DEF Inv, Running
<1> QED
  BY <1>3, <1>4, <1>5, <1>8 DEF Inv

\* A stuttering step.
LEMMA StutterStep ==
  ASSUME Inv, UNCHANGED vars
  PROVE  Inv'
<1>1. /\ pc' = pc /\ setup' = setup /\ rec' = rec /\ denied' = denied /\ failures' = failures
      /\ reachable' = reachable /\ account' = account /\ exit' = exit
  BY DEF vars, ctxVars
<1>2. \A p : Visible(p)' = Visible(p)
  BY <1>1 DEF Visible
<1>3. DoctorTypes' /\ Warrant'
  BY <1>1 DEF Inv, DoctorTypes, Warrant, Broken, Refused
<1>4. CleanBillIsEarned' /\ ExitCodeIsWarranted'
  BY <1>1, <1>2 DEF Inv, CleanBillIsEarned, ExitCodeIsWarranted
<1>5. Running'
  BY <1>1, <1>2 DEF Inv, Running, Healthy, Context, NoFail
<1> QED
  BY <1>3, <1>4, <1>5 DEF Inv

\* The invariant holds before the first check, whatever the setup.
LEMMA InitInv == AnyInit => Inv
<1> SUFFICES ASSUME AnyInit PROVE Inv
  OBVIOUS
<1>1. DoctorTypes
  BY DEF AnyInit, DoctorTypes, Steps
<1>2. Warrant
  BY DEF AnyInit, Warrant
<1>3. CleanBillIsEarned /\ ExitCodeIsWarranted
  BY DEF AnyInit, CleanBillIsEarned, ExitCodeIsWarranted, EXIT, NoExit
<1>4. Running
  BY JudgedSteps DEF AnyInit, Running, Healthy, Context
<1> QED
  BY <1>1, <1>2, <1>3, <1>4 DEF Inv
-----------------------------------------------------------------------------
(* The theorems.                                                           *)

\* The parts of the invariant hold in every state of a run of doctor, whatever
\* the setup.
THEOREM Invariant == AnySpec => []Inv
<1>1. Inv /\ [Next]_vars => Inv'
  <2> SUFFICES ASSUME Inv, [Next]_vars PROVE Inv'
    OBVIOUS
  <2>1. CASE runDoctor
    BY <2>1, ConfigStep, ReachabilityStep, AuthStep, AccessStep, DomainsStep, OneDomainStep, DmarcStep, SendingStep,
       McpStep, MetadataStep, WebhooksStep, WebhookStep, DeliveryStep, SmtpStep, ReportStep
       DEF runDoctor
  <2>2. CASE doctor
    BY <2>2, StartStep
  <2>3. CASE Deny
    BY <2>3, DenyStep
  <2>4. CASE UNCHANGED vars
    BY <2>4, StutterStep
  <2> QED
    BY <2>1, <2>2, <2>3, <2>4 DEF Next
<1> QED
  BY <1>1, InitInv, PTL DEF AnySpec

\* Exit 0 means that nothing doctor could look at deserves a warning, exit 8
\* that nothing it looked at is broken (buildReport, doctor.ts), for every
\* combination of peculiarities, any number of failed probes and a revocation.
THEOREM CleanBill == AnySpec => []CleanBillIsEarned
<1>1. Inv => CleanBillIsEarned
  BY DEF Inv
<1> QED
  BY <1>1, Invariant, PTL

\* Exits 4 and 9 are never the result of probes that merely failed and exit 1
\* only of such, for every combination of peculiarities.
THEOREM Warrants == AnySpec => []ExitCodeIsWarranted
<1>1. Inv => ExitCodeIsWarranted
  BY DEF Inv
<1> QED
  BY <1>1, Invariant, PTL

\* The usual setup is one of them.
LEMMA UsualSetup == Usual \in [DOMAIN Parts -> UNION {Values(p) : p \in DOMAIN Parts}] /\ \A p \in DOMAIN Parts : Usual[p] \in Values(p)
<1>1. \A p : Parts[p].sound \subseteq Values(p)
  BY DEF Values
<1>2. \A p \in {"ownership", "mx", "dkim", "mailFrom", "spf"} : Usual[p] \in Parts[p].sound
  BY PartSets DEF Usual
<1>3. /\ Usual["key"] \in Parts["key"].sound /\ Usual["url"] \in Parts["url"].sound
      /\ Usual["agent"] \in Parts["agent"].sound /\ Usual["asked"] \in Parts["asked"].sound
      /\ Usual["domains"] \in Parts["domains"].sound /\ Usual["dmarc"] \in Parts["dmarc"].sound
      /\ Usual["sending"] \in Parts["sending"].sound
  BY PartSets DEF Usual
<1>4. /\ Usual["mcp"] \in Parts["mcp"].sound /\ Usual["metadata"] \in Parts["metadata"].sound
      /\ Usual["webhooks"] \in Parts["webhooks"].sound /\ Usual["webhook"] \in Parts["webhook"].sound
      /\ Usual["delivery"] \in Parts["delivery"].sound /\ Usual["smtp"] \in Parts["smtp"].sound
  BY PartSets DEF Usual
<1>5. Usual["others"] \in Parts["others"].sound
  BY PartTable DEF Usual, Part
<1>6. \A p \in PartNames : Usual[p] \in Parts[p].sound
  BY <1>2, <1>3, <1>4, <1>5 DEF PartNames
<1>7. \A p \in PartNames : Usual[p] \in Values(p)
  BY <1>1, <1>6
<1>8. DOMAIN Usual = PartNames
  BY DEF Usual, PartNames
<1>9. Usual = [p \in PartNames |-> Usual[p]]
  BY <1>8 DEF Usual, PartNames
<1> QED
  BY <1>7, <1>9, PartDomain

\* The runs that TLC checks, with at most two peculiarities, are among those
\* the theorems are about.
THEOREM Wider == Spec => AnySpec
<1>1. Init => AnyInit
  <2> SUFFICES ASSUME Init PROVE AnyInit
    OBVIOUS
  <2>1. PICK p, q \in DOMAIN Parts : \E v \in Values(p), w \in Values(q) : setup = [Usual EXCEPT ![p] = v, ![q] = w]
    BY DEF Init
  <2>2. PICK v \in Values(p), w \in Values(q) : setup = [Usual EXCEPT ![p] = v, ![q] = w]
    BY <2>1
  <2> DEFINE D == DOMAIN Parts
             V == UNION {Values(k) : k \in DOMAIN Parts}
  <2>3. v \in V /\ w \in V /\ p \in D /\ q \in D
    OBVIOUS
  <2>4. Usual \in [D -> V] /\ \A k \in D : Usual[k] \in Values(k)
    BY UsualSetup
  <2> HIDE DEF D, V
  <2>5. setup \in [D -> V]
    BY <2>2, <2>3, <2>4
  <2>6. \A k \in D : setup[k] = IF k = q THEN w ELSE IF k = p THEN v ELSE Usual[k]
    BY <2>2, <2>3, <2>4
  <2>7. \A k \in D : setup[k] \in Values(k)
    BY <2>4, <2>6
  <2>8. setup \in Setups
    BY <2>5, <2>7 DEF Setups, D, V
  <2> QED
    BY <2>8 DEF Init, AnyInit
<1> QED
  BY <1>1, PTL DEF Spec, AnySpec
=============================================================================
