----------------------------- MODULE McpServer -----------------------------
(***************************************************************************)
(* The stateless MCP HTTP server (mcp/src/http-server.ts): each POST /mcp  *)
(* resolves its bearer to a scope through whoami, or through a cache of    *)
(* earlier answers (resolve.ts), offers the tools of that scope, and runs  *)
(* one against the API with the same bearer.  Requests interleave at every *)
(* await; credentials are revoked and the API fails meanwhile.             *)
(***************************************************************************)
EXTENDS McpTools, Sequences, SequencesExt

CONSTANTS
  Slots,            \* requests in flight
  Bearers,          \* credentials
  Scope,            \* the scope each credential was issued with
  TTL,              \* resolveCacheTtlMs
  ResolveTimeout,   \* resolveTimeoutMs
  MaxEntries,       \* resolveCacheMaxEntries
  MaxTime,          \* bound: ticks of the clock
  MaxRevoked,       \* bound: credentials revoked
  NoBearer

ASSUME ScopeAssumption == Scope \in [Bearers -> {"account", "agent"}]
ASSUME TimesAssumption == {TTL, ResolveTimeout, MaxEntries, MaxTime} \subseteq Nat \ {0}
ASSUME BearerAssumption == NoBearer \notin Bearers
ASSUME TiersAssumption == assertToolTiersComplete

VARIABLES
  now,          \* Date.now()
  phase,        \* of the process: "open", "draining" or "stopped"
  revokedAt,    \* when the API stopped accepting each bearer, Never before that
  healthy,      \* the API answers
  cache,        \* ResolveCache.map in insertion order
  req           \* each request in flight

env == <<now, phase, revokedAt, healthy>>
vars == <<env, cache, req>>

Never == MaxTime + 1
Valid(b) == now < revokedAt[b]

NoPrincipal == [scope |-> "none", pinned |-> FALSE]
Fallback == [scope |-> "agent", pinned |-> FALSE]
NoAnswer == [kind |-> "none", principal |-> NoPrincipal]
Idle == [pc |-> "idle", bearer |-> NoBearer, since |-> 0, open |-> TRUE, answer |-> NoAnswer,
         principal |-> NoPrincipal, source |-> "none"]

\* What the API answers to whoami, scope-filtered for the credential.
WhoAmI(b) == [scope |-> Scope[b], pinned |-> Scope[b] = "agent"]
-----------------------------------------------------------------------------
(* resolve.ts *)

Index(b) == SelectInSeq(cache, LAMBDA e : e.bearer = b)

\* Mutant: an entry never expires.
GetWithoutExpiry(b) ==
  LET i == Index(b) IN
  IF i = 0 THEN [hit |-> FALSE, value |-> NoPrincipal, cache |-> cache]
  ELSE [hit |-> TRUE, value |-> cache[i].value, cache |-> cache]

\* ResolveCache.get drops an expired entry as it misses it.
get(b) ==
  LET i == Index(b) IN
  IF i = 0 THEN [hit |-> FALSE, value |-> NoPrincipal, cache |-> cache]
  ELSE IF cache[i].expiresAt <= now
       THEN [hit |-> FALSE, value |-> NoPrincipal, cache |-> RemoveAt(cache, i)]
       ELSE [hit |-> TRUE, value |-> cache[i].value, cache |-> cache]

\* Mutant: room is made only when the cap has been passed.
SetPastCap(b, value) ==
  LET i == Index(b)
      entry == [bearer |-> b, value |-> value, expiresAt |-> now + TTL]
      room == IF i = 0 /\ Len(cache) > MaxEntries THEN Tail(cache) ELSE cache
  IN IF i = 0 THEN Append(room, entry) ELSE [cache EXCEPT ![i] = entry]

\* ResolveCache.set: a new key at the cap evicts the oldest one, and a key that
\* is still there keeps its place.
set(b, value) ==
  LET i == Index(b)
      entry == [bearer |-> b, value |-> value, expiresAt |-> now + TTL]
      room == IF i = 0 /\ Len(cache) >= MaxEntries THEN Tail(cache) ELSE cache
  IN IF i = 0 THEN Append(room, entry) ELSE [cache EXCEPT ![i] = entry]
-----------------------------------------------------------------------------
(* http-server.ts: a request up to the answer of authenticateClient.  The  *)
(* routes and refusals that read nothing but the request (/healthz,        *)
(* /metrics, discovery, a foreign Host, GET and DELETE, a missing bearer)  *)
(* change nothing and are no steps.                                        *)

\* The response ends the request.
Respond(s) == req' = [req EXCEPT ![s] = Idle]

\* POST /mcp with a bearer: a hit is served from the cache, a miss starts the
\* whoami probe.
Post(s, b) ==
  LET g == get(b) IN
  /\ phase = "open" /\ req[s].pc = "idle"
  /\ cache' = g.cache
  /\ req' = [req EXCEPT ![s] =
               [pc |-> IF g.hit THEN "parsing" ELSE "resolving", bearer |-> b, since |-> now, open |-> TRUE,
                answer |-> NoAnswer, principal |-> g.value, source |-> IF g.hit THEN "cache" ELSE "none"]]
  /\ UNCHANGED env

\* The API evaluates whoami; its answer travels back.
AnswerWhoAmI(s) ==
  /\ req[s].pc = "resolving" /\ req[s].answer = NoAnswer
  /\ healthy
  /\ req' = [req EXCEPT ![s].answer =
               IF Valid(req[s].bearer)
                 THEN [kind |-> "ok", principal |-> WhoAmI(req[s].bearer)]
                 ELSE [kind |-> "unauthorized", principal |-> NoPrincipal]]
  /\ UNCHANGED <<env, cache>>

\* The rest of authenticateClient: the request goes on to the parser unless its
\* client has gone.
Authenticated(s, principal, source) ==
  req' = [req EXCEPT ![s] =
            IF ~req[s].open THEN Idle
            ELSE [@ EXCEPT !.pc = "parsing", !.answer = NoAnswer, !.principal = principal, !.source = source]]

\* resolvePrincipal returned what whoami said, which is cached even when the
\* client has gone.
Resolve(s) ==
  /\ req[s].pc = "resolving" /\ req[s].answer.kind = "ok"
  /\ cache' = set(req[s].bearer, req[s].answer.principal)
  /\ Authenticated(s, req[s].answer.principal, "whoami")
  /\ UNCHANGED env

\* A 401 from whoami is answered with the challenge.
InvalidBearer(s) ==
  /\ req[s].pc = "resolving" /\ req[s].answer.kind = "unauthorized"
  /\ Respond(s)
  /\ UNCHANGED <<env, cache>>

\* Mutant: the fallback is cached like an answer.
FallBackCached(s) ==
  /\ req[s].pc = "resolving"
  /\ ~healthy \/ now >= req[s].since + ResolveTimeout
  /\ cache' = set(req[s].bearer, Fallback)
  /\ Authenticated(s, Fallback, "fallback")
  /\ UNCHANGED env

\* Any other failure of whoami, and the timer that wins the race against it,
\* serve this one request with the least scope and no inbox.
FallBack(s) ==
  /\ req[s].pc = "resolving"
  /\ ~healthy \/ now >= req[s].since + ResolveTimeout
  /\ Authenticated(s, Fallback, "fallback")
  /\ UNCHANGED <<env, cache>>
-----------------------------------------------------------------------------
(* handleAuthenticatedClientRequest: one tool call.                        *)

\* A body the parser refuses ends in the terminal error handler.
ParseFails(s) ==
  /\ req[s].pc = "parsing"
  /\ Respond(s)
  /\ UNCHANGED <<env, cache>>

Operations(tool) == [i \in DOMAIN tool.methods |-> McpClient[tool.methods[i]]]

\* The API's verdict on one operation: requirePrincipal, then the scope checks.
Verdict(b, operation, own) ==
  CASE ~healthy -> "unavailable"
    [] healthy /\ ~Valid(b) -> "unauthorized"
    [] healthy /\ Valid(b) /\ Scope[b] = "agent" /\ operation \notin AgentScoped \union AnyPrincipal -> "forbidden"
    [] healthy /\ Valid(b) /\ Scope[b] = "agent" /\ operation \in AgentScoped /\ ~own -> "forbidden"
    [] OTHER -> "ok"

\* resolveAddress: an explicit address, else the pinned inbox, else an error.
\* own says whether the inbox addressed is the credential's.
resolveAddress(tool, principal, address) ==
  CASE \A i \in DOMAIN tool.methods : tool.methods[i] \notin Resolved \union {"getAgent"} -> "ok"
    [] address # "none" -> "ok"
    [] address = "none" /\ "email" \notin tool.traits /\ principal.pinned -> "ok"
    [] OTHER -> "invalid_request"

\* runTool: a wrapper error or the first error of the API ends the call; the
\* operations before it have had their effect.
Run(b, tool, principal, address, confirmed) ==
  LET own == address = "own" \/ (address = "none" /\ principal.pinned)
      ops == Operations(tool)
      refused == {i \in DOMAIN ops : Verdict(b, ops[i], own) # "ok"}
      done == IF refused = {} THEN DOMAIN ops ELSE 1..(Min(refused) - 1)
  IN CASE "confirm" \in tool.traits /\ ~confirmed -> [code |-> "invalid_request", wrote |-> FALSE]
       [] resolveAddress(tool, principal, address) # "ok" -> [code |-> "invalid_request", wrote |-> FALSE]
       [] OTHER -> [code |-> IF refused = {} THEN "ok" ELSE Verdict(b, ops[Min(refused)], own),
                    wrote |-> \E i \in done : Writes(ops[i])]

\* buildServer registers the tools of the principal's scope and one of them runs:
\* what a call answers and changes is Run.  The response closes the transport and
\* the server.
CallTool(s) ==
  /\ req[s].pc = "parsing"
  /\ Respond(s)
  /\ UNCHANGED <<env, cache>>
-----------------------------------------------------------------------------
(* The surroundings.                                                       *)

\* A client goes away during the probe.
Disconnect(s) ==
  /\ req[s].pc = "resolving" /\ req[s].open
  /\ req' = [req EXCEPT ![s].open = FALSE]
  /\ UNCHANGED <<env, cache>>

\* An API key is deleted or a token expires; nothing revives a credential.
Revoke(b) ==
  /\ revokedAt[b] = Never
  /\ Cardinality({c \in Bearers : revokedAt[c] # Never}) < MaxRevoked
  /\ revokedAt' = [revokedAt EXCEPT ![b] = now]
  /\ UNCHANGED <<now, phase, healthy, cache, req>>

Toggle ==
  /\ healthy' = ~healthy
  /\ UNCHANGED <<now, phase, revokedAt, cache, req>>

\* The timer of a probe fires when it is due, so time does not pass it.
Due(r) == r.pc = "resolving" /\ now >= r.since + ResolveTimeout

Tick ==
  /\ now < MaxTime
  /\ \A s \in Slots : ~Due(req[s])
  /\ now' = now + 1
  /\ UNCHANGED <<phase, revokedAt, healthy, cache, req>>

\* bin/http.ts: a signal stops the listener; when the last request has ended the
\* cache is cleared and the process exits, or a timer ends it before that.
Shutdown ==
  /\ phase = "open"
  /\ phase' = "draining"
  /\ UNCHANGED <<now, revokedAt, healthy, cache, req>>

Drained ==
  /\ phase = "draining" /\ \A s \in Slots : req[s].pc = "idle"
  /\ phase' = "stopped"
  /\ cache' = <<>>
  /\ UNCHANGED <<now, revokedAt, healthy, req>>

DrainTimeout ==
  /\ phase = "draining"
  /\ phase' = "stopped"
  /\ req' = [s \in Slots |-> Idle]
  /\ UNCHANGED <<now, revokedAt, healthy, cache>>
-----------------------------------------------------------------------------
Init ==
  /\ now = 0 /\ phase = "open"
  /\ revokedAt = [b \in Bearers |-> Never]
  /\ healthy = TRUE
  /\ cache = <<>>
  /\ req = [s \in Slots |-> Idle]

Next ==
  \/ \E s \in Slots :
       \/ \E b \in Bearers : Post(s, b)
       \/ AnswerWhoAmI(s) \/ Resolve(s) \/ InvalidBearer(s) \/ FallBack(s)
       \/ ParseFails(s) \/ CallTool(s)
       \/ Disconnect(s)
  \/ \E b \in Bearers : Revoke(b)
  \/ Toggle
  \/ Tick
  \/ Shutdown \/ Drained \/ DrainTimeout

Spec == Init /\ [][Next]_vars
-----------------------------------------------------------------------------
(* Properties.                                                             *)

Principals == {NoPrincipal, Fallback} \union {WhoAmI(b) : b \in Bearers}

\* Types; the cache holds at most one entry per bearer and never more than its
\* cap, although a resolution decides about eviction long after the request that
\* missed (ResolveCache.set).
TypeOK ==
  /\ now \in 0..MaxTime /\ phase \in {"open", "draining", "stopped"}
  /\ revokedAt \in [Bearers -> 0..Never] /\ healthy \in BOOLEAN
  /\ \A i \in DOMAIN cache : cache[i].bearer \in Bearers /\ cache[i].value \in Principals
  /\ Len(cache) <= MaxEntries
  /\ \A i, j \in DOMAIN cache : cache[i].bearer = cache[j].bearer => i = j
  /\ \A s \in Slots :
       /\ req[s].pc \in {"idle", "resolving", "parsing"}
       /\ req[s].bearer \in Bearers \union {NoBearer} /\ req[s].since \in 0..now
       /\ req[s].principal \in Principals
       /\ req[s].source \in {"none", "cache", "whoami", "fallback"}

\* A request is served with the scope and the inbox of its own credential; only
\* the request whose own whoami failed is served with less (authenticateClient,
\* resolvePrincipal: the fallback "doesn't stick").
TierIsTheCredentials ==
  \A s \in Slots : req[s].pc = "parsing" =>
    req[s].principal = IF req[s].source = "fallback" THEN Fallback ELSE WhoAmI(req[s].bearer)

\* However requests, evictions and late answers interleave, a revoked credential
\* is known to the server for at most one probe and one cache lifetime
\* (resolveTimeoutMs, resolveCacheTtlMs).
RevocationTakesHold ==
  \A s \in Slots : req[s].pc = "parsing" /\ req[s].source \in {"cache", "whoami"} =>
    req[s].since < revokedAt[req[s].bearer] + ResolveTimeout + TTL

\* The tools declared read-only although they write: get_message is not, for it
\* marks the message read, and these load the message in the same way.
MarksRead == {"get_attachment", "get_attachment_data"}

\* A tool the server offers a credential is never refused by the API for the
\* credential's scope when it names the credential's own inbox or none, and one it
\* declares read-only changes nothing, except that the two attachment tools mark
\* the message read (tiers.ts, the annotations of registerTool, scope.go).
OfferedToolsWork ==
  \A s \in Slots : req[s].pc = "parsing" =>
    \A name \in toolNamesForScope(req[s].principal.scope), address \in {"own", "none"} :
      LET result == Run(req[s].bearer, Tools[name], req[s].principal, address, TRUE) IN
      /\ result.code # "forbidden"
      /\ "readOnly" \in Tools[name].traits /\ name \notin MarksRead => ~result.wrote
=============================================================================
