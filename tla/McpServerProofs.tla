-------------------------- MODULE McpServerProofs ---------------------------
(***************************************************************************)
(* Theorems about McpServer, for any credentials, requests in flight,      *)
(* cache size, lifetimes and number of revocations.                        *)
(***************************************************************************)
EXTENDS McpServer, SequenceTheorems, WellFoundedInduction, TLAPS

\* The latest moment a request may begin and still be served as bearer b from
\* what whoami said.
Horizon(b) == revokedAt[b] + ResolveTimeout + TTL

\* A cache entry says what whoami says of its bearer and expires in time.
Entries ==
  {e \in [bearer : Bearers, value : Principals, expiresAt : Nat] :
     e.value = WhoAmI(e.bearer) /\ e.expiresAt <= now + TTL /\ e.expiresAt <= Horizon(e.bearer)}

Answers == [kind : {"none", "ok", "unauthorized"}, principal : Principals]

\* A request probes for no longer than its timer, an answer on its way was given
\* to its own bearer while that was valid or at the moment of its revocation,
\* and a request that is served has what the properties promise.
Requests ==
  {r \in [pc : {"idle", "resolving", "parsing"}, bearer : Bearers \union {NoBearer}, since : Nat,
          open : BOOLEAN, answer : Answers, principal : Principals,
          source : {"none", "cache", "whoami", "fallback"}] :
     /\ r.pc # "idle" => r.bearer \in Bearers /\ r.since <= now
     /\ r.pc = "resolving" => now <= r.since + ResolveTimeout
     /\ r.pc = "resolving" /\ r.answer.kind = "ok" =>
          r.answer.principal = WhoAmI(r.bearer) /\ r.since <= revokedAt[r.bearer]
     /\ r.pc = "parsing" =>
          r.principal = IF r.source = "fallback" THEN Fallback ELSE WhoAmI(r.bearer)
     /\ r.pc = "parsing" /\ r.source \in {"cache", "whoami"} => r.since < Horizon(r.bearer)}

Inv ==
  /\ now \in Nat /\ now <= MaxTime
  /\ revokedAt \in [Bearers -> Nat]
  /\ cache \in Seq(Entries)
  /\ req \in [Slots -> Requests]

\* The lifetimes and the cap are positive numbers.
LEMMA Times == TTL \in Nat \ {0} /\ ResolveTimeout \in Nat \ {0} /\ MaxEntries \in Nat \ {0} /\ MaxTime \in Nat \ {0}
  BY TimesAssumption

\* What a request can be served with.
LEMMA PrincipalFacts ==
  /\ NoPrincipal \in Principals /\ Fallback \in Principals
  /\ \A b \in Bearers : WhoAmI(b) \in Principals
  BY DEF Principals

\* A slot without a request satisfies the invariant at any time.
LEMMA IdleFact == Idle \in Requests
  BY PrincipalFacts DEF Idle, Requests, NoAnswer, Answers

\* A non-empty set of positions has a least one.
LEMMA MinFact ==
  ASSUME NEW I, I \subseteq Nat, I # {}
  PROVE  Min(I) \in I
<1> DEFINE R == {pair \in Nat \X Nat : pair[1] < pair[2]}
<1>1. IsWellFoundedOn(R, Nat)
  BY NatLessThanWellFounded DEF OpToRel
<1> HIDE DEF R
<1>2. PICK x \in I : \A y \in I : ~(<<y, x>> \in R)
  BY <1>1, WFMin, Zenon
<1>3. ASSUME NEW y \in I PROVE x <= y
  <2>1. <<y, x>> \notin R /\ <<y, x>> \in Nat \X Nat
    BY <1>2
  <2>2. ~(y < x)
    BY <2>1 DEF R
  <2> QED
    BY <2>2
<1> QED
  BY <1>3 DEF Min

\* The position ResolveCache finds for a bearer holds an entry of that bearer.
LEMMA IndexFact ==
  ASSUME NEW b, cache \in Seq(Entries), Index(b) # 0
  PROVE  Index(b) \in 1..Len(cache) /\ cache[Index(b)].bearer = b /\ cache[Index(b)] \in Entries
<1> DEFINE I == {i \in 1..Len(cache) : cache[i].bearer = b}
<1>1. Index(b) = IF I # {} THEN Min(I) ELSE 0
  BY Zenon DEF Index, SelectInSeq
<1>2. I \subseteq 1..Len(cache) /\ I \subseteq Nat
  OBVIOUS
<1>3. \A i \in I : cache[i].bearer = b
  OBVIOUS
<1> HIDE DEF I
<1>4. Index(b) \in I
  BY <1>1, <1>2, MinFact
<1> QED
  BY <1>2, <1>3, <1>4, ElementOfSeq

\* Dropping an entry leaves a sequence of entries.
LEMMA RemoveAtFact ==
  ASSUME NEW S, NEW s \in Seq(S), NEW i \in 1..Len(s)
  PROVE  RemoveAt(s, i) \in Seq(S)
<1>1. SubSeq(s, 1, i - 1) \in Seq(S)
  BY ElementOfSeq, SubSeqProperties
<1>2. SubSeq(s, i + 1, Len(s)) \in Seq(S)
  BY ElementOfSeq, SubSeqProperties
<1> QED
  BY <1>1, <1>2, ConcatProperties DEF RemoveAt

\* ResolveCache.get: a hit is the bearer's own principal, before its horizon.
LEMMA GetFact ==
  ASSUME NEW b \in Bearers, Inv
  PROVE  /\ get(b).cache \in Seq(Entries)
         /\ get(b).hit \in BOOLEAN
         /\ ~get(b).hit => get(b).value = NoPrincipal
         /\ get(b).hit => get(b).value = WhoAmI(b) /\ now < Horizon(b)
<1>1. CASE Index(b) = 0
  BY <1>1 DEF get, Inv
<1>2. CASE Index(b) # 0
  <2>1. Index(b) \in 1..Len(cache) /\ cache[Index(b)].bearer = b /\ cache[Index(b)] \in Entries
    BY <1>2, IndexFact DEF Inv
  <2>2. CASE cache[Index(b)].expiresAt <= now
    BY <1>2, <2>1, <2>2, RemoveAtFact DEF get, Inv
  <2>3. CASE ~(cache[Index(b)].expiresAt <= now)
    <3>1. get(b) = [hit |-> TRUE, value |-> cache[Index(b)].value, cache |-> cache]
      BY <1>2, <2>3 DEF get
    <3>2. cache[Index(b)].value = WhoAmI(b) /\ cache[Index(b)].expiresAt <= Horizon(b)
      BY <2>1 DEF Entries
    <3>3. now < Horizon(b)
      <4>1. cache[Index(b)].expiresAt \in Nat
        BY <2>1 DEF Entries
      <4>2. Horizon(b) \in Nat /\ now \in Nat
        BY Times DEF Inv, Horizon
      <4> QED
        BY <2>3, <3>2, <4>1, <4>2
    <3> QED
      BY <3>1, <3>2, <3>3 DEF Inv
  <2> QED
    BY <2>2, <2>3
<1> QED
  BY <1>1, <1>2

\* ResolveCache.set: what is stored in time leaves a good cache, evicting or not.
LEMMA SetFact ==
  ASSUME NEW b \in Bearers, Inv, now + TTL <= Horizon(b)
  PROVE  set(b, WhoAmI(b)) \in Seq(Entries)
<1> DEFINE entry == [bearer |-> b, value |-> WhoAmI(b), expiresAt |-> now + TTL]
<1>1. entry \in Entries
  BY Times, PrincipalFacts DEF Inv, Entries
<1> HIDE DEF entry
<1>2. CASE Index(b) # 0
  <2>1. [cache EXCEPT ![Index(b)] = entry] \in Seq(Entries)
    BY <1>1, <1>2, IndexFact, ExceptSeq DEF Inv
  <2> QED
    BY <1>2, <2>1 DEF set, entry
<1>3. CASE Index(b) = 0 /\ Len(cache) >= MaxEntries
  <2>1. cache # <<>>
    BY <1>3, Times DEF Inv
  <2>2. Append(Tail(cache), entry) \in Seq(Entries)
    BY <1>1, <2>1, HeadTailProperties, AppendProperties DEF Inv
  <2> QED
    BY <1>3, <2>2 DEF set, entry
<1>4. CASE Index(b) = 0 /\ ~(Len(cache) >= MaxEntries)
  <2>1. Append(cache, entry) \in Seq(Entries)
    BY <1>1, AppendProperties DEF Inv
  <2> QED
    BY <1>4, <2>1 DEF set, entry
<1> QED
  BY <1>2, <1>3, <1>4

\* Steps that leave the clock and the credentials alone need only good requests
\* and a good cache; a request is replaced by one.
LEMMA OneRequest ==
  ASSUME Inv, UNCHANGED <<now, revokedAt>>, NEW s \in Slots, NEW r \in Requests,
         req' = [req EXCEPT ![s] = r], cache' \in Seq(Entries)
  PROVE  Inv'
<1>1. Entries' = Entries /\ Requests' = Requests
  BY DEF Entries, Requests, Horizon
<1> QED
  BY <1>1 DEF Inv

\* The server starts with an empty cache and no request.
LEMMA Initial == Init => Inv
  BY Times, IdleFact, EmptySeq DEF Init, Inv, Never

\* A new request, served from the cache or starting its probe.
LEMMA PostStep ==
  ASSUME Inv, NEW s \in Slots, NEW b \in Bearers, Post(s, b)
  PROVE  Inv'
<1> DEFINE Hit == [pc |-> "parsing", bearer |-> b, since |-> now, open |-> TRUE, answer |-> NoAnswer,
                   principal |-> WhoAmI(b), source |-> "cache"]
           Miss == [pc |-> "resolving", bearer |-> b, since |-> now, open |-> TRUE, answer |-> NoAnswer,
                    principal |-> NoPrincipal, source |-> "none"]
<1>1. /\ get(b).cache \in Seq(Entries) /\ get(b).hit \in BOOLEAN
      /\ ~get(b).hit => get(b).value = NoPrincipal
      /\ get(b).hit => get(b).value = WhoAmI(b) /\ now < Horizon(b)
  BY GetFact
<1>2. cache' = get(b).cache /\ UNCHANGED <<now, revokedAt>>
  BY DEF Post, env
<1>3. NoAnswer \in Answers
  BY PrincipalFacts DEF NoAnswer, Answers
<1> DEFINE Rec == [pc |-> IF get(b).hit THEN "parsing" ELSE "resolving", bearer |-> b, since |-> now, open |-> TRUE,
                   answer |-> NoAnswer, principal |-> get(b).value, source |-> IF get(b).hit THEN "cache" ELSE "none"]
<1>4. req' = [req EXCEPT ![s] = Rec]
  BY Zenon DEF Post
<1>5. CASE get(b).hit
  <2>1. req' = [req EXCEPT ![s] = Hit]
    <3>1. Rec = Hit
      BY <1>1, <1>5
    <3> QED
      BY <1>4, <3>1, Zenon
  <2>2. Hit \in Requests
    BY <1>1, <1>3, <1>5, PrincipalFacts DEF Requests, Inv
  <2> HIDE DEF Hit
  <2> QED
    BY <1>1, <1>2, <2>1, <2>2, OneRequest
<1>6. CASE ~get(b).hit
  <2>1. req' = [req EXCEPT ![s] = Miss]
    <3>1. Rec = Miss
      BY <1>1, <1>6
    <3> QED
      BY <1>4, <3>1, Zenon
  <2>2. Miss \in Requests
    <3>1. Miss.answer.kind # "ok" /\ now \in Nat /\ now <= now + ResolveTimeout
      BY Times DEF NoAnswer, Inv
    <3> QED
      BY <1>3, <3>1, PrincipalFacts DEF Requests
  <2> HIDE DEF Miss
  <2> QED
    BY <1>1, <1>2, <2>1, <2>2, OneRequest
<1> QED
  BY <1>1, <1>5, <1>6

\* Every later step of a request.
LEMMA RequestStep ==
  ASSUME Inv, NEW s \in Slots,
         \/ AnswerWhoAmI(s) \/ Resolve(s) \/ InvalidBearer(s) \/ FallBack(s)
         \/ ParseFails(s) \/ CallTool(s) \/ Disconnect(s)
  PROVE  Inv'
<1>1. req[s] \in Requests /\ cache \in Seq(Entries)
  BY DEF Inv
<1>2. UNCHANGED <<now, revokedAt>>
  BY DEF AnswerWhoAmI, Resolve, InvalidBearer, FallBack, ParseFails, CallTool, Disconnect, env
<1>3. CASE InvalidBearer(s) \/ ParseFails(s) \/ CallTool(s)
  BY <1>1, <1>2, <1>3, IdleFact, OneRequest DEF InvalidBearer, ParseFails, CallTool, Respond
<1>4. CASE AnswerWhoAmI(s)
  <2> DEFINE a == IF Valid(req[s].bearer)
                    THEN [kind |-> "ok", principal |-> WhoAmI(req[s].bearer)]
                    ELSE [kind |-> "unauthorized", principal |-> NoPrincipal]
  <2>1. req' = [req EXCEPT ![s] = [req[s] EXCEPT !.answer = a]] /\ cache' = cache /\ req[s].pc = "resolving"
    BY <1>4 DEF AnswerWhoAmI, Inv
  <2>2. req[s].bearer \in Bearers
    BY <1>1, <2>1 DEF Requests
  <2>3. a \in Answers /\ (a.kind = "ok" => a.principal = WhoAmI(req[s].bearer) /\ now < revokedAt[req[s].bearer])
    BY <2>2, PrincipalFacts DEF Answers, Valid
  <2> HIDE DEF a
  <2>4. a.kind = "ok" => req[s].since <= revokedAt[req[s].bearer]
    BY <1>1, <2>1, <2>2, <2>3 DEF Requests, Inv
  <2>5. [req[s] EXCEPT !.answer = a] \in Requests
    BY <1>1, <2>1, <2>3, <2>4 DEF Requests
  <2> QED
    BY <1>1, <1>2, <2>1, <2>5, OneRequest
<1>5. ASSUME NEW p \in Principals, NEW source \in {"whoami", "fallback"}, Authenticated(s, p, source),
             req[s].pc = "resolving", cache' \in Seq(Entries),
             p = IF source = "fallback" THEN Fallback ELSE WhoAmI(req[s].bearer),
             source = "whoami" => req[s].since < Horizon(req[s].bearer)
      PROVE  Inv'
  <2> DEFINE r == IF ~req[s].open THEN Idle
                  ELSE [req[s] EXCEPT !.pc = "parsing", !.answer = NoAnswer, !.principal = p, !.source = source]
  <2>1. req' = [req EXCEPT ![s] = r]
    BY <1>5 DEF Authenticated, Inv
  <2>2. r \in Requests
    <3>1. CASE ~req[s].open
      BY <3>1, IdleFact
    <3>2. CASE req[s].open
      <4>1. r = [req[s] EXCEPT !.pc = "parsing", !.answer = NoAnswer, !.principal = p, !.source = source]
        BY <3>2
      <4>2. NoAnswer \in Answers /\ req[s].bearer \in Bearers
        BY <1>1, <1>5, PrincipalFacts DEF NoAnswer, Answers, Requests
      <4> HIDE DEF r
      <4>3. CASE source = "whoami"
        BY <1>1, <1>5, <4>1, <4>2, <4>3 DEF Requests
      <4>4. CASE source = "fallback"
        BY <1>1, <1>5, <4>1, <4>2, <4>4 DEF Requests
      <4> QED
        BY <1>5, <4>3, <4>4
    <3> QED
      BY <3>1, <3>2
  <2> HIDE DEF r
  <2> QED
    BY <1>2, <1>5, <2>1, <2>2, OneRequest
<1>6. CASE Resolve(s)
  <2> DEFINE b == req[s].bearer
  <2>1. /\ b \in Bearers /\ req[s].since \in Nat /\ req[s].since <= revokedAt[b]
        /\ now <= req[s].since + ResolveTimeout /\ req[s].answer.principal = WhoAmI(b)
    BY <1>1, <1>6 DEF Resolve, Requests
  <2>2. now + TTL <= Horizon(b) /\ req[s].since < Horizon(b)
    BY <2>1, Times DEF Inv, Horizon
  <2>3. cache' \in Seq(Entries)
    BY <1>6, <2>1, <2>2, SetFact DEF Resolve
  <2>4. WhoAmI(b) \in Principals
    BY <2>1, PrincipalFacts
  <2>5. Authenticated(s, WhoAmI(b), "whoami") /\ req[s].pc = "resolving"
    BY <1>6, <2>1 DEF Resolve
  <2> QED
    BY <1>5, <2>2, <2>3, <2>4, <2>5
<1>7. CASE FallBack(s)
  <2>1. Authenticated(s, Fallback, "fallback") /\ req[s].pc = "resolving" /\ cache' = cache
    BY <1>7 DEF FallBack
  <2> QED
    BY <1>1, <1>5, <2>1, PrincipalFacts
<1>8. CASE Disconnect(s)
  <2>1. req' = [req EXCEPT ![s] = [req[s] EXCEPT !.open = FALSE]] /\ cache' = cache
    BY <1>8 DEF Disconnect, Inv
  <2>2. [req[s] EXCEPT !.open = FALSE] \in Requests
    BY <1>1 DEF Requests
  <2> QED
    BY <1>1, <1>2, <2>1, <2>2, OneRequest
<1> QED
  BY <1>3, <1>4, <1>6, <1>7, <1>8

\* What is good stays good when the clock or a revocation moves on.
LEMMA MoveOn ==
  ASSUME Inv, now' \in Nat, now' <= MaxTime, revokedAt' \in [Bearers -> Nat],
         UNCHANGED <<cache, req>>, Entries \subseteq Entries',
         \A s \in Slots : req[s] \in Requests'
  PROVE  Inv'
<1>1. Seq(Entries) \subseteq Seq(Entries')
  BY SeqMonotonic
<1> QED
  BY <1>1 DEF Inv

\* A revocation brings the horizon of a bearer forward; what was answered before it
\* is still within the new one.
LEMMA RevokeStep ==
  ASSUME Inv, NEW b \in Bearers, Revoke(b)
  PROVE  Inv'
<1>1. /\ now' = now /\ revokedAt' = [revokedAt EXCEPT ![b] = now] /\ UNCHANGED <<cache, req>>
      /\ now \in Nat /\ revokedAt \in [Bearers -> Nat] /\ now <= MaxTime
  BY DEF Revoke, Inv
<1>2. revokedAt' \in [Bearers -> Nat] /\ \A c \in Bearers : revokedAt'[c] = revokedAt[c] \/ revokedAt'[c] = now
  BY <1>1
<1>3. ASSUME NEW e \in Entries PROVE e \in Entries'
  <2>1. e.bearer \in Bearers /\ e.expiresAt \in Nat /\ e.expiresAt <= now + TTL /\ e.expiresAt <= Horizon(e.bearer)
    BY DEF Entries
  <2>2. e.expiresAt <= Horizon(e.bearer)'
    BY <1>1, <1>2, <2>1, Times DEF Horizon
  <2> QED
    BY <1>1, <2>2 DEF Entries
<1>4. ASSUME NEW s \in Slots PROVE req[s] \in Requests'
  <2> DEFINE r == req[s]
  <2>1. r \in Requests
    BY DEF Inv
  <2>2. r.pc # "idle" => r.bearer \in Bearers /\ r.since \in Nat /\ r.since <= now
    BY <2>1 DEF Requests
  <2>3. r.pc = "resolving" /\ r.answer.kind = "ok" => r.since <= revokedAt'[r.bearer]
    BY <1>2, <2>1, <2>2 DEF Requests
  <2>4. r.pc = "parsing" /\ r.source \in {"cache", "whoami"} => r.since < Horizon(r.bearer)'
    <3>1. SUFFICES ASSUME r.pc = "parsing", r.source \in {"cache", "whoami"} PROVE r.since < Horizon(r.bearer)'
      OBVIOUS
    <3>2. r.since < Horizon(r.bearer)
      BY <2>1, <3>1 DEF Requests
    <3> QED
      BY <1>1, <1>2, <2>2, <3>1, <3>2, Times DEF Horizon
  <2> QED
    BY <1>1, <2>1, <2>3, <2>4 DEF Requests
<1> QED
  BY <1>1, <1>2, <1>3, <1>4, MoveOn

\* Time passes no timer of a probe that is due.
LEMMA TickStep ==
  ASSUME Inv, Tick
  PROVE  Inv'
<1>1. /\ now' = now + 1 /\ UNCHANGED <<revokedAt, cache, req>> /\ now < MaxTime
      /\ now \in Nat /\ revokedAt \in [Bearers -> Nat]
      /\ \A s \in Slots : ~Due(req[s])
  BY DEF Tick, Inv
<1>2. ASSUME NEW e \in Entries PROVE e \in Entries'
  <2>1. e.expiresAt \in Nat /\ e.expiresAt <= now + TTL
    BY DEF Entries
  <2>2. e.expiresAt <= now' + TTL
    BY <1>1, <2>1, Times
  <2> QED
    BY <1>1, <2>2 DEF Entries, Horizon
<1>3. ASSUME NEW s \in Slots PROVE req[s] \in Requests'
  <2> DEFINE r == req[s]
  <2>1. r \in Requests /\ ~Due(r)
    BY <1>1 DEF Inv
  <2>2. r.since \in Nat /\ (r.pc # "idle" => r.since <= now)
    BY <2>1 DEF Requests
  <2>3. r.pc # "idle" => r.since <= now'
    BY <1>1, <2>2
  <2>4. r.pc = "resolving" => now' <= r.since + ResolveTimeout
    BY <1>1, <2>1, <2>2, Times DEF Due
  <2> HIDE DEF r
  <2>5. r \in Requests'
    BY <1>1, <2>1, <2>3, <2>4 DEF Requests, Horizon
  <2> QED
    BY <2>5 DEF r
<1>4. now' \in Nat /\ now' <= MaxTime /\ revokedAt' \in [Bearers -> Nat]
  BY <1>1, Times
<1> QED
  BY <1>1, <1>2, <1>3, <1>4, MoveOn

\* The API's health and the shutdown touch neither the clock nor a credential.
LEMMA ProcessStep ==
  ASSUME Inv, Toggle \/ Shutdown \/ Drained \/ DrainTimeout \/ UNCHANGED vars
  PROVE  Inv'
<1>1. UNCHANGED <<now, revokedAt>>
  BY DEF Toggle, Shutdown, Drained, DrainTimeout, vars, env
<1>2. Entries' = Entries /\ Requests' = Requests
  BY <1>1 DEF Entries, Requests, Horizon
<1>3. cache' = cache \/ cache' = <<>>
  BY DEF Toggle, Shutdown, Drained, DrainTimeout, vars
<1>4. req' = req \/ req' = [s \in Slots |-> Idle]
  BY DEF Toggle, Shutdown, Drained, DrainTimeout, vars
<1> QED
  BY <1>1, <1>2, <1>3, <1>4, IdleFact, EmptySeq DEF Inv

\* The invariant the theorems rest on.
LEMMA InvHolds == Spec => []Inv
<1>1. Inv /\ [Next]_vars => Inv'
  <2> SUFFICES ASSUME Inv, [Next]_vars PROVE Inv'
    OBVIOUS
  <2>1. CASE \E s \in Slots, b \in Bearers : Post(s, b)
    BY <2>1, PostStep
  <2>2. CASE \E s \in Slots : \/ AnswerWhoAmI(s) \/ Resolve(s) \/ InvalidBearer(s) \/ FallBack(s)
                             \/ ParseFails(s) \/ CallTool(s) \/ Disconnect(s)
    BY <2>2, RequestStep
  <2>3. CASE \E b \in Bearers : Revoke(b)
    BY <2>3, RevokeStep
  <2>4. CASE Tick
    BY <2>4, TickStep
  <2>5. CASE Toggle \/ Shutdown \/ Drained \/ DrainTimeout \/ UNCHANGED vars
    BY <2>5, ProcessStep
  <2> QED
    BY <2>1, <2>2, <2>3, <2>4, <2>5, Zenon DEF Next
<1> QED
  BY <1>1, Initial, PTL DEF Spec

\* Whatever hits, evictions, late answers and failures interleave, a request is
\* served with its own credential's scope and inbox, or with the fallback when
\* its own probe failed (authenticateClient, resolvePrincipal, ResolveCache).
THEOREM TierIsAlwaysTheCredentials == Spec => []TierIsTheCredentials
<1>1. Inv => TierIsTheCredentials
  BY DEF Inv, Requests, TierIsTheCredentials
<1> QED
  BY <1>1, InvHolds, PTL

\* A revoked credential is served from earlier answers for less than one probe
\* and one cache lifetime, whatever their lengths (resolveTimeoutMs,
\* resolveCacheTtlMs).
THEOREM RevocationAlwaysTakesHold == Spec => []RevocationTakesHold
<1>1. Inv => RevocationTakesHold
  BY DEF Inv, Requests, RevocationTakesHold, Horizon
<1> QED
  BY <1>1, InvHolds, PTL
-----------------------------------------------------------------------------
(* The cache never outgrows its cap nor holds two entries of one bearer.   *)

\* No two entries of c are about the same bearer.
OnePerBearer(c) == \A i, j \in 1..Len(c) : c[i].bearer = c[j].bearer => i = j

CacheInv ==
  /\ phase \in {"open", "draining", "stopped"} /\ healthy \in BOOLEAN
  /\ revokedAt \in [Bearers -> 0..Never]
  /\ Len(cache) <= MaxEntries /\ OnePerBearer(cache)
  /\ \A s \in Slots : req[s].since \in 0..now

\* The bearer ResolveCache does not find has no entry.
LEMMA NoIndex ==
  ASSUME NEW b, Index(b) = 0
  PROVE  \A i \in 1..Len(cache) : cache[i].bearer # b
<1> DEFINE I == {i \in 1..Len(cache) : cache[i].bearer = b}
<1>1. Index(b) = IF I # {} THEN Min(I) ELSE 0
  BY Zenon DEF Index, SelectInSeq
<1>2. I \subseteq Nat /\ 0 \notin I
  OBVIOUS
<1>3. (I = {}) => \A i \in 1..Len(cache) : cache[i].bearer # b
  OBVIOUS
<1> HIDE DEF I
<1>4. I = {}
  BY <1>1, <1>2, MinFact
<1> QED
  BY <1>3, <1>4

\* What is left when one entry is dropped.
LEMMA RemoveAtEntries ==
  ASSUME NEW S, NEW c \in Seq(S), NEW i \in 1..Len(c), OnePerBearer(c)
  PROVE  Len(RemoveAt(c, i)) = Len(c) - 1 /\ OnePerBearer(RemoveAt(c, i))
<1> DEFINE a == SubSeq(c, 1, i - 1)
           d == SubSeq(c, i + 1, Len(c))
           r == RemoveAt(c, i)
<1>0. Len(c) \in Nat /\ i \in Nat /\ i >= 1 /\ i <= Len(c)
  OBVIOUS
<1>1. a \in Seq(S) /\ Len(a) = i - 1 /\ \A j \in 1..(i - 1) : a[j] = c[j]
  BY <1>0, ElementOfSeq, SubSeqProperties
<1>2. d \in Seq(S) /\ Len(d) = Len(c) - i /\ \A j \in 1..(Len(c) - i) : d[j] = c[i + j]
  BY <1>0, ElementOfSeq, SubSeqProperties
<1>3. r = a \o d
  BY DEF RemoveAt
<1> HIDE DEF a, d, r
<1>4. /\ Len(r) = Len(c) - 1
      /\ \A j \in 1..(Len(c) - 1) : r[j] = IF j <= i - 1 THEN a[j] ELSE d[j - (i - 1)]
  <2>1. /\ Len(r) = Len(a) + Len(d)
        /\ \A j \in 1..(Len(a) + Len(d)) : r[j] = IF j <= Len(a) THEN a[j] ELSE d[j - Len(a)]
    BY <1>1, <1>2, <1>3, ConcatProperties
  <2>2. Len(a) = i - 1 /\ Len(a) + Len(d) = Len(c) - 1
    BY <1>0, <1>1, <1>2
  <2> QED
    BY <2>1, <2>2
<1>5. \A j \in 1..(Len(c) - 1) : r[j] = IF j <= i - 1 THEN c[j] ELSE c[j + 1]
  <2> TAKE j \in 1..(Len(c) - 1)
  <2>1. CASE j <= i - 1
    BY <1>0, <1>1, <1>4, <2>1
  <2>2. CASE ~(j <= i - 1)
    <3>1. j - (i - 1) \in 1..(Len(c) - i) /\ i + (j - (i - 1)) = j + 1
      BY <1>0, <2>2
    <3>2. r[j] = d[j - (i - 1)]
      BY <1>4, <2>2
    <3>3. d[j - (i - 1)] = c[i + (j - (i - 1))]
      BY <1>2, <3>1
    <3> QED
      BY <2>2, <3>1, <3>2, <3>3
  <2> QED
    BY <2>1, <2>2
<1>6. OnePerBearer(r)
  <2> SUFFICES ASSUME NEW j \in 1..(Len(c) - 1), NEW k \in 1..(Len(c) - 1), r[j].bearer = r[k].bearer
               PROVE  j = k
    BY <1>4 DEF OnePerBearer
  <2> DEFINE x == IF j <= i - 1 THEN j ELSE j + 1
             y == IF k <= i - 1 THEN k ELSE k + 1
  <2>1. x \in 1..Len(c) /\ y \in 1..Len(c) /\ r[j] = c[x] /\ r[k] = c[y]
    BY <1>0, <1>5
  <2>2. x = y
    BY <2>1 DEF OnePerBearer
  <2> QED
    BY <1>0, <2>2
<1> QED
  BY <1>4, <1>6 DEF r

\* ResolveCache.get adds nothing.
LEMMA GetKeepsCap ==
  ASSUME Inv, CacheInv, NEW b \in Bearers
  PROVE  Len(get(b).cache) <= MaxEntries /\ OnePerBearer(get(b).cache)
<1>0. cache \in Seq(Entries) /\ Len(cache) <= MaxEntries /\ OnePerBearer(cache) /\ Len(cache) \in Nat /\ MaxEntries \in Nat
  BY Times, LenProperties DEF Inv, CacheInv
<1>1. CASE get(b).cache = cache
  BY <1>0, <1>1
<1>2. CASE Index(b) # 0 /\ get(b).cache = RemoveAt(cache, Index(b))
  <2>1. Len(get(b).cache) = Len(cache) - 1 /\ OnePerBearer(get(b).cache)
    BY <1>0, <1>2, IndexFact, RemoveAtEntries
  <2> QED
    BY <1>0, <2>1
<1> QED
  BY <1>1, <1>2 DEF get

\* ResolveCache.set makes room before it adds.
LEMMA SetKeepsCap ==
  ASSUME Inv, CacheInv, NEW b \in Bearers, NEW value
  PROVE  Len(set(b, value)) <= MaxEntries /\ OnePerBearer(set(b, value))
<1> DEFINE entry == [bearer |-> b, value |-> value, expiresAt |-> now + TTL]
           T == Entries \union {entry}
<1>0. /\ cache \in Seq(Entries) /\ Len(cache) <= MaxEntries /\ OnePerBearer(cache)
      /\ Len(cache) \in Nat /\ MaxEntries \in Nat \ {0}
  BY Times, LenProperties DEF Inv, CacheInv
<1>1. cache \in Seq(T) /\ entry \in T /\ entry.bearer = b
  BY <1>0, SeqMonotonic
<1>2. set(b, value) = IF Index(b) = 0 THEN Append(IF Len(cache) >= MaxEntries THEN Tail(cache) ELSE cache, entry)
                                      ELSE [cache EXCEPT ![Index(b)] = entry]
  BY DEF set
<1> HIDE DEF entry, T
<1>3. CASE Index(b) # 0
  <2>1. Index(b) \in 1..Len(cache) /\ cache[Index(b)].bearer = b
    BY <1>0, <1>3, IndexFact
  <2> DEFINE c == [cache EXCEPT ![Index(b)] = entry]
  <2>2. Len(c) = Len(cache) /\ \A j \in 1..Len(cache) : c[j] = IF j = Index(b) THEN entry ELSE cache[j]
    BY <1>1, <2>1, ExceptSeq
  <2> HIDE DEF c
  <2>3. \A j \in 1..Len(cache) : c[j].bearer = cache[j].bearer
    BY <1>1, <2>1, <2>2
  <2>4. OnePerBearer(c)
    BY <1>0, <2>2, <2>3 DEF OnePerBearer
  <2>5. set(b, value) = c
    BY <1>2, <1>3 DEF c
  <2> QED
    BY <1>0, <2>2, <2>4, <2>5
<1>4. CASE Index(b) = 0
  <2>1. \A i \in 1..Len(cache) : cache[i].bearer # b
    BY <1>4, NoIndex
  <2> DEFINE room == IF Len(cache) >= MaxEntries THEN Tail(cache) ELSE cache
  <2>2. /\ room \in Seq(T) /\ Len(room) \in Nat /\ Len(room) < MaxEntries
        /\ OnePerBearer(room) /\ \A i \in 1..Len(room) : room[i].bearer # b
    <3>1. CASE Len(cache) >= MaxEntries
      <4>1. cache # <<>>
        BY <1>0, <3>1, EmptySeq
      <4>2. Tail(cache) \in Seq(T) /\ Len(Tail(cache)) = Len(cache) - 1
            /\ \A i \in 1..(Len(cache) - 1) : Tail(cache)[i] = cache[i + 1]
        BY <1>0, <1>1, <4>1, HeadTailProperties
      <4>3. OnePerBearer(Tail(cache))
        <5> SUFFICES ASSUME NEW i \in 1..(Len(cache) - 1), NEW j \in 1..(Len(cache) - 1),
                            Tail(cache)[i].bearer = Tail(cache)[j].bearer
                     PROVE  i = j
          BY <4>2 DEF OnePerBearer
        <5>1. i + 1 \in 1..Len(cache) /\ j + 1 \in 1..Len(cache) /\ cache[i + 1].bearer = cache[j + 1].bearer
          BY <1>0, <4>2
        <5>2. i + 1 = j + 1
          BY <1>0, <5>1 DEF OnePerBearer
        <5> QED
          BY <5>2
      <4>4. \A i \in 1..(Len(cache) - 1) : Tail(cache)[i].bearer # b
        <5> TAKE i \in 1..(Len(cache) - 1)
        <5>1. i + 1 \in 1..Len(cache) /\ Tail(cache)[i] = cache[i + 1]
          BY <1>0, <4>2
        <5> QED
          BY <2>1, <5>1
      <4>5. room = Tail(cache)
        BY <3>1
      <4> HIDE DEF room
      <4> QED
        BY <1>0, <4>1, <4>2, <4>3, <4>4, <4>5
    <3>2. CASE ~(Len(cache) >= MaxEntries)
      BY <1>0, <1>1, <2>1, <3>2
    <3> QED
      BY <3>1, <3>2
  <2> DEFINE c == Append(room, entry)
  <2>3. set(b, value) = c
    BY <1>2, <1>4
  <2> HIDE DEF room
  <2>4. Len(c) = Len(room) + 1 /\ (\A i \in 1..Len(room) : c[i] = room[i]) /\ c[Len(room) + 1] = entry
    BY <1>1, <2>2, AppendProperties
  <2> HIDE DEF c
  <2>5. OnePerBearer(c)
    <3> SUFFICES ASSUME NEW i \in 1..(Len(room) + 1), NEW j \in 1..(Len(room) + 1), c[i].bearer = c[j].bearer
                 PROVE  i = j
      BY <2>4 DEF OnePerBearer
    <3>1. CASE i \in 1..Len(room) /\ j \in 1..Len(room)
      BY <2>2, <2>4, <3>1 DEF OnePerBearer
    <3>2. CASE i = Len(room) + 1 /\ j = Len(room) + 1
      BY <3>2
    <3>3. CASE i \in 1..Len(room) /\ j = Len(room) + 1
      BY <1>1, <2>2, <2>4, <3>3
    <3>4. CASE i = Len(room) + 1 /\ j \in 1..Len(room)
      BY <1>1, <2>2, <2>4, <3>4
    <3> QED
      BY <2>2, <3>1, <3>2, <3>3, <3>4
  <2> QED
    BY <1>0, <2>2, <2>3, <2>4, <2>5
<1> QED
  BY <1>3, <1>4

\* One step per action.
LEMMA CacheStep ==
  ASSUME Inv, CacheInv, [Next]_vars
  PROVE  CacheInv'
<1>0. /\ now \in Nat /\ now <= MaxTime /\ MaxTime \in Nat /\ MaxEntries \in Nat /\ req \in [Slots -> Requests]
      /\ Idle.since = 0 /\ \A s \in Slots : req[s].since \in 0..now
  BY Times DEF Inv, CacheInv, Idle
<1>same. ASSUME UNCHANGED <<phase, healthy, revokedAt, now>>,
                cache' = cache \/ (Len(cache') <= MaxEntries /\ OnePerBearer(cache')),
                \A s \in Slots : req'[s].since \in 0..now
         PROVE  CacheInv'
  <2>1. Never' = Never
    BY DEF Never
  <2> QED
    BY <1>same, <2>1 DEF CacheInv, OnePerBearer
<1>1. ASSUME NEW s \in Slots, NEW b \in Bearers, Post(s, b) PROVE CacheInv'
  <2>1. cache' = get(b).cache /\ UNCHANGED <<phase, healthy, revokedAt, now>>
    BY <1>1 DEF Post, env
  <2>2. Len(cache') <= MaxEntries /\ OnePerBearer(cache')
    BY <2>1, GetKeepsCap
  <2> DEFINE r == [pc |-> IF get(b).hit THEN "parsing" ELSE "resolving", bearer |-> b, since |-> now, open |-> TRUE,
                   answer |-> NoAnswer, principal |-> get(b).value, source |-> IF get(b).hit THEN "cache" ELSE "none"]
  <2>3. req' = [req EXCEPT ![s] = r] /\ r.since = now
    BY <1>1, Zenon DEF Post
  <2> HIDE DEF r
  <2>4. \A t \in Slots : req'[t].since \in 0..now
    BY <1>0, <2>3
  <2> QED
    BY <1>same, <2>1, <2>2, <2>4
<1>2. ASSUME NEW s \in Slots, InvalidBearer(s) \/ ParseFails(s) \/ CallTool(s) PROVE CacheInv'
  BY <1>0, <1>2, <1>same DEF InvalidBearer, ParseFails, CallTool, Respond, env
<1>3. ASSUME NEW s \in Slots, AnswerWhoAmI(s) \/ Disconnect(s) PROVE CacheInv'
  <2>1. UNCHANGED <<phase, healthy, revokedAt, now>> /\ cache' = cache
    BY <1>3 DEF AnswerWhoAmI, Disconnect, env
  <2>2. \A t \in Slots : req'[t].since = req[t].since
    BY <1>0, <1>3 DEF AnswerWhoAmI, Disconnect, Requests
  <2> QED
    BY <1>0, <1>same, <2>1, <2>2
<1>4. ASSUME NEW s \in Slots, NEW p, NEW source, Authenticated(s, p, source)
      PROVE  \A t \in Slots : req'[t].since \in 0..now
  <2> DEFINE r == IF ~req[s].open THEN Idle
                  ELSE [req[s] EXCEPT !.pc = "parsing", !.answer = NoAnswer, !.principal = p, !.source = source]
  <2>1. req' = [req EXCEPT ![s] = r]
    BY <1>0, <1>4 DEF Authenticated
  <2>2. r.since \in 0..now
    BY <1>0 DEF Requests
  <2> HIDE DEF r
  <2> QED
    BY <1>0, <2>1, <2>2
<1>5. ASSUME NEW s \in Slots, Resolve(s) PROVE CacheInv'
  <2>1. UNCHANGED <<phase, healthy, revokedAt, now>> /\ cache' = set(req[s].bearer, req[s].answer.principal)
    BY <1>5 DEF Resolve, env
  <2>2. req[s].bearer \in Bearers
    BY <1>0, <1>5 DEF Resolve, Requests
  <2>3. Len(cache') <= MaxEntries /\ OnePerBearer(cache')
    BY <2>1, <2>2, SetKeepsCap
  <2>4. \A t \in Slots : req'[t].since \in 0..now
    BY <1>4, <1>5 DEF Resolve
  <2> QED
    BY <1>same, <2>1, <2>3, <2>4
<1>6. ASSUME NEW s \in Slots, FallBack(s) PROVE CacheInv'
  <2>1. UNCHANGED <<phase, healthy, revokedAt, now>> /\ cache' = cache
    BY <1>6 DEF FallBack, env
  <2>2. \A t \in Slots : req'[t].since \in 0..now
    BY <1>4, <1>6 DEF FallBack
  <2> QED
    BY <1>same, <2>1, <2>2
<1>7. ASSUME NEW b \in Bearers, Revoke(b) PROVE CacheInv'
  <2>1. revokedAt' = [revokedAt EXCEPT ![b] = now] /\ UNCHANGED <<now, phase, healthy, cache, req>>
    BY <1>7 DEF Revoke
  <2>2. now \in 0..Never
    BY <1>0 DEF Never
  <2>3. revokedAt' \in [Bearers -> 0..Never]
    BY <2>1, <2>2 DEF CacheInv
  <2> QED
    BY <2>1, <2>3 DEF CacheInv, OnePerBearer, Never
<1>8. CASE Tick
  <2>1. now' = now + 1 /\ UNCHANGED <<phase, revokedAt, healthy, cache, req>>
    BY <1>8 DEF Tick
  <2>2. \A s \in Slots : req[s].since \in 0..now'
    BY <1>0, <2>1
  <2> QED
    BY <2>1, <2>2 DEF CacheInv, OnePerBearer, Never
<1>9. CASE Toggle
  BY <1>9 DEF Toggle, CacheInv, OnePerBearer, Never
<1>10. CASE Shutdown
  BY <1>10 DEF Shutdown, CacheInv, OnePerBearer, Never
<1>11. CASE Drained
  <2>1. cache' = <<>> /\ phase' = "stopped" /\ UNCHANGED <<now, revokedAt, healthy, req>>
    BY <1>11 DEF Drained
  <2>2. Len(cache') = 0
    BY <2>1
  <2>3. Len(cache') <= MaxEntries /\ OnePerBearer(cache')
    BY <1>0, <2>2 DEF OnePerBearer
  <2> QED
    BY <2>1, <2>3 DEF CacheInv, Never
<1>12. CASE DrainTimeout
  BY <1>0, <1>12 DEF DrainTimeout, CacheInv, OnePerBearer, Never
<1>13. CASE UNCHANGED vars
  BY <1>0, <1>13, <1>same DEF vars, env
<1> QED
  BY <1>1, <1>2, <1>3, <1>5, <1>6, <1>7, <1>8, <1>9, <1>10, <1>11, <1>12, <1>13, Zenon DEF Next

\* The cache is empty at first.
LEMMA CacheInit == Init => CacheInv
<1> SUFFICES ASSUME Init PROVE CacheInv
  OBVIOUS
<1>1. Len(cache) = 0 /\ now = 0 /\ MaxEntries \in Nat /\ MaxTime \in Nat
  BY Times DEF Init
<1>2. OnePerBearer(cache) /\ Len(cache) <= MaxEntries
  BY <1>1 DEF OnePerBearer
<1> QED
  BY <1>1, <1>2 DEF Init, CacheInv, Never, Idle

\* TypeOK: among the types, the cap of the cache and its one entry per bearer,
\* although a resolution decides about eviction long after the request that
\* missed (ResolveCache.set), for every cap.
THEOREM CacheIsAlwaysBounded == Spec => []TypeOK
<1>1. Inv /\ CacheInv => TypeOK
  <2> SUFFICES ASSUME Inv, CacheInv PROVE TypeOK
    OBVIOUS
  <2>1. cache \in Seq(Entries) /\ DOMAIN cache = 1..Len(cache)
    BY LenProperties DEF Inv
  <2>2. \A i \in DOMAIN cache : cache[i].bearer \in Bearers /\ cache[i].value \in Principals
    BY <2>1, ElementOfSeq DEF Entries
  <2>3. \A i, j \in DOMAIN cache : cache[i].bearer = cache[j].bearer => i = j
    BY <2>1 DEF CacheInv, OnePerBearer
  <2>4. now \in 0..MaxTime
    BY Times DEF Inv
  <2>5. \A s \in Slots :
          /\ req[s].pc \in {"idle", "resolving", "parsing"}
          /\ req[s].bearer \in Bearers \union {NoBearer} /\ req[s].since \in 0..now
          /\ req[s].principal \in Principals
          /\ req[s].source \in {"none", "cache", "whoami", "fallback"}
    BY DEF Inv, CacheInv, Requests
  <2> QED
    BY <2>2, <2>3, <2>4, <2>5 DEF TypeOK, CacheInv
<1>2. (Inv /\ CacheInv) /\ [Next]_vars => CacheInv'
  BY CacheStep
<1> QED
  BY <1>1, <1>2, CacheInit, InvHolds, PTL DEF Spec
-----------------------------------------------------------------------------
(* The tools.                                                              *)

\* A field of joined records is a field of one of them.
LEMMA JoinedField ==
  ASSUME NEW G
  PROVE  /\ \A g \in G : \A x \in DOMAIN g : x \in DOMAIN Joined(G)
         /\ \A x \in DOMAIN Joined(G) : \E g \in G : x \in DOMAIN g /\ Joined(G)[x] = g[x]
<1>1. DOMAIN Joined(G) = UNION {DOMAIN g : g \in G}
  BY DEF Joined
<1>2. ASSUME NEW x \in UNION {DOMAIN g : g \in G}
      PROVE  \E g \in G : x \in DOMAIN g /\ Joined(G)[x] = g[x]
  <2>1. \E g \in G : x \in DOMAIN g
    OBVIOUS
  <2> DEFINE h == CHOOSE g \in G : x \in DOMAIN g
  <2>2. h \in G /\ x \in DOMAIN h
    BY <2>1
  <2>3. Joined(G)[x] = h[x]
    BY DEF Joined
  <2> QED
    BY <2>2, <2>3
<1>3. \A g \in G : \A x \in DOMAIN g : x \in UNION {DOMAIN h : h \in G}
  OBVIOUS
<1> QED
  BY <1>1, <1>2, <1>3

\* The operations that only read.
Reads == {"getAccount", "listAgents", "getAgent", "getAgentProtection", "getMessageLifecycle",
          "listMessages", "listConversations", "getConversation", "listReviews", "getReview", "listDomains", "getDomain",
          "listWebhooks", "getWebhook", "listWebhookDeliveries", "listApiKeys", "listTemplates", "getTemplate",
          "listStarterTemplates", "getStarterTemplate", "listEvents", "getEvent"}

\* The request factory of an operation that reads builds a GET.
LEMMA ReadsAreGets == \A o \in Reads : SdkOperations[o].request.method = "GET"
<1> DEFINE Gets(f) == \A o \in DOMAIN f : o \in Reads => f[o].request.method = "GET"
           G == {PromiseAccountApi, PromiseAgentsApi, PromiseConversationsApi, PromiseDomainsApi,
                 PromiseEventsApi, PromiseMessagesApi, PromiseMetaApi,
                 PromiseReviewsApi, PromiseTemplatesApi, PromiseWebhooksApi}
<1>1. Gets(PromiseAccountApi)
  BY DEF PromiseAccountApi, ObservableAccountApi, Operation, Request, Reads, getAccount, listApiKeys
<1>2. Gets(PromiseAgentsApi)
  BY DEF PromiseAgentsApi, ObservableAgentsApi, Operation, Request, Reads, getAgent, getAgentProtection, listAgents
<1>3. Gets(PromiseConversationsApi)
  BY DEF PromiseConversationsApi, ObservableConversationsApi, Operation, Request, Reads, getConversation, listConversations
<1>4. Gets(PromiseDomainsApi)
  BY DEF PromiseDomainsApi, ObservableDomainsApi, Operation, Request, Reads, getDomain, listDomains
<1>5. Gets(PromiseEventsApi)
  BY DEF PromiseEventsApi, ObservableEventsApi, Operation, Request, Reads, getEvent, listEvents
<1>6. Gets(PromiseMessagesApi)
  BY DEF PromiseMessagesApi, ObservableMessagesApi, Operation, Request, Reads, getMessageLifecycle, listMessages
<1>7. Gets(PromiseMetaApi)
  BY DEF PromiseMetaApi, ObservableMetaApi, Operation, Request, Reads
<1>8. Gets(PromiseReviewsApi)
  BY DEF PromiseReviewsApi, ObservableReviewsApi, Operation, Request, Reads, getReview, listReviews
<1>9. Gets(PromiseTemplatesApi)
  BY DEF PromiseTemplatesApi, ObservableTemplatesApi, Operation, Request, Reads, getStarterTemplate, getTemplate, listStarterTemplates, listTemplates
<1>10. Gets(PromiseWebhooksApi)
  BY DEF PromiseWebhooksApi, ObservableWebhooksApi, Operation, Request, Reads, getWebhook, listWebhookDeliveries, listWebhooks
<1>11. \A g \in G : Gets(g)
  BY <1>1, <1>2, <1>3, <1>4, <1>5, <1>6, <1>7, <1>8, <1>9, <1>10
<1>12. Api = Joined(G)
  BY DEF Api
<1>13. \A o \in Reads : \E g \in G : o \in DOMAIN g
  <2>1. {"getAccount", "listApiKeys"} \subseteq DOMAIN PromiseAccountApi
    BY DEF PromiseAccountApi, ObservableAccountApi
  <2>2. {"getAgent", "getAgentProtection", "listAgents"} \subseteq DOMAIN PromiseAgentsApi
    BY DEF PromiseAgentsApi, ObservableAgentsApi
  <2>3. {"getConversation", "listConversations"} \subseteq DOMAIN PromiseConversationsApi
    BY DEF PromiseConversationsApi, ObservableConversationsApi
  <2>4. {"getDomain", "listDomains"} \subseteq DOMAIN PromiseDomainsApi
    BY DEF PromiseDomainsApi, ObservableDomainsApi
  <2>5. {"getEvent", "listEvents"} \subseteq DOMAIN PromiseEventsApi
    BY DEF PromiseEventsApi, ObservableEventsApi
  <2>6. {"getMessageLifecycle", "listMessages"} \subseteq DOMAIN PromiseMessagesApi
    BY DEF PromiseMessagesApi, ObservableMessagesApi
  <2>7. {"getReview", "listReviews"} \subseteq DOMAIN PromiseReviewsApi
    BY DEF PromiseReviewsApi, ObservableReviewsApi
  <2>8. {"getStarterTemplate", "getTemplate", "listStarterTemplates", "listTemplates"} \subseteq DOMAIN PromiseTemplatesApi
    BY DEF PromiseTemplatesApi, ObservableTemplatesApi
  <2>9. {"getWebhook", "listWebhookDeliveries", "listWebhooks"} \subseteq DOMAIN PromiseWebhooksApi
    BY DEF PromiseWebhooksApi, ObservableWebhooksApi
  <2> QED
    BY <2>1, <2>2, <2>3, <2>4, <2>5, <2>6, <2>7, <2>8, <2>9 DEF Reads
<1> HIDE DEF G
<1>14. \A o \in Reads : Api[o].request.method = "GET"
  <2> TAKE o \in Reads
  <2>1. o \in DOMAIN Joined(G)
    BY <1>13, JoinedField, Zenon
  <2>2. PICK g \in G : o \in DOMAIN g /\ Joined(G)[o] = g[o]
    BY <2>1, JoinedField
  <2>3. g[o].request.method = "GET"
    BY <1>11, <2>2
  <2> QED
    BY <1>12, <2>2, <2>3
<1>15. Reads \subseteq E2AClient
  BY DEF Reads, E2AClient, AgentsResource, MessagesResource, ReviewsResource, TemplatesResource, ConversationsResource,
         DomainsResource, EventsResource, WebhooksResource, AccountResource, APIKeysResource
<1> QED
  BY <1>14, <1>15 DEF SdkOperations

\* What a method of McpClient calls, where it matters below.
LEMMA MethodTable ==
  /\ \A m \in {"listAgents", "getAgent", "getMessageLifecycle", "getAttachment", "listMessages", "listConversations",
               "getConversation", "listReviews", "getReview", "listDomains", "getDomain", "listWebhooks", "getWebhook",
               "listWebhookDeliveries", "listApiKeys", "listTemplates", "getTemplate", "validateTemplate",
               "listStarterTemplates", "getStarterTemplate", "listEvents", "getEvent", "getMessage",
               "restoreMessage", "deleteMessage"} : McpClient[m] = m
  /\ McpClient["whoami"] = "getAccount" /\ McpClient["getProtection"] = "getAgentProtection"
  /\ McpClient["send"] = "sendMessage" /\ McpClient["reply"] = "replyToMessage"
  /\ McpClient["forward"] = "forwardMessage" /\ McpClient["updateMessageLabels"] = "updateMessage"
<1> DEFINE G == {AccountMethods, AgentMethods, MessageMethods, ConversationMethods, ReviewMethods,
                 DomainMethods, WebhookMethods, ApiKeyMethods, TemplateMethods, EventMethods}
           Same == {"listAgents", "getAgent", "getMessageLifecycle", "getAttachment", "listMessages", "listConversations",
                    "getConversation", "listReviews", "getReview", "listDomains", "getDomain", "listWebhooks", "getWebhook",
                    "listWebhookDeliveries", "listApiKeys", "listTemplates", "getTemplate", "validateTemplate",
                    "listStarterTemplates", "getStarterTemplate", "listEvents", "getEvent", "getMessage",
                    "restoreMessage", "deleteMessage"}
           Named == {"whoami", "getProtection", "send", "reply", "forward", "updateMessageLabels"}
           Op(m) == CASE m = "whoami" -> "getAccount"
                      [] m = "getProtection" -> "getAgentProtection"
                      [] m = "send" -> "sendMessage"
                      [] m = "reply" -> "replyToMessage"
                      [] m = "forward" -> "forwardMessage"
                      [] m = "updateMessageLabels" -> "updateMessage"
                      [] OTHER -> m
           Calls(f) == \A m \in DOMAIN f : m \in Same \union Named => f[m] = Op(m)
<1>1. Calls(AccountMethods)
  BY DEF AccountMethods
<1>2. Calls(AgentMethods)
  BY DEF AgentMethods
<1>3. Calls(MessageMethods)
  BY DEF MessageMethods
<1>4. Calls(ConversationMethods)
  BY DEF ConversationMethods
<1>5. Calls(ReviewMethods)
  BY DEF ReviewMethods
<1>6. Calls(DomainMethods)
  BY DEF DomainMethods
<1>7. Calls(WebhookMethods)
  BY DEF WebhookMethods
<1>8. Calls(ApiKeyMethods)
  BY DEF ApiKeyMethods
<1>9. Calls(TemplateMethods)
  BY DEF TemplateMethods
<1>10. Calls(EventMethods)
  BY DEF EventMethods
<1>11. \A g \in G : Calls(g)
  BY <1>1, <1>2, <1>3, <1>4, <1>5, <1>6, <1>7, <1>8, <1>9, <1>10
<1>12. \A m \in Same \union Named : \E g \in G : m \in DOMAIN g
  <2>1. "whoami" \in DOMAIN AccountMethods
    BY DEF AccountMethods
  <2>2. {"listAgents", "getAgent", "getProtection"} \subseteq DOMAIN AgentMethods
    BY DEF AgentMethods
  <2>3. {"getMessageLifecycle", "getAttachment", "listMessages", "getMessage", "restoreMessage", "deleteMessage",
         "send", "reply", "forward", "updateMessageLabels"} \subseteq DOMAIN MessageMethods
    BY DEF MessageMethods
  <2>4. {"listConversations", "getConversation"} \subseteq DOMAIN ConversationMethods
    BY DEF ConversationMethods
  <2>5. {"listReviews", "getReview"} \subseteq DOMAIN ReviewMethods
    BY DEF ReviewMethods
  <2>6. {"listDomains", "getDomain"} \subseteq DOMAIN DomainMethods
    BY DEF DomainMethods
  <2>7. {"listWebhooks", "getWebhook", "listWebhookDeliveries"} \subseteq DOMAIN WebhookMethods
    BY DEF WebhookMethods
  <2>8. "listApiKeys" \in DOMAIN ApiKeyMethods
    BY DEF ApiKeyMethods
  <2>9. {"listTemplates", "getTemplate", "validateTemplate", "listStarterTemplates", "getStarterTemplate"}
          \subseteq DOMAIN TemplateMethods
    BY DEF TemplateMethods
  <2>10. {"listEvents", "getEvent"} \subseteq DOMAIN EventMethods
    BY DEF EventMethods
  <2> QED
    BY <2>1, <2>2, <2>3, <2>4, <2>5, <2>6, <2>7, <2>8, <2>9, <2>10
<1>13. McpClient = Joined(G)
  BY DEF McpClient
<1> HIDE DEF G, Op
<1>14. \A m \in Same \union Named : McpClient[m] = Op(m)
  <2> TAKE m \in Same \union Named
  <2>1. m \in DOMAIN Joined(G)
    BY <1>12, JoinedField, Zenon
  <2>2. PICK g \in G : m \in DOMAIN g /\ Joined(G)[m] = g[m]
    BY <2>1, JoinedField
  <2>3. g[m] = Op(m)
    BY <1>11, <2>2
  <2> QED
    BY <1>13, <2>2, <2>3
<1> QED
  BY <1>14 DEF Op

\* The methods that read, and those the runtime tools call.
ReadMethods == {"whoami", "listAgents", "getAgent", "getProtection", "getMessageLifecycle", "listMessages",
                "listConversations", "getConversation", "listReviews", "getReview", "listDomains", "getDomain",
                "listWebhooks", "getWebhook", "listWebhookDeliveries", "listApiKeys", "listTemplates", "getTemplate",
                "validateTemplate", "listStarterTemplates", "getStarterTemplate", "listEvents", "getEvent"}
RuntimeMethods == {"whoami", "getAgent", "getMessageLifecycle", "getAttachment", "listMessages", "getMessage",
                   "restoreMessage", "deleteMessage", "send", "reply", "forward", "updateMessageLabels",
                   "listConversations", "getConversation"}

\* The methods of the read-only tools change nothing.
LEMMA ReadMethodsRead == \A m \in ReadMethods : ~Writes(McpClient[m])
<1>1. \A m \in ReadMethods : McpClient[m] \in Reads \union {"validateTemplate"}
  BY MethodTable DEF ReadMethods, Reads
<1>2. \A o \in Reads \union {"validateTemplate"} : ~Writes(o)
  BY ReadsAreGets DEF Writes, Reads
<1> QED
  BY <1>1, <1>2

\* What a method of the runtime tools calls is open to every principal, or to
\* the inbox it is bound to, whose address the method resolves.
Admitted(m) ==
  \/ McpClient[m] \in AnyPrincipal
  \/ McpClient[m] \in AgentScoped /\ m \in Resolved \union {"getAgent"}

\* The methods of the tools every scope is offered are open to every scope.
LEMMA RuntimeMethodsAdmitted == \A m \in RuntimeMethods : Admitted(m)
<1>1. McpClient["whoami"] \in AnyPrincipal
  BY MethodTable DEF AnyPrincipal
<1>2. \A m \in RuntimeMethods \ {"whoami"} : McpClient[m] \in AgentScoped
  BY MethodTable DEF RuntimeMethods, AgentScoped
<1>3. \A m \in RuntimeMethods \ {"whoami"} : m \in Resolved \union {"getAgent"}
  BY DEF RuntimeMethods, Resolved, MessageMethods, ConversationMethods
<1> QED
  BY <1>1, <1>2, <1>3 DEF Admitted

\* A tool that is declared read-only reads, but for the two that mark a message, and one every scope is offered calls
\* what every scope may.
Behaves(name, tool) ==
  /\ \E n \in Nat : DOMAIN tool.methods = 1..n
  /\ "readOnly" \in tool.traits /\ name \notin MarksRead => \A i \in DOMAIN tool.methods : ~Writes(McpClient[tool.methods[i]])
  /\ name \in RUNTIME_TOOLS => \A i \in DOMAIN tool.methods : Admitted(tool.methods[i])

\* A tool of one method.
LEMMA OneMethod ==
  ASSUME NEW name, NEW m, NEW traits,
         "readOnly" \in traits /\ name \notin MarksRead => m \in ReadMethods, name \in RUNTIME_TOOLS => m \in RuntimeMethods
  PROVE  Behaves(name, Tool(<<m>>, traits))
<1> DEFINE t == Tool(<<m>>, traits)
<1>1. t.traits = traits /\ t.methods = <<m>> /\ DOMAIN t.methods = {1} /\ t.methods[1] = m
  BY DEF Tool
<1> HIDE DEF t
<1>2. DOMAIN t.methods = 1..1
  BY <1>1
<1>3. \A i \in DOMAIN t.methods : t.methods[i] = m
  BY <1>1
<1>4. Behaves(name, t)
  BY <1>1, <1>2, <1>3, ReadMethodsRead, RuntimeMethodsAdmitted DEF Behaves
<1> QED
  BY <1>4 DEF t

\* Message tools.
LEMMA MessageTools == \A name \in DOMAIN registerMessageTools : Behaves(name, registerMessageTools[name])
<1>1. Behaves("send_message", send_message)
  BY OneMethod DEF send_message, ReadMethods, RuntimeMethods, RUNTIME_TOOLS
<1>2. Behaves("reply_to_message", reply_to_message)
  BY OneMethod DEF reply_to_message, ReadMethods, RuntimeMethods, RUNTIME_TOOLS
<1>3. Behaves("forward_message", forward_message)
  BY OneMethod DEF forward_message, ReadMethods, RuntimeMethods, RUNTIME_TOOLS
<1>4. Behaves("update_message_labels", update_message_labels)
  BY OneMethod DEF update_message_labels, ReadMethods, RuntimeMethods, RUNTIME_TOOLS
<1>5. Behaves("list_conversations", list_conversations)
  BY OneMethod DEF list_conversations, ReadMethods, RuntimeMethods, RUNTIME_TOOLS
<1>6. Behaves("get_conversation", get_conversation)
  BY OneMethod DEF get_conversation, ReadMethods, RuntimeMethods, RUNTIME_TOOLS
<1>7. Behaves("list_messages", list_messages)
  BY OneMethod DEF list_messages, ReadMethods, RuntimeMethods, RUNTIME_TOOLS
<1>8. Behaves("restore_message", restore_message)
  BY OneMethod DEF restore_message, ReadMethods, RuntimeMethods, RUNTIME_TOOLS
<1>9. Behaves("delete_message", delete_message)
  BY OneMethod DEF delete_message, ReadMethods, RuntimeMethods, RUNTIME_TOOLS
<1>10. Behaves("get_message", get_message)
  BY OneMethod DEF get_message, ReadMethods, RuntimeMethods, RUNTIME_TOOLS
<1>11. Behaves("get_message_lifecycle", get_message_lifecycle)
  BY OneMethod DEF get_message_lifecycle, ReadMethods, RuntimeMethods, RUNTIME_TOOLS
<1>12. Behaves("get_attachment", get_attachment)
  BY OneMethod DEF get_attachment, MarksRead, ReadMethods, RuntimeMethods, RUNTIME_TOOLS
<1> QED
  BY <1>1, <1>2, <1>3, <1>4, <1>5, <1>6, <1>7, <1>8, <1>9, <1>10, <1>11, <1>12 DEF registerMessageTools

\* Agent tools.
LEMMA AgentTools == \A name \in DOMAIN registerAgentTools : Behaves(name, registerAgentTools[name])
<1>1. Behaves("list_agents", list_agents)
  BY OneMethod DEF list_agents, ReadMethods, RuntimeMethods, RUNTIME_TOOLS
<1>2. Behaves("get_agent", get_agent)
  BY OneMethod DEF get_agent, ReadMethods, RuntimeMethods, RUNTIME_TOOLS
<1>3. Behaves("whoami", whoami)
  BY OneMethod DEF whoami, ReadMethods, RuntimeMethods, RUNTIME_TOOLS
<1>4. Behaves("create_agent", create_agent)
  BY OneMethod DEF create_agent, ReadMethods, RuntimeMethods, RUNTIME_TOOLS
<1>5. Behaves("update_agent", update_agent)
  BY OneMethod DEF update_agent, ReadMethods, RuntimeMethods, RUNTIME_TOOLS
<1>6. Behaves("get_protection", get_protection)
  BY OneMethod DEF get_protection, ReadMethods, RuntimeMethods, RUNTIME_TOOLS
<1>7. Behaves("update_protection", update_protection)
  <2> DEFINE u == update_protection
  <2>1. DOMAIN u.methods = 1..2 /\ "readOnly" \notin u.traits
    BY DEF update_protection, Tool
  <2>2. "update_protection" \notin RUNTIME_TOOLS
    BY DEF RUNTIME_TOOLS
  <2> HIDE DEF u
  <2>3. Behaves("update_protection", u)
    BY <2>1, <2>2 DEF Behaves
  <2> QED
    BY <2>3 DEF u
<1>8. Behaves("restore_agent", restore_agent)
  BY OneMethod DEF restore_agent, ReadMethods, RuntimeMethods, RUNTIME_TOOLS
<1>9. Behaves("delete_agent", delete_agent)
  BY OneMethod DEF delete_agent, ReadMethods, RuntimeMethods, RUNTIME_TOOLS
<1> QED
  BY <1>1, <1>2, <1>3, <1>4, <1>5, <1>6, <1>7, <1>8, <1>9 DEF registerAgentTools

\* Domain tools.
LEMMA DomainTools == \A name \in DOMAIN registerDomainTools : Behaves(name, registerDomainTools[name])
<1>1. Behaves("list_domains", list_domains)
  BY OneMethod DEF list_domains, ReadMethods, RuntimeMethods, RUNTIME_TOOLS
<1>2. Behaves("register_domain", register_domain)
  BY OneMethod DEF register_domain, ReadMethods, RuntimeMethods, RUNTIME_TOOLS
<1>3. Behaves("get_domain", get_domain)
  BY OneMethod DEF get_domain, ReadMethods, RuntimeMethods, RUNTIME_TOOLS
<1>4. Behaves("verify_domain", verify_domain)
  BY OneMethod DEF verify_domain, ReadMethods, RuntimeMethods, RUNTIME_TOOLS
<1>5. Behaves("delete_domain", delete_domain)
  BY OneMethod DEF delete_domain, ReadMethods, RuntimeMethods, RUNTIME_TOOLS
<1> QED
  BY <1>1, <1>2, <1>3, <1>4, <1>5 DEF registerDomainTools

\* Review tools.
LEMMA ReviewTools == \A name \in DOMAIN registerReviewTools : Behaves(name, registerReviewTools[name])
<1>1. Behaves("list_reviews", list_reviews)
  BY OneMethod DEF list_reviews, ReadMethods, RuntimeMethods, RUNTIME_TOOLS
<1>2. Behaves("get_review", get_review)
  BY OneMethod DEF get_review, ReadMethods, RuntimeMethods, RUNTIME_TOOLS
<1>3. Behaves("approve_review", approve_review)
  BY OneMethod DEF approve_review, ReadMethods, RuntimeMethods, RUNTIME_TOOLS
<1>4. Behaves("reject_review", reject_review)
  BY OneMethod DEF reject_review, ReadMethods, RuntimeMethods, RUNTIME_TOOLS
<1> QED
  BY <1>1, <1>2, <1>3, <1>4 DEF registerReviewTools

\* Webhook tools.
LEMMA WebhookTools == \A name \in DOMAIN registerWebhookTools : Behaves(name, registerWebhookTools[name])
<1>1. Behaves("list_webhooks", list_webhooks)
  BY OneMethod DEF list_webhooks, ReadMethods, RuntimeMethods, RUNTIME_TOOLS
<1>2. Behaves("get_webhook", get_webhook)
  BY OneMethod DEF get_webhook, ReadMethods, RuntimeMethods, RUNTIME_TOOLS
<1>3. Behaves("create_webhook", create_webhook)
  BY OneMethod DEF create_webhook, ReadMethods, RuntimeMethods, RUNTIME_TOOLS
<1>4. Behaves("update_webhook", update_webhook)
  BY OneMethod DEF update_webhook, ReadMethods, RuntimeMethods, RUNTIME_TOOLS
<1>5. Behaves("delete_webhook", delete_webhook)
  BY OneMethod DEF delete_webhook, ReadMethods, RuntimeMethods, RUNTIME_TOOLS
<1>6. Behaves("rotate_webhook_secret", rotate_webhook_secret)
  BY OneMethod DEF rotate_webhook_secret, ReadMethods, RuntimeMethods, RUNTIME_TOOLS
<1>7. Behaves("test_webhook", test_webhook)
  BY OneMethod DEF test_webhook, ReadMethods, RuntimeMethods, RUNTIME_TOOLS
<1>8. Behaves("list_webhook_deliveries", list_webhook_deliveries)
  BY OneMethod DEF list_webhook_deliveries, ReadMethods, RuntimeMethods, RUNTIME_TOOLS
<1> QED
  BY <1>1, <1>2, <1>3, <1>4, <1>5, <1>6, <1>7, <1>8 DEF registerWebhookTools

\* Event tools.
LEMMA EventTools == \A name \in DOMAIN registerEventTools : Behaves(name, registerEventTools[name])
<1>1. Behaves("list_events", list_events)
  BY OneMethod DEF list_events, ReadMethods, RuntimeMethods, RUNTIME_TOOLS
<1>2. Behaves("get_event", get_event)
  BY OneMethod DEF get_event, ReadMethods, RuntimeMethods, RUNTIME_TOOLS
<1>3. Behaves("redeliver_event", redeliver_event)
  BY OneMethod DEF redeliver_event, ReadMethods, RuntimeMethods, RUNTIME_TOOLS
<1> QED
  BY <1>1, <1>2, <1>3 DEF registerEventTools

\* Template tools.
LEMMA TemplateTools == \A name \in DOMAIN registerTemplateTools : Behaves(name, registerTemplateTools[name])
<1>1. Behaves("list_templates", list_templates)
  BY OneMethod DEF list_templates, ReadMethods, RuntimeMethods, RUNTIME_TOOLS
<1>2. Behaves("get_template", get_template)
  BY OneMethod DEF get_template, ReadMethods, RuntimeMethods, RUNTIME_TOOLS
<1>3. Behaves("create_template", create_template)
  BY OneMethod DEF create_template, ReadMethods, RuntimeMethods, RUNTIME_TOOLS
<1>4. Behaves("update_template", update_template)
  BY OneMethod DEF update_template, ReadMethods, RuntimeMethods, RUNTIME_TOOLS
<1>5. Behaves("delete_template", delete_template)
  BY OneMethod DEF delete_template, ReadMethods, RuntimeMethods, RUNTIME_TOOLS
<1>6. Behaves("validate_template", validate_template)
  BY OneMethod DEF validate_template, ReadMethods, RuntimeMethods, RUNTIME_TOOLS
<1>7. Behaves("list_starter_templates", list_starter_templates)
  BY OneMethod DEF list_starter_templates, ReadMethods, RuntimeMethods, RUNTIME_TOOLS
<1>8. Behaves("get_starter_template", get_starter_template)
  BY OneMethod DEF get_starter_template, ReadMethods, RuntimeMethods, RUNTIME_TOOLS
<1> QED
  BY <1>1, <1>2, <1>3, <1>4, <1>5, <1>6, <1>7, <1>8 DEF registerTemplateTools

\* Apikey tools.
LEMMA ApiKeyTools == \A name \in DOMAIN registerApiKeyTools : Behaves(name, registerApiKeyTools[name])
<1>1. Behaves("list_api_keys", list_api_keys)
  BY OneMethod DEF list_api_keys, ReadMethods, RuntimeMethods, RUNTIME_TOOLS
<1>2. Behaves("create_api_key", create_api_key)
  BY OneMethod DEF create_api_key, ReadMethods, RuntimeMethods, RUNTIME_TOOLS
<1>3. Behaves("delete_api_key", delete_api_key)
  BY OneMethod DEF delete_api_key, ReadMethods, RuntimeMethods, RUNTIME_TOOLS
<1> QED
  BY <1>1, <1>2, <1>3 DEF registerApiKeyTools

\* Legacy tools.
LEMMA LegacyTools == \A name \in DOMAIN registerLegacyTools : Behaves(name, registerLegacyTools[name])
<1>1. Behaves("send_email", send_email)
  BY OneMethod DEF send_email, ReadMethods, RuntimeMethods, RUNTIME_TOOLS
<1>2. Behaves("get_attachment_data", get_attachment_data)
  BY OneMethod DEF get_attachment_data, MarksRead, ReadMethods, RuntimeMethods, RUNTIME_TOOLS
<1>3. Behaves("list_pending_messages", list_pending_messages)
  BY OneMethod DEF list_pending_messages, ReadMethods, RuntimeMethods, RUNTIME_TOOLS
<1>4. Behaves("get_pending_message", get_pending_message)
  BY OneMethod DEF get_pending_message, ReadMethods, RuntimeMethods, RUNTIME_TOOLS
<1>5. Behaves("approve_pending_message", approve_pending_message)
  BY OneMethod DEF approve_pending_message, ReadMethods, RuntimeMethods, RUNTIME_TOOLS
<1>6. Behaves("approve_message", approve_message)
  BY OneMethod DEF approve_message, ReadMethods, RuntimeMethods, RUNTIME_TOOLS
<1>7. Behaves("reject_pending_message", reject_pending_message)
  BY OneMethod DEF reject_pending_message, ReadMethods, RuntimeMethods, RUNTIME_TOOLS
<1>8. Behaves("reject_message", reject_message)
  BY OneMethod DEF reject_message, ReadMethods, RuntimeMethods, RUNTIME_TOOLS
<1> QED
  BY <1>1, <1>2, <1>3, <1>4, <1>5, <1>6, <1>7, <1>8 DEF registerLegacyTools

\* Every registered tool.
LEMMA ToolsBehave == \A name \in DOMAIN Tools : Behaves(name, Tools[name])
<1> DEFINE G == {registerMessageTools,
                 registerAgentTools,
                 registerDomainTools,
                 registerReviewTools,
                 registerWebhookTools,
                 registerEventTools,
                 registerTemplateTools,
                 registerApiKeyTools,
                 registerLegacyTools}
<1>1. Tools = Joined(G)
  BY DEF Tools
<1>2. \A g \in G : \A name \in DOMAIN g : Behaves(name, g[name])
  BY MessageTools, AgentTools, DomainTools, ReviewTools, WebhookTools, EventTools, TemplateTools, ApiKeyTools, LegacyTools
<1> HIDE DEF G
<1> SUFFICES ASSUME NEW name \in DOMAIN Joined(G) PROVE Behaves(name, Joined(G)[name])
  BY <1>1
<1>3. PICK g \in G : name \in DOMAIN g /\ Joined(G)[name] = g[name]
  BY JoinedField
<1> QED
  BY <1>2, <1>3

\* The API forbids a call only to a credential of an inbox, for an operation it
\* may not call or an inbox that is not its own.
LEMMA ForbiddenFor ==
  ASSUME NEW b, NEW o, NEW own, Verdict(b, o, own) = "forbidden"
  PROVE  Scope[b] = "agent" /\ (o \notin AgentScoped \union AnyPrincipal \/ (o \in AgentScoped /\ ~own))
  BY DEF Verdict

\* The fields of a call's result.
LEMMA ResultFields ==
  \A c, w, r : r = [code |-> c, wrote |-> w] => r.code = c /\ r.wrote = w
  OBVIOUS

\* One call of an offered tool.
LEMMA OfferedToolWorks ==
  ASSUME NEW b, NEW p, p.pinned \in BOOLEAN, Scope[b] = "agent" => p.scope = "agent",
         NEW name \in toolNamesForScope(p.scope), NEW address \in {"own", "none"},
         NEW confirmed, NEW result, result = Run(b, Tools[name], p, address, confirmed)
  PROVE  result.code # "forbidden" /\ ("readOnly" \in Tools[name].traits /\ name \notin MarksRead => ~result.wrote)
<1> DEFINE t == Tools[name]
           own == address = "own" \/ (address = "none" /\ p.pinned)
           ops == Operations(t)
           refused == {i \in DOMAIN ops : Verdict(b, ops[i], own) # "ok"}
           done == IF refused = {} THEN DOMAIN ops ELSE 1..(Min(refused) - 1)
<1>1. name \in DOMAIN Tools /\ (Scope[b] = "agent" => name \in RUNTIME_TOOLS)
  BY TiersAssumption DEF assertToolTiersComplete, toolNamesForScope
<1>2. Behaves(name, t)
  BY <1>1, ToolsBehave
<1>3. DOMAIN ops = DOMAIN t.methods /\ \A i \in DOMAIN ops : ops[i] = McpClient[t.methods[i]]
  BY DEF Operations
<1>4. result = CASE "confirm" \in t.traits /\ ~confirmed -> [code |-> "invalid_request", wrote |-> FALSE]
                 [] resolveAddress(t, p, address) # "ok" -> [code |-> "invalid_request", wrote |-> FALSE]
                 [] OTHER -> [code |-> IF refused = {} THEN "ok" ELSE Verdict(b, ops[Min(refused)], own),
                              wrote |-> \E i \in done : Writes(ops[i])]
  BY Zenon DEF Run
<1>5. refused \subseteq DOMAIN ops
  OBVIOUS
<1> HIDE DEF t, ops, refused, own
<1>6. CASE ("confirm" \in t.traits /\ ~confirmed) \/ resolveAddress(t, p, address) # "ok"
  <2>1. result = [code |-> "invalid_request", wrote |-> FALSE]
    BY <1>4, <1>6
  <2> DEFINE C == "invalid_request"
             W == FALSE
  <2>2. result = [code |-> C, wrote |-> W]
    BY <2>1
  <2>3. result.code = C /\ result.wrote = W
    <3> HIDE DEF C, W
    <3> QED
      BY ONLY <2>2, ResultFields
  <2> QED
    BY <2>3
<1>7. CASE ~("confirm" \in t.traits /\ ~confirmed) /\ resolveAddress(t, p, address) = "ok"
  <2> DEFINE C == IF refused = {} THEN "ok" ELSE Verdict(b, ops[Min(refused)], own)
             W == \E i \in done : Writes(ops[i])
  <2>1. result = [code |-> C, wrote |-> W]
    BY <1>4, <1>7
  <2>2. result.code = C /\ result.wrote = W
    <3> HIDE DEF C, W
    <3> QED
      BY ONLY <2>1, ResultFields
  <2>3. PICK n \in Nat : DOMAIN ops = 1..n
    BY <1>2, <1>3 DEF Behaves
  <2>4. refused # {} => Min(refused) \in DOMAIN ops
    <3>1. refused \subseteq Nat
      BY <1>5, <2>3
    <3> QED
      BY <3>1, <1>5, MinFact
  <2>5. result.code # "forbidden"
    <3> SUFFICES ASSUME result.code = "forbidden" PROVE FALSE
      OBVIOUS
    <3>1. PICK i \in DOMAIN ops : Verdict(b, ops[i], own) = "forbidden"
      BY <2>2, <2>4
    <3>2. /\ Scope[b] = "agent"
          /\ ops[i] \notin AgentScoped \union AnyPrincipal \/ (ops[i] \in AgentScoped /\ ~own)
      BY <3>1, ForbiddenFor
    <3>3. i \in DOMAIN t.methods /\ ops[i] = McpClient[t.methods[i]] /\ Admitted(t.methods[i])
      BY <1>1, <1>2, <1>3, <3>2 DEF Behaves
    <3>4. ops[i] \in AgentScoped /\ ~own /\ t.methods[i] \in Resolved \union {"getAgent"}
      BY <3>2, <3>3 DEF Admitted, AgentScoped, AnyPrincipal
    <3>5. address = "none" /\ ~p.pinned
      BY <3>4 DEF own
    <3>6. resolveAddress(t, p, address) = "invalid_request"
      BY <3>3, <3>4, <3>5 DEF resolveAddress
    <3> QED
      BY <1>7, <3>6
  <2>6. ASSUME "readOnly" \in t.traits, name \notin MarksRead PROVE ~result.wrote
    <3>1. \A i \in DOMAIN ops : ~Writes(ops[i])
      BY <1>2, <1>3, <2>6 DEF Behaves
    <3>2. done \subseteq DOMAIN ops
      BY <2>3, <2>4
    <3>3. W = FALSE
      BY <3>1, <3>2
    <3> QED
      BY <2>2, <3>3
  <2>7. "readOnly" \in Tools[name].traits /\ name \notin MarksRead => ~result.wrote
    BY <2>6 DEF t
  <2> QED
    BY <2>5, <2>7
<1> QED
  BY <1>6, <1>7

\* OfferedToolsWork: whatever the credential, its scope and the state of the
\* probe, no tool of a request is refused for its scope when it names the
\* credential's own inbox or none, and a read-only one but the two that mark a
\* message read changes nothing (tiers.ts, registerTool, scope.go).
THEOREM OfferedToolsAlwaysWork == Spec => []OfferedToolsWork
<1>1. Inv => OfferedToolsWork
  <2> SUFFICES ASSUME Inv, NEW s \in Slots, req[s].pc = "parsing",
                      NEW name \in toolNamesForScope(req[s].principal.scope), NEW address \in {"own", "none"}
               PROVE  LET result == Run(req[s].bearer, Tools[name], req[s].principal, address, TRUE) IN
                      /\ result.code # "forbidden"
                      /\ "readOnly" \in Tools[name].traits /\ name \notin MarksRead => ~result.wrote
    BY DEF OfferedToolsWork
  <2> DEFINE b == req[s].bearer
             p == req[s].principal
  <2>1. b \in Bearers /\ (p = Fallback \/ p = WhoAmI(b))
    BY DEF Inv, Requests
  <2>2. p.pinned \in BOOLEAN /\ (Scope[b] = "agent" => p.scope = "agent")
    <3>1. CASE p = Fallback
      <4>1. Fallback.pinned = FALSE /\ Fallback.scope = "agent"
        BY DEF Fallback
      <4> HIDE DEF p
      <4> QED
        BY <3>1, <4>1
    <3>2. CASE p = WhoAmI(b)
      <4> DEFINE sc == Scope[b]
                 pin == sc = "agent"
                 w == [scope |-> sc, pinned |-> pin]
      <4>1. WhoAmI(b) = w
        BY DEF WhoAmI
      <4>2. w.scope = sc /\ w.pinned = pin
        <5> HIDE DEF sc, pin
        <5> QED
          BY Zenon
      <4>3. pin \in BOOLEAN
        BY Zenon
      <4>4. p = w
        BY <3>2, <4>1
      <4> HIDE DEF p, w, pin
      <4> QED
        BY <4>2, <4>3, <4>4
    <3> QED
      BY <2>1, <3>1, <3>2
  <2> DEFINE result == Run(b, Tools[name], p, address, TRUE)
  <2>3. name \in toolNamesForScope(p.scope)
    OBVIOUS
  <2> DEFINE yes == TRUE
  <2>4. result = Run(b, Tools[name], p, address, yes)
    OBVIOUS
  <2>5. result.code # "forbidden" /\ ("readOnly" \in Tools[name].traits /\ name \notin MarksRead => ~result.wrote)
    <3>1. p.pinned \in BOOLEAN
      BY <2>2
    <3>2. Scope[b] = "agent" => p.scope = "agent"
      BY <2>2
    <3>3. address \in {"own", "none"}
      OBVIOUS
    <3> HIDE DEF b, p, result, yes
    <3> QED
      BY ONLY <3>1, <3>2, <3>3, <2>3, <2>4, OfferedToolWorks
  <2> QED
    BY <2>5, Zenon
<1> QED
  BY <1>1, InvHolds, PTL
=============================================================================
