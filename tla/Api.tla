-------------------------------- MODULE Api --------------------------------
(***************************************************************************)
(* The HTTP interface (src/runtime/http/server.ts and its handlers): the   *)
(* hook in front of the routes, the handlers that answer with what a       *)
(* daemon says, what the routing service makes of an orchestrator, and     *)
(* what becomes of failures.                                               *)
(*                                                                         *)
(* One request at a time: requests share nothing here but the daemons.     *)
(* The stakes and observations of /api/orchs and /api/orchs/:address are   *)
(* Roster's, the audit row of a refresh is AuditTrail's.                   *)
(***************************************************************************)
EXTENDS Rpc

CONSTANTS
    Address,     \* a valid address
    Configured   \* whether SENDER_ADDRESS may be set

ASSUME ApiAssumption == Configured \subseteq BOOLEAN /\ Configured # {}

VARIABLE request  \* the last request: what it asked, and how far it is

vars == <<rpcVars, request>>

Auths  == {"missing", "malformed", "wrong", "good"}
Actors == {"missing", "malformed", "good"}

\* Whether the request's URL begins with /api/ as it came (req.url); the
\* router matches the path that it decodes from it.
Urls == {"api", "other"}

\* A request's route, whether its arguments are valid, the capability or
\* offering a roster is filtered by, and the calls it makes.
Ask(route, asks) == [route |-> route, valid |-> TRUE, filter |-> None, asks |-> asks]

\* What may be asked: the calls a route makes, one after the other, or a
\* query, parameter or body that the handler's schema refuses.
Asks ==
    {Ask("healthz", <<>>), Ask("wallet", <<>>),
     Ask("health", <<HealthAsks, GetDepositInfoAsks>>),
     Ask("escrow", <<GetDepositInfoAsks>>),
     Ask("orchs", <<ListKnownAsks>>), Ask("orch", <<ResolveAsks(Address)>>)}
    \union {[Ask("orchs", <<ListKnownAsks>>) EXCEPT !.filter = "name"]}
    \union {Ask("search", <<SelectAsks("capability", "offering", tier)>>) :
              tier \in {None, "tier"}}
    \union {Ask("refresh", <<RefreshAsks(target)>>) : target \in {"*", Address}}
    \union {Ask("audit", <<GetAuditLogAsks(a, since, limit)>>) :
              a \in {None, Address}, since \in {None, 0, 1500, MaxDate + 1},
              limit \in {None, 5}}
    \union {[Ask(route, <<>>) EXCEPT !.valid = FALSE] :
              route \in {"health", "wallet", "escrow", "orchs", "orch", "search",
                         "refresh", "audit"}}

\* `said`, `meant` and `uris`, the addresses the chain gave a serviceURI for,
\* are history.
Nothing == [st |-> "none", ask |-> Ask("healthz", <<>>), auth |-> "missing",
            actor |-> "missing", url |-> "other", made |-> 0, failed |-> {}, status |-> 0,
            body |-> None, error |-> "none", said |-> "none", meant |-> None, uris |-> {}]

TypeOK ==
    /\ RpcTypeOK
    /\ DOMAIN request = DOMAIN Nothing
    /\ request.st \in {"none", "gate", "handler", "answered"}
    /\ request.made \in 0 .. 2 /\ request.failed \subseteq Daemons
    /\ request.st = "answered" <=> request.status \in {200, 400, 401, 404, 500, 503}
    /\ call.st # "none" => request.st = "handler"

Init == RpcInit /\ request = Nothing

Answer(r, status, body) ==
    request' = [r EXCEPT !.st = "answered", !.status = status, !.body = body]
AnswerError(r, status, error) ==
    request' = [r EXCEPT !.st = "answered", !.status = status, !.error = error]
----------------------------------------------------------------------------
(* The gate.                                                               *)

\* /healthz is no /api/ URL.  Credentials the hook will not look at are not
\* told apart.
Receive(ask, auth, actor, url) ==
    /\ request.st = "none"
    /\ ask.route = "healthz" => url = "other"
    /\ url = "other" => auth = "missing" /\ actor = "missing"
    /\ request' = [Nothing EXCEPT !.st = "gate", !.ask = ask, !.auth = auth, !.actor = actor,
                                  !.url = url]
    /\ told' = {} /\ UNCHANGED <<daemon, call>>

\* The answer is out.
Done ==
    /\ request.st = "answered"
    /\ request' = Nothing
    /\ UNCHANGED rpcVars

\* The hook leaves alone what does not begin with /api/, whichever route the
\* router then finds.
Public == request.url = "other"

\* The onRequest hook: a bad credential first, then a bad actor, then none.
Verdict ==
    IF Public THEN "pass"
    ELSE CASE request.auth \in {"missing", "malformed"}            -> "malformed_authorization"
           [] request.auth = "wrong"                               -> "invalid_admin_token"
           [] request.auth = "good" /\ request.actor = "missing"   -> "missing_actor"
           [] request.auth = "good" /\ request.actor = "malformed" -> "malformed_actor"
           [] OTHER                                                -> "pass"
\* Mutant: a bad actor is 403.
StatusOf_Forbidden(verdict) ==
    IF verdict \in {"malformed_authorization", "invalid_admin_token"} THEN 401 ELSE 403
StatusOf(verdict) ==
    IF verdict \in {"malformed_authorization", "invalid_admin_token"} THEN 401 ELSE 400

Refuse ==
    /\ request.st = "gate" /\ Verdict # "pass"
    /\ AnswerError(request, StatusOf(Verdict), Verdict)
    /\ UNCHANGED rpcVars

\* Mutant: the actor is not looked at.
Admit_AnyActor ==
    /\ request.st = "gate" /\ (Public \/ request.auth = "good")
    /\ request' = [request EXCEPT !.st = "handler"]
    /\ UNCHANGED rpcVars
Admit ==
    /\ request.st = "gate" /\ Verdict = "pass"
    /\ request' = [request EXCEPT !.st = "handler"]
    /\ UNCHANGED rpcVars
----------------------------------------------------------------------------
(* The handlers.                                                           *)

Handling(routes) == request.st = "handler" /\ request.ask.route \in routes /\ call.st = "none"

\* ZodError.
Invalid ==
    /\ request.st = "handler" /\ ~request.ask.valid
    /\ AnswerError(request, 400, "invalid_input")
    /\ UNCHANGED rpcVars

Healthz ==
    /\ Handling({"healthz"})
    /\ Answer(request, 200, [ok |-> TRUE])
    /\ UNCHANGED rpcVars

\* getWallet: the balance is read from the chain, which may fail.
Wallet ==
    /\ Handling({"wallet"}) /\ request.ask.valid
    /\ \E configured \in Configured :
       IF configured THEN Answer(request, 200, None) \/ AnswerError(request, 500, "chain")
       ELSE AnswerError(request, 503, "wallet_not_configured")
    /\ UNCHANGED rpcVars

\* The request's next call, unless it cannot be encoded.
Calls ==
    /\ Handling({"health", "escrow", "orchs", "orch", "search", "refresh", "audit"})
    /\ request.ask.valid /\ request.made < Len(request.ask.asks)
    /\ LET ask == request.ask.asks[request.made + 1] IN
       IF Encodable(ask)
       THEN Send(ask) /\ request' = [request EXCEPT !.made = @ + 1]
       ELSE AnswerError(request, 500, "INTERNAL") /\ UNCHANGED call
    /\ UNCHANGED <<daemon, told>>

\* What the call leaves behind.
Noted(e) == [request EXCEPT
               !.failed = IF e.status = "OK" THEN @ ELSE @ \union {Method.of},
               !.said = call.status, !.meant = call.meant]

Healthy(r) == r.failed = {}

\* Mutant: a signature of the legacy kind counts as one.
NarrowSignature_Legacy(label) ==
    CASE label \in {"verified", "legacy"} -> "signed"
      [] label = "unsigned"               -> "unsigned"
      [] OTHER                            -> "unknown"
\* narrowSignature, narrowFreshness: what the page tells apart.
NarrowSignature(label) ==
    CASE label = "verified" -> "signed"
      [] label = "unsigned" -> "unsigned"
      [] OTHER              -> "unknown"
NarrowFreshness(label) ==
    CASE label = "fresh"                                -> "fresh"
      [] label \in {"stale-recoverable", "stale-failing"} -> "stale"
      [] OTHER                                          -> "unknown"

\* getServiceUri: null where the chain has none, or cannot be read.
ChainUri(address, uris) == IF address \in uris THEN "uri" ELSE None

\* A row of listOrchs: an entry of listKnown and what the chain has of it.
KnownRow(k, uris) ==
    [address |-> k.address, serviceUri |-> ChainUri(k.address, uris),
     capabilities |-> {}, offerings |-> {}, signatureStatus |-> "unknown",
     freshnessStatus |-> NarrowFreshness(k.freshnessStatus)]

\* rosterRowFromResolved: the URI of the chain before the resolver's, what any
\* node offers, sorted and once, and the signature of the first node.
ResolvedRow(r, uri) ==
    [address |-> r.address,
     serviceUri |-> IF uri # None THEN uri
                    ELSE IF r.resolvedUri = "" THEN None ELSE r.resolvedUri,
     capabilities |-> UNION {Range(n.capabilities) : n \in Range(r.nodes)},
     offerings |-> UNION {Range(n.offerings) : n \in Range(r.nodes)},
     signatureStatus |-> IF 1 \in DOMAIN r.nodes
                         THEN NarrowSignature(r.nodes[1].signatureStatus) ELSE "unknown",
     freshnessStatus |-> NarrowFreshness(r.freshnessStatus)]

\* filterOrchs, by a capability; an offering is looked for in the same way.
Filtered(filter, rows) ==
    IF filter = None THEN rows ELSE SelectSeq(rows, LAMBDA r : filter \in r.capabilities)

\* The body of the answer to a request, given what its call was answered.
Shown(ask, v, uris) ==
    LET method == ask.asks[1].method
        value  == Fulfilled(method, v) IN
    CASE method = "GetDepositInfo" ->
           [depositWei |-> value.depositWei, reserveWei |-> value.reserveWei]
      [] method = "ListKnown" ->
           [orchs |-> Filtered(ask.filter, [i \in DOMAIN value |-> KnownRow(value[i], uris)])]
      [] method = "ResolveByAddress" ->
           [orch |-> ResolvedRow(value, ChainUri(ask.asks[1].asked.ethAddress, uris))]
      [] OTHER -> value

\* The addresses whose serviceURI listOrchs and getOrch read.
Enriched(v) ==
    CASE call.method = "ListKnown"        -> {e.ethAddress : e \in Range(v.entries)}
      [] call.method = "ResolveByAddress" -> {call.asked.ethAddress}
      [] OTHER                            -> {}

\* "Not found" is a value to the client, and to the handler.
Absent(e) ==
    e.status # "OK" /\ IsNotFound(e) /\ call.method \in {"ResolveByAddress", "Select"}

Health(noted) ==
    IF request.made < 2 THEN request' = noted
    ELSE Answer(noted, IF Healthy(noted) THEN 200 ELSE 503, [ok |-> Healthy(noted)])

ShowsValue(noted, v) ==
    \E uris \in SUBSET Enriched(v) :
        Answer([noted EXCEPT !.uris = uris], 200, Shown(request.ask, v, uris))

\* handleGetOrch answers 404 unless the mirror has rows of the orchestrator.
ShowsAbsence(noted) ==
    \/ call.method = "Select" /\ Answer(noted, 200, NothingFound(call.method))
    \/ /\ call.method # "Select"
       /\ \/ Answer(noted, 200, [orch |-> NothingFound(call.method)])
          \/ AnswerError(noted, 404, "orch_not_found")

\* A call's promise settles.  handleHealth asks the one daemon after the
\* other and answers when it has heard of both; any other handler answers,
\* the two that also read the chain only if that succeeds.
Settles(e) ==
    /\ Ends(e)
    /\ LET noted == Noted(e) IN
       \/ request.ask.route = "health" /\ Health(noted)
       \/ request.ask.route # "health" /\ e.status = "OK" /\ ShowsValue(noted, e.value)
       \/ request.ask.route # "health" /\ Absent(e) /\ ShowsAbsence(noted)
       \/ /\ request.ask.route # "health" /\ e.status # "OK" /\ ~Absent(e)
          /\ AnswerError(noted, 500, e.status)
       \/ /\ request.ask.route \in {"orchs", "orch"} /\ (e.status = "OK" \/ Absent(e))
          /\ AnswerError(noted, 500, "chain")
    /\ call' = NoCall
    /\ UNCHANGED <<daemon, told>>

\* getOrch reads the chain beside its call: Promise.all rejects with the first
\* that fails, and nobody hears of the other.
ChainFails ==
    /\ call.st # "none" /\ request.ask.route = "orch"
    /\ AnswerError(request, 500, "chain")
    /\ call' = NoCall
    /\ UNCHANGED <<daemon, told>>

Failures == {"NOT_FOUND", "INTERNAL", "UNAVAILABLE", "DEADLINE_EXCEEDED"}
Fails    == \E status \in Failures : Settles(End(status, None))
Succeeds ==
    /\ call.st = "served" /\ call.status = "OK"
    /\ Settles(End("OK", Decode(Method.res, call.answer)))

Handle == Refuse \/ Admit \/ Invalid \/ Healthz \/ Wallet \/ Calls \/ Fails
Environment ==
    /\ UNCHANGED request
    /\ \/ Tick
       \/ \E s \in {"OK", "NOT_FOUND", "INTERNAL"}, d \in Dialects : Serve(s, d)
       \/ \E d \in Daemons, s \in States : Changes(d, s)
Next ==
    \/ \E ask \in Asks, auth \in Auths, actor \in Actors, url \in Urls :
          Receive(ask, auth, actor, url)
    \/ Handle \/ Succeeds \/ ChainFails \/ Done
    \/ Environment

Spec == Init /\ [][Next]_vars

\* Handlers run, and gRPC's timer fires at the deadline; that an answer ever
\* arrives is not assumed.
FairSpec == Spec /\ WF_vars(Handle) /\ WF_vars(Tick /\ UNCHANGED request)
----------------------------------------------------------------------------
(* Properties.                                                             *)

Answered(routes) == request.st = "answered" /\ request.ask.route \in routes

\* No daemon hears of a request whose arguments its route does not accept, nor
\* of one whose URL begins with /api/ without the token and an actor
\* (server.ts:173-202, and the parse that every handler begins with).  Of any
\* other URL that the router takes to the same route the hook asks neither
\* (server.ts:179).
OnlyAdmittedCalls ==
    call.st # "none" \/ request.made > 0 =>
        /\ request.ask.valid
        /\ request.url = "api" => request.auth = "good" /\ request.actor = "good"

\* An answer claims nothing the daemons have not said.  /api/health is ok
\* only if each has answered since the request came in, and it has asked
\* both, even if the first one failed (handleHealth.ts:32-36).  "Nothing
\* found", as a 404, a null or an empty route, is never a daemon that is gone,
\* hangs or fails (resolver/client.ts:174-177, 199-204, handleGetOrch.ts:28).
\* An orchestrator is "fresh" or "signed" only if the resolver said just that,
\* the latter of the first node, and has a capability only if one of its
\* nodes has (routing/index.ts:149-203).
ClaimsWereSaid ==
    /\ Answered({"health"}) /\ request.status \in {200, 503} =>
          /\ request.made = 2
          /\ request.status = 200 <=> request.body.ok
          /\ request.body.ok => told = Daemons
    /\ Answered({"orch"}) /\ request.status = 404 => request.said = "NOT_FOUND"
    /\ Answered({"orch"}) /\ request.status = 200 /\ request.body.orch = None =>
          request.said = "NOT_FOUND"
    /\ Answered({"orch"}) /\ request.status = 200 /\ request.body.orch # None =>
          /\ request.said = "OK"
          /\ request.body.orch.freshnessStatus = "fresh" => request.meant.freshnessStatus = 1
          /\ request.body.orch.signatureStatus = "signed" =>
                /\ 1 \in DOMAIN request.meant.nodes
                /\ request.meant.nodes[1].signatureStatus = 1
          /\ \A c \in request.body.orch.capabilities :
                \E i \in DOMAIN request.meant.nodes :
                   \E cap \in Range(request.meant.nodes[i].capabilities) : cap.name = c
    /\ Answered({"search"}) /\ request.status = 200 /\ request.body = NoRoute =>
          request.said = "NOT_FOUND" \/ (request.said = "OK" /\ request.meant.route = None)

\* A daemon of whatever version hears what was asked, and what is shown is
\* what it answered, as far as the two know the same fields: fields of its
\* own, fields it lacks and their order change nothing (the encoders, the
\* decoders, the mappers of the two clients and the rows of the routing
\* service).
MeaningKept ==
    /\ call.st = "served" =>
          call.heard[2] = Meaning(Speak(call.heard[1], Method.req), Method.req, call.asked)
    /\ Answered({"orchs", "orch", "search", "audit", "escrow"}) /\ request.status = 200
       /\ request.said = "OK" =>
          request.body = Shown(request.ask, request.meant, request.uris)

\* Every message of the two protocols survives the way from one version to
\* another, in both directions, and so do the requests the clients make.
CodecsAgree ==
    \A dialect \in Dialects :
      /\ \A m \in RegistryMessages \union PaymentMessages :
           LET theirs == Speak(dialect, m) IN
           /\ \A v \in Samples(m) : Decode(theirs, Encode(m, v)) = Meaning(theirs, m, v)
           /\ \A v \in Samples(theirs) \union Answers(theirs) :
                Decode(m, Encode(theirs, v)) = Meaning(m, theirs, v)
      /\ \A a \in Asks : \A i \in DOMAIN a.asks :
           LET ask == a.asks[i]
               m   == Methods[ask.method].req
               theirs == Speak(dialect, m) IN
           Encodable(ask) => Decode(theirs, Encode(m, ask.asked)) = Meaning(theirs, m, ask.asked)

\* Said of no state, and checked in the first (the encoders and the decoders).
EveryMessageSurvives == Init => CodecsAgree

\* Every request is answered, whatever becomes of the daemons.
EveryRequestAnswered == request.st = "gate" ~> request.st = "answered"
=============================================================================
