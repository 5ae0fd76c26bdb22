-------------------------------- MODULE Rpc --------------------------------
(***************************************************************************)
(* The clients of the two daemons (src/providers/resolver/client.ts and    *)
(* src/providers/payerDaemon/client.ts): one unary gRPC call at a time,    *)
(* with its deadline, and what they make of an answer.                     *)
(*                                                                         *)
(* A daemon may be down, hang, and come back as another version; it       *)
(* answers with anything its .proto allows.  The end of a call is what     *)
(* the caller's promise settles with: [status, value].                     *)
(*                                                                         *)
(* Abstraction: the calls of a request that run side by side (getOrch,     *)
(* Roster) are not; time is counted from the start of the call.            *)
(***************************************************************************)
EXTENDS Registry, Payments

CONSTANTS
    Deadline,  \* callDeadlineMs
    MaxDate    \* the last moment a Date can hold

ASSUME RpcAssumption == Deadline \in Nat \ {0} /\ MaxDate \in Nat

VARIABLES
    daemon,  \* each daemon: up, down or hung
    call,    \* the call under way
    told     \* history: the daemons that have answered since the request began

rpcVars == <<daemon, call, told>>

Daemons == {"resolver", "payer"}
States  == {"up", "down", "hung"}

Rpc(of, req, res) == [of |-> of, req |-> req, res |-> res]
Methods ==
    [Health           |-> Rpc("resolver", Empty, HealthResult),
     ListKnown        |-> Rpc("resolver", ListKnownRequest, ListKnownResult),
     ResolveByAddress |-> Rpc("resolver", ResolveByAddressRequest, ResolveResult),
     Select           |-> Rpc("resolver", SelectRequest, SelectResult),
     Refresh          |-> Rpc("resolver", RefreshRequest, Empty),
     GetAuditLog      |-> Rpc("resolver", GetAuditLogRequest, AuditLogResult),
     GetDepositInfo   |-> Rpc("payer", GetDepositInfoRequest, GetDepositInfoResponse)]

\* The call under way: what was asked, its bytes, how long ago; once the
\* daemon has dealt with it, what it heard and the status and bytes it sent.
\* `meant` is history: what its answer means to us.
NoCall == [st |-> "none", method |-> "none", asked |-> None, sent |-> <<>>, waited |-> 0,
           heard |-> <<>>, status |-> "none",
           answer |-> <<>>, meant |-> None]

RpcTypeOK ==
    /\ daemon \in [Daemons -> States] /\ told \subseteq Daemons
    /\ DOMAIN call = DOMAIN NoCall
    /\ call.st \in {"none", "sent", "served"} /\ call.waited \in 0 .. Deadline
    /\ call.st # "none" <=> call.method \in DOMAIN Methods
    /\ call.st = "served" <=> call.status \in {"OK", "NOT_FOUND", "INTERNAL"}

RpcInit == daemon = [d \in Daemons |-> "up"] /\ call = NoCall /\ told = {}

Method == Methods[call.method]
----------------------------------------------------------------------------
(* The clients' requests.                                                  *)

ListKnownAsks == [method |-> "ListKnown", asked |-> CreateBase(ListKnownRequest)]
ResolveAsks(address) ==
    [method |-> "ResolveByAddress",
     asked  |-> [ethAddress |-> address, allowLegacyFallback |-> FALSE,
                 allowUnsigned |-> TRUE, forceRefresh |-> FALSE]]
SelectAsks(capability, offering, tier) ==
    [method |-> "Select",
     asked  |-> [capability |-> capability, offering |-> offering,
                 tier |-> IF tier = None THEN "" ELSE tier, minWeight |-> 0]]
RefreshAsks(target) ==
    [method |-> "Refresh", asked |-> [ethAddress |-> target, force |-> TRUE]]
GetAuditLogAsks(address, since, limit) ==
    [method |-> "GetAuditLog",
     asked  |-> [ethAddress |-> IF address = None THEN "" ELSE address,
                 since |-> since, limit |-> IF limit = None THEN 100 ELSE limit]]
HealthAsks == [method |-> "Health", asked |-> CreateBase(Empty)]
GetDepositInfoAsks ==
    [method |-> "GetDepositInfo", asked |-> CreateBase(GetDepositInfoRequest)]

\* toTimestamp throws on an invalid Date, and the call fails unsent.
Encodable(ask) ==
    ask.method = "GetAuditLog" /\ ask.asked.since # None => ask.asked.since <= MaxDate

Send(ask) ==
    call' = [NoCall EXCEPT !.st = "sent", !.method = ask.method, !.asked = ask.asked,
               !.sent = Encode(Methods[ask.method].req, ask.asked)]
----------------------------------------------------------------------------
(* The daemons.                                                            *)

\* A daemon goes down, hangs, or comes back.
Changes(d, s) ==
    /\ daemon[d] # s /\ (s = "up" => daemon[d] = "down")
    /\ daemon' = [daemon EXCEPT ![d] = s]
    /\ UNCHANGED <<call, told>>

\* What a daemon answers: nothing at all, or any of the samples, which have
\* each field left out and each value of each enum.
Answers(m) == {CreateBase(m)} \union Samples(m)

\* It reads the request in its own version, which may have changed since the
\* last call, and sends a status or an answer.
Serve(status, dialect) ==
    /\ call.st = "sent" /\ daemon[Method.of] = "up"
    /\ status = "NOT_FOUND" => call.method \in {"ResolveByAddress", "Select"}
    /\ LET theirs == Speak(dialect, Method.res)
           served == [call EXCEPT !.st = "served", !.status = status,
                         !.heard = <<dialect, Decode(Speak(dialect, Method.req), call.sent)>>] IN
       IF status # "OK" THEN call' = served
       ELSE \E v \in Answers(theirs) :
              call' = [served EXCEPT !.answer = Encode(theirs, v),
                                     !.meant = Meaning(Method.res, theirs, v)]
    /\ told' = IF status = "OK" THEN told \union {Method.of} ELSE told
    /\ UNCHANGED daemon
----------------------------------------------------------------------------
(* The end of a call.                                                      *)

End(status, value) == [status |-> status, value |-> value]

\* The answer arrives.
Arrives(e) ==
    /\ call.st = "served" /\ e.status = call.status
    /\ e.value = IF e.status = "OK" THEN Decode(Method.res, call.answer) ELSE None
\* The daemon is gone, with the request or with its answer.
Broken(e) ==
    /\ call.st # "none" /\ daemon[Method.of] = "down"
    /\ e = End("UNAVAILABLE", None)
\* Mutant: no deadline.
Expires_Never(e) == FALSE /\ e = End("DEADLINE_EXCEEDED", None)
Expires(e) ==
    /\ call.st # "none" /\ call.waited = Deadline
    /\ e = End("DEADLINE_EXCEEDED", None)

Ends(e) == Arrives(e) \/ Broken(e) \/ Expires(e)

\* Time passes, up to the deadline.
Tick ==
    /\ call.st # "none" /\ call.waited < Deadline
    /\ call' = [call EXCEPT !.waited = @ + 1]
    /\ UNCHANGED <<daemon, told>>
----------------------------------------------------------------------------
(* What the clients make of an answer.                                     *)

\* An unknown number of an enum has the label of the unspecified one.
Label(labels, n) == IF n \in 1 .. 3 THEN labels[n] ELSE labels[4]
ResolveMode(n) == Label(<<"well-known", "csv", "legacy", "unspecified">>, n)
Freshness(n)   == Label(<<"fresh", "stale-recoverable", "stale-failing", "unknown">>, n)
Signature(n)   == Label(<<"verified", "unsigned", "legacy", "unknown">>, n)

OrNull(bytes) == IF bytes = <<>> THEN None ELSE bytes

\* bigEndianBytesToDecimal.
Decimal(bytes) == FoldLeft(LAMBDA n, b : n * 256 + b, 0, bytes)

KnownOrch(e) ==
    [address |-> e.ethAddress, mode |-> ResolveMode(e.mode),
     freshnessStatus |-> Freshness(e.freshnessStatus), cachedAt |-> e.cachedAt]
NodeRow(n) ==
    [id |-> n.id, url |-> n.url, workerEthAddress |-> n.workerEthAddress,
     capabilities |-> [i \in DOMAIN n.capabilities |-> n.capabilities[i].name],
     offerings |-> FlattenSeq([i \in DOMAIN n.capabilities |->
                     [j \in DOMAIN n.capabilities[i].offerings |->
                        n.capabilities[i].offerings[j].id]]),
     signatureStatus |-> Signature(n.signatureStatus),
     operatorAddress |-> n.operatorAddress, enabled |-> n.enabled,
     tierAllowed |-> n.tierAllowed, weight |-> n.weight]
ResolvedOrch(r) ==
    [address |-> r.ethAddress, resolvedUri |-> r.resolvedUri,
     mode |-> ResolveMode(r.mode), nodes |-> [i \in DOMAIN r.nodes |-> NodeRow(r.nodes[i])],
     freshnessStatus |-> Freshness(r.freshnessStatus), cachedAt |-> r.cachedAt,
     fetchedAt |-> r.fetchedAt, schemaVersion |-> r.schemaVersion]
Route(r) == [r EXCEPT !.extraJson = OrNull(@), !.constraintsJson = OrNull(@)]
AuditEntry(e) ==
    [occurredAt |-> IF e.at = None THEN 0 ELSE e.at,
     orchAddress |-> IF e.ethAddress = "" THEN None ELSE e.ethAddress,
     kind |-> e.kind, mode |-> ResolveMode(e.mode), detail |-> e.detail]

NoRoute == [route |-> None, reason |-> "no route matched"]

\* What a call's promise is fulfilled with, given the answer.
Fulfilled(method, v) ==
    CASE method = "ListKnown"        -> [i \in DOMAIN v.entries |-> KnownOrch(v.entries[i])]
      [] method = "ResolveByAddress" -> ResolvedOrch(v)
      [] method = "Select" /\ v.route = None -> NoRoute
      [] method = "Select" /\ v.route # None ->
           [route |-> Route(v.route), reason |-> "top-weighted"]
      [] method = "GetAuditLog"      -> [i \in DOMAIN v.events |-> AuditEntry(v.events[i])]
      [] method = "GetDepositInfo"   ->
           [depositWei |-> Decimal(v.deposit), reserveWei |-> Decimal(v.reserve),
            withdrawRound |-> v.withdrawRound]
      [] OTHER                       -> None
\* NOT_FOUND is null, or no route; any other failure rejects.
NothingFound(method) == IF method = "Select" THEN NoRoute ELSE None
\* Mutant: a daemon that is not there has not found anything either.
IsNotFound_AnyFailure(e) == e.status \in {"NOT_FOUND", "UNAVAILABLE"}
IsNotFound(e) == e.status = "NOT_FOUND"
=============================================================================
