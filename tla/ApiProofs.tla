----------------------------- MODULE ApiProofs -----------------------------
(***************************************************************************)
(* Proofs about the HTTP interface, for whatever deadline, addresses and   *)
(* daemons: no call without its admission, and no answer that says more    *)
(* than a daemon said.                                                     *)
(*                                                                         *)
(* The codecs keep every message (WireProofs), so nothing is lost,         *)
(* exchanged or made up between the daemon and the page.                   *)
(***************************************************************************)
EXTENDS Api, WireProofs

Forwarding == {"orchs", "orch", "search", "escrow", "refresh", "audit"}
Showing    == Forwarding \ {"refresh"}

\* The call a request makes as its made-th, and the calls that are settled.
Asked   == request.ask.asks[request.made]
Settled == IF call.st = "none" THEN request.made ELSE request.made - 1
OfAsk(i) == Methods[request.ask.asks[i].method].of

\* Where a request is, and that it got there through the gate.
Admitted ==
    /\ request.ask \in Asks /\ request.auth \in Auths /\ request.actor \in Actors
    /\ request.url \in Urls
    /\ request.made <= Len(request.ask.asks)
    /\ request.st \in {"none", "gate"} => request.made = 0
    /\ request.st = "handler" => Verdict = "pass"
    /\ OnlyAdmittedCalls

\* The call under way is the one the handler made last, its bytes say what
\* was asked, and an answer's bytes say what the daemon answered.
Faithful ==
    /\ call.st = "none" => call = NoCall
    /\ call.st # "none" =>
          /\ request.made > 0 /\ Encodable(Asked)
          /\ call.method = Asked.method /\ call.asked = Asked.asked
          /\ call.sent = Encode(Method.req, call.asked)
    /\ call.st = "served" =>
          \E d \in Dialects : call.heard = <<d, Decode(Speak(d, Method.req), call.sent)>>
    /\ call.st = "served" /\ call.status = "OK" =>
          \E d \in Dialects : \E v \in Answers(Speak(d, Method.res)) :
             /\ call.answer = Encode(Speak(d, Method.res), v)
             /\ call.meant = Meaning(Method.res, Speak(d, Method.res), v)

\* The calls of /api/health that are settled were answered or failed, and it
\* counts both.
Accounted ==
    /\ call.st = "served" /\ call.status = "OK" => Method.of \in told
    /\ request.st # "none" /\ request.ask.route = "health" =>
          \A i \in 1 .. Settled : OfAsk(i) \in told \union request.failed
    /\ Answered({"health"}) /\ request.status \in {200, 503} =>
          /\ request.made = 2 /\ call.st = "none"
          /\ request.status = 200 <=> request.failed = {}
          /\ request.body = [ok |-> request.failed = {}]

\* An answer that shows something shows what its only call was answered, and
\* one that shows nothing that there was nothing.
Quoted ==
    /\ Answered(Showing) /\ request.status = 200 =>
        \/ /\ request.said = "NOT_FOUND"
           /\ request.ask.route = "orch" => request.body = [orch |-> None]
        \/ /\ request.said = "OK" /\ request.made = 1
           /\ LET res == Methods[request.ask.asks[1].method].res IN
              \E d \in Dialects : \E v \in Answers(Speak(d, res)) :
                 /\ request.meant = Meaning(res, Speak(d, res), v)
                 /\ request.body =
                      Shown(request.ask, Decode(res, Encode(Speak(d, res), v)), request.uris)
    /\ Answered({"orch"}) /\ request.status = 404 => request.said = "NOT_FOUND"

Inv == TypeOK /\ Admitted /\ Faithful /\ Accounted /\ Quoted
----------------------------------------------------------------------------
(* Facts about the constants.                                              *)

\* The methods, and the daemons they belong to.
LEMMA MethodFacts ==
    /\ DOMAIN Methods = {"Health", "ListKnown", "ResolveByAddress", "Select", "Refresh",
                         "GetAuditLog", "GetDepositInfo"}
    /\ \A m \in DOMAIN Methods : Methods[m].of \in Daemons
    /\ Methods["Health"].of = "resolver" /\ Methods["GetDepositInfo"].of = "payer"
BY DEF Methods, Rpc, Daemons

\* What each client asks, by its method.
LEMMA AskMethods ==
    /\ HealthAsks.method = "Health" /\ GetDepositInfoAsks.method = "GetDepositInfo"
    /\ ListKnownAsks.method = "ListKnown"
    /\ \A a : ResolveAsks(a).method = "ResolveByAddress"
    /\ \A c, o, tier : SelectAsks(c, o, tier).method = "Select"
    /\ \A target : RefreshAsks(target).method = "Refresh"
    /\ \A a, since, limit : GetAuditLogAsks(a, since, limit).method = "GetAuditLog"
BY DEF HealthAsks, GetDepositInfoAsks, ListKnownAsks, ResolveAsks, SelectAsks, RefreshAsks,
       GetAuditLogAsks

\* What a request asks: both daemons of /api/health, one of any other route
\* that forwards, none if its arguments are bad.
LEMMA AsksFacts ==
    ASSUME NEW a \in Asks
    PROVE  /\ a.valid \in BOOLEAN /\ (a.route = "healthz" => a.valid)
           /\ ~a.valid => a.asks = <<>>
           /\ a.valid /\ a.route \in {"healthz", "wallet"} => a.asks = <<>>
           /\ a.valid /\ a.route = "health" =>
                a.asks = <<HealthAsks, GetDepositInfoAsks>>
           /\ a.valid /\ a.route \in Forwarding =>
                \E ask : /\ a.asks = <<ask>> /\ ask.method \in DOMAIN Methods
                         /\ a.route = "orch" => ask.method = "ResolveByAddress"
                         /\ a.route = "search" => ask.method = "Select"
           /\ a.route \in Forwarding \union {"healthz", "wallet", "health"}
<1>1. CASE a \in {Ask("healthz", <<>>), Ask("wallet", <<>>)}
  <2>1. a.route \in {"healthz", "wallet"} /\ a.valid = TRUE /\ a.asks = <<>>
    BY <1>1 DEF Ask
  <2> QED
    BY <2>1 DEF Forwarding
<1>2. CASE a = Ask("health", <<HealthAsks, GetDepositInfoAsks>>)
  <2>1. PICK both : both = <<HealthAsks, GetDepositInfoAsks>>
    OBVIOUS
  <2>2. a.route = "health" /\ a.valid = TRUE /\ a.asks = both
    BY <1>2, <2>1 DEF Ask
  <2> QED
    BY <2>1, <2>2 DEF Forwarding
<1>3. CASE \E ask : \E route \in Forwarding :
             /\ a = Ask(route, <<ask>>) /\ ask.method \in DOMAIN Methods
             /\ route = "orch" => ask.method = "ResolveByAddress"
             /\ route = "search" => ask.method = "Select"
  BY <1>3 DEF Ask, Forwarding
<1>4. CASE \E route \in Forwarding \union {"health", "wallet"} :
             a = [Ask(route, <<>>) EXCEPT !.valid = FALSE]
  <2>1. PICK route \in Forwarding \union {"health", "wallet"} :
          a = [Ask(route, <<>>) EXCEPT !.valid = FALSE]
    BY <1>4
  <2>2. a.route = route /\ ~a.valid /\ a.valid \in BOOLEAN /\ a.asks = <<>>
    BY <2>1 DEF Ask
  <2> QED
    BY <2>2 DEF Forwarding
<1>6. CASE a = [Ask("orchs", <<ListKnownAsks>>) EXCEPT !.filter = "name"]
  <2>1. PICK ask : ask = ListKnownAsks
    OBVIOUS
  <2>2. a.route = "orchs" /\ a.valid = TRUE /\ a.asks = <<ask>>
    BY <1>6, <2>1 DEF Ask
  <2>3. ask.method \in DOMAIN Methods
    BY <2>1, AskMethods, MethodFacts
  <2> QED
    BY <2>2, <2>3 DEF Forwarding
<1>5. ASSUME a \notin {Ask("healthz", <<>>), Ask("wallet", <<>>)},
             a # Ask("health", <<HealthAsks, GetDepositInfoAsks>>),
             a # [Ask("orchs", <<ListKnownAsks>>) EXCEPT !.filter = "name"],
             ~ \E route \in Forwarding \union {"health", "wallet"} :
                 a = [Ask(route, <<>>) EXCEPT !.valid = FALSE]
      PROVE  \E ask : \E route \in Forwarding :
               /\ a = Ask(route, <<ask>>) /\ ask.method \in DOMAIN Methods
               /\ route = "orch" => ask.method = "ResolveByAddress"
               /\ route = "search" => ask.method = "Select"
  <2>1. CASE a \in {Ask("escrow", <<GetDepositInfoAsks>>), Ask("orchs", <<ListKnownAsks>>)}
    BY <2>1, AskMethods, MethodFacts DEF Forwarding
  <2>2. CASE a = Ask("orch", <<ResolveAsks(Address)>>)
    BY <2>2, AskMethods, MethodFacts DEF Forwarding
  <2>3. CASE \E tier : a = Ask("search", <<SelectAsks("capability", "offering", tier)>>)
    BY <2>3, AskMethods, MethodFacts DEF Forwarding
  <2>4. CASE \E target : a = Ask("refresh", <<RefreshAsks(target)>>)
    BY <2>4, AskMethods, MethodFacts DEF Forwarding
  <2>5. CASE \E b, since, limit : a = Ask("audit", <<GetAuditLogAsks(b, since, limit)>>)
    BY <2>5, AskMethods, MethodFacts DEF Forwarding
  <2>6. \/ a \in {Ask("escrow", <<GetDepositInfoAsks>>), Ask("orchs", <<ListKnownAsks>>)}
        \/ a = Ask("orch", <<ResolveAsks(Address)>>)
        \/ \E tier : a = Ask("search", <<SelectAsks("capability", "offering", tier)>>)
        \/ \E target : a = Ask("refresh", <<RefreshAsks(target)>>)
        \/ \E b, since, limit : a = Ask("audit", <<GetAuditLogAsks(b, since, limit)>>)
    <3>1. CASE a \in {Ask("healthz", <<>>), Ask("wallet", <<>>),
                      Ask("health", <<HealthAsks, GetDepositInfoAsks>>),
                      Ask("escrow", <<GetDepositInfoAsks>>), Ask("orchs", <<ListKnownAsks>>),
                      Ask("orch", <<ResolveAsks(Address)>>)}
      BY <1>5, <3>1
    <3>2. CASE a \in {[Ask(route, <<>>) EXCEPT !.valid = FALSE] :
                        route \in {"health", "wallet", "escrow", "orchs", "orch", "search",
                                    "refresh", "audit"}}
      BY <1>5, <3>2 DEF Forwarding
    <3>3. CASE a \in {Ask("search", <<SelectAsks("capability", "offering", tier)>>) :
                        tier \in {None, "tier"}}
      BY <3>3
    <3>4. CASE a \in {Ask("refresh", <<RefreshAsks(target)>>) : target \in {"*", Address}}
      BY <3>4
    <3>5. CASE a \in {Ask("audit", <<GetAuditLogAsks(b, since, limit)>>) :
                        b \in {None, Address}, since \in {None, 0, 1500, MaxDate + 1},
                        limit \in {None, 5}}
      BY <3>5
    <3>6. a \notin {[Ask("orchs", <<ListKnownAsks>>) EXCEPT !.filter = "name"]}
      BY <1>5
    <3> QED
      BY <1>5, <3>1, <3>2, <3>3, <3>4, <3>5, <3>6 DEF Asks
  <2> QED
    BY <2>1, <2>2, <2>3, <2>4, <2>5, <2>6
<1> QED
  BY <1>1, <1>2, <1>3, <1>4, <1>5, <1>6

\* The calls a request may make have a method each.
LEMMA AskedFacts ==
    ASSUME NEW a \in Asks
    PROVE  /\ Len(a.asks) \in 0 .. 2
           /\ \A i \in 1 .. Len(a.asks) : a.asks[i].method \in DOMAIN Methods
           /\ ~a.valid \/ a.route \in {"healthz", "wallet"} => Len(a.asks) = 0
           /\ a.valid /\ a.route \in Forwarding => Len(a.asks) = 1
           /\ a.valid /\ a.route = "health" => Len(a.asks) = 2
<1>1. CASE ~a.valid \/ a.route \in {"healthz", "wallet"}
  <2>1. a.asks = <<>>
    BY <1>1, AsksFacts
  <2> QED
    BY <1>1, <2>1, AsksFacts DEF Forwarding
<1>2. CASE a.valid /\ a.route = "health"
  <2>1. a.asks = <<HealthAsks, GetDepositInfoAsks>>
    BY <1>2, AsksFacts
  <2>2. /\ HealthAsks.method \in DOMAIN Methods /\ GetDepositInfoAsks.method \in DOMAIN Methods
    BY AskMethods, MethodFacts
  <2>3. /\ Len(a.asks) = 2 /\ a.asks[1] = HealthAsks /\ a.asks[2] = GetDepositInfoAsks
    BY <2>1
  <2> QED
    BY <1>2, <2>2, <2>3 DEF Forwarding
<1>3. CASE a.valid /\ a.route \in Forwarding
  <2>1. PICK ask : a.asks = <<ask>> /\ ask.method \in DOMAIN Methods
    BY <1>3, AsksFacts
  <2>2. Len(a.asks) = 1 /\ a.asks[1] = ask
    BY <2>1
  <2> QED
    BY <1>3, <2>1, <2>2 DEF Forwarding
<1> QED
  BY <1>1, <1>2, <1>3, AsksFacts
----------------------------------------------------------------------------
(* The steps.                                                              *)

\* What a step of the same request keeps of it.
Onward ==
    /\ DOMAIN request' = DOMAIN Nothing
    /\ request'.ask = request.ask /\ request'.auth = request.auth
    /\ request'.actor = request.actor /\ request'.url = request.url

\* What an answer is, field by field.
LEMMA AnswerFields ==
    ASSUME NEW r, DOMAIN r = DOMAIN Nothing, NEW s, NEW b, Answer(r, s, b)
    PROVE  /\ DOMAIN request' = DOMAIN Nothing
           /\ request'.ask = r.ask /\ request'.auth = r.auth /\ request'.actor = r.actor
           /\ request'.url = r.url /\ request'.uris = r.uris
           /\ request'.made = r.made /\ request'.failed = r.failed
           /\ request'.said = r.said /\ request'.meant = r.meant
           /\ request'.st = "answered" /\ request'.status = s /\ request'.body = b
BY DEF Answer, Nothing

\* The same of an error.
LEMMA ErrorFields ==
    ASSUME NEW r, DOMAIN r = DOMAIN Nothing, NEW s, NEW e, AnswerError(r, s, e)
    PROVE  /\ DOMAIN request' = DOMAIN Nothing
           /\ request'.ask = r.ask /\ request'.auth = r.auth /\ request'.actor = r.actor
           /\ request'.url = r.url /\ request'.said = r.said
           /\ request'.made = r.made /\ request'.failed = r.failed
           /\ request'.st = "answered" /\ request'.status = s
BY DEF AnswerError, Nothing

\* No call is under way.
LEMMA IdleCall ==
    /\ NoCall.st = "none" /\ NoCall.method = "none" /\ NoCall.waited = 0
    /\ NoCall.status = "none"
BY DEF NoCall

\* An answer goes out: no call is left, and /api/health accounts for every one.
LEMMA ReplyStep ==
    ASSUME Inv, request.st \in {"gate", "handler"}, Onward, request'.made = request.made,
           call' = NoCall, UNCHANGED <<daemon, told>>,
           request'.st = "answered", request'.status \in {200, 400, 401, 404, 500, 503},
           request'.failed \subseteq Daemons,
           request.ask.route = "health" =>
              \A i \in 1 .. request.made : OfAsk(i) \in told \union request'.failed,
           request.ask.route = "health" /\ request'.status \in {200, 503} =>
              /\ request.made = 2 /\ (request'.status = 200 <=> request'.failed = {})
              /\ request'.body = [ok |-> request'.failed = {}],
           Quoted'
    PROVE  Inv'
<1>1. call'.st = "none" /\ call'.method = "none" /\ call'.waited = 0 /\ call'.status = "none"
  BY IdleCall
<1>2. TypeOK'
  BY <1>1, MethodFacts, RpcAssumption DEF Inv, TypeOK, RpcTypeOK, Onward
<1>3. Admitted'
  BY <1>1 DEF Inv, Admitted, OnlyAdmittedCalls, Onward
<1>4. Faithful'
  BY <1>1 DEF Faithful
<1>5. Accounted'
  BY <1>1 DEF Accounted, Settled, OfAsk, Answered, Onward
<1> QED
  BY <1>2, <1>3, <1>4, <1>5 DEF Inv

\* An error that is no answer of /api/health.
LEMMA ErrorStep ==
    ASSUME Inv, call.st = "none", UNCHANGED rpcVars, request.st \in {"gate", "handler"},
           NEW s \in {400, 401, 500, 503}, NEW e, AnswerError(request, s, e),
           request.ask.route = "health" => s # 503
    PROVE  Inv'
<1>1. DOMAIN request = DOMAIN Nothing
  BY DEF Inv, TypeOK
<1>2. /\ Onward /\ request'.made = request.made /\ request'.failed = request.failed
      /\ request'.st = "answered" /\ request'.status = s
  BY <1>1, ErrorFields DEF Onward
<1>3. request.failed \subseteq Daemons
  BY DEF Inv, TypeOK
<1>4. request.ask.route = "health" =>
        \A i \in 1 .. request.made : OfAsk(i) \in told \union request.failed
  BY DEF Inv, Accounted, Settled
<1>5. Quoted'
  BY <1>2 DEF Quoted
<1>6. UNCHANGED <<daemon, call, told>>
  BY DEF rpcVars
<1>7. call' = NoCall
  BY <1>6 DEF Inv, Faithful
<1> QED
  BY <1>2, <1>3, <1>4, <1>5, <1>6, <1>7, ReplyStep

\* A request comes in.
LEMMA ReceiveStep ==
    ASSUME Inv, NEW ask \in Asks, NEW auth \in Auths, NEW actor \in Actors,
           NEW url \in Urls, Receive(ask, auth, actor, url)
    PROVE  Inv'
<1>1. /\ DOMAIN request' = DOMAIN Nothing /\ request'.st = "gate" /\ request'.ask = ask
      /\ request'.auth = auth /\ request'.actor = actor /\ request'.url = url
      /\ request'.made = 0
      /\ request'.failed = {} /\ request'.status = 0
  BY DEF Receive, Nothing
<1>2. told' = {} /\ daemon' = daemon /\ call' = call /\ call.st = "none" /\ call = NoCall
  BY DEF Receive, Inv, TypeOK, Faithful
<1>3. TypeOK'
  BY <1>1, <1>2 DEF Inv, TypeOK, RpcTypeOK
<1>4. Len(ask.asks) \in Nat
  BY AskedFacts
<1>5. Admitted'
  BY <1>1, <1>2, <1>4 DEF Admitted, OnlyAdmittedCalls
<1>6. Faithful' /\ Accounted' /\ Quoted'
  BY <1>1, <1>2, IdleCall DEF Faithful, Accounted, Quoted, Settled, Answered
<1> QED
  BY <1>3, <1>5, <1>6 DEF Inv

\* The answer is out.
LEMMA DoneStep ==
    ASSUME Inv, Done
    PROVE  Inv'
<1>1. /\ request' = Nothing /\ daemon' = daemon /\ call' = call /\ told' = told
      /\ call.st = "none" /\ call = NoCall
  BY DEF Done, Inv, TypeOK, Faithful, rpcVars
<1>2. /\ DOMAIN Nothing = DOMAIN Nothing /\ Nothing.st = "none" /\ Nothing.made = 0
      /\ Nothing.ask = Ask("healthz", <<>>) /\ Nothing.failed = {} /\ Nothing.status = 0
      /\ Nothing.auth = "missing" /\ Nothing.actor = "missing"
      /\ Nothing.url = "other"
  BY DEF Nothing
<1>3. Ask("healthz", <<>>) \in Asks /\ Len(Ask("healthz", <<>>).asks) = 0
  BY DEF Asks, Ask
<1>4. TypeOK'
  BY <1>1, <1>2 DEF Inv, TypeOK, RpcTypeOK
<1>5. Admitted'
  BY <1>1, <1>2, <1>3 DEF Admitted, OnlyAdmittedCalls, Auths, Actors, Urls
<1>6. Faithful' /\ Accounted' /\ Quoted'
  BY <1>1, <1>2, IdleCall DEF Faithful, Accounted, Quoted, Answered
<1> QED
  BY <1>4, <1>5, <1>6 DEF Inv

\* The gate lets the request pass.
LEMMA AdmitStep ==
    ASSUME Inv, Admit
    PROVE  Inv'
<1>1. /\ DOMAIN request' = DOMAIN Nothing /\ request'.st = "handler"
      /\ request'.ask = request.ask /\ request'.auth = request.auth
      /\ request'.actor = request.actor /\ request'.url = request.url
      /\ request'.made = request.made
      /\ request'.failed = request.failed /\ request'.status = request.status
  BY DEF Admit, Inv, TypeOK, Nothing
<1>2. /\ request.st = "gate" /\ request.made = 0 /\ Verdict = "pass"
      /\ daemon' = daemon /\ told' = told /\ call' = call
      /\ call.st = "none" /\ call = NoCall
  BY DEF Admit, Inv, TypeOK, Admitted, Faithful, rpcVars
<1>3. TypeOK'
  BY <1>1, <1>2 DEF Inv, TypeOK, RpcTypeOK
<1>4. Verdict' = Verdict
  BY <1>1 DEF Verdict, Public
<1>5. Admitted'
  BY <1>1, <1>2, <1>4 DEF Inv, Admitted, OnlyAdmittedCalls
<1>6. Faithful' /\ Accounted' /\ Quoted'
  BY <1>1, <1>2, IdleCall DEF Faithful, Accounted, Quoted, Settled, Answered
<1> QED
  BY <1>3, <1>5, <1>6 DEF Inv

\* What passes the gate on the way to a daemon.
LEMMA PassFacts ==
    ASSUME Inv, request.st = "handler", Len(request.ask.asks) # 0
    PROVE  /\ request.ask.valid
           /\ request.url = "api" => request.auth = "good" /\ request.actor = "good"
<1>1. request.ask.valid
  BY AskedFacts DEF Inv, Admitted
<1>2. /\ Verdict = "pass" /\ request.auth \in {"missing", "malformed", "wrong", "good"}
      /\ request.actor \in {"missing", "malformed", "good"}
  BY DEF Inv, Admitted, Auths, Actors
<1> QED
  BY <1>1, <1>2 DEF Verdict, Public

\* The gate refuses.
LEMMA RefuseStep ==
    ASSUME Inv, Refuse
    PROVE  Inv'
<1>1. call.st = "none" /\ request.st = "gate" /\ StatusOf(Verdict) \in {400, 401}
  BY DEF Refuse, Inv, TypeOK, StatusOf
<1> QED
  BY <1>1, ErrorStep DEF Refuse

\* The handler's schema refuses the arguments.
LEMMA InvalidStep ==
    ASSUME Inv, Invalid
    PROVE  Inv'
<1>1. call.st = "none"
  BY DEF Invalid, Inv, Admitted, OnlyAdmittedCalls
<1> QED
  BY <1>1, ErrorStep DEF Invalid

\* An answer for which no daemon is asked.
LEMMA PlainAnswerStep ==
    ASSUME Inv, NEW b, Handling({"healthz", "wallet"}), Answer(request, 200, b),
           UNCHANGED rpcVars
    PROVE  Inv'
<1>1. DOMAIN request = DOMAIN Nothing
  BY DEF Inv, TypeOK
<1>2. /\ Onward /\ request'.made = request.made /\ request'.failed = request.failed
      /\ request'.st = "answered" /\ request'.status = 200
  BY <1>1, AnswerFields DEF Onward
<1>3. /\ request.failed \subseteq Daemons /\ call.st = "none" /\ request.st = "handler"
      /\ request.ask.route \in {"healthz", "wallet"}
      /\ daemon' = daemon /\ told' = told /\ call' = NoCall
  BY DEF Inv, TypeOK, Handling, Faithful, rpcVars
<1>5. Quoted'
  BY <1>2, <1>3 DEF Quoted, Answered, Showing, Forwarding, Onward
<1> QED
  BY <1>2, <1>3, <1>5, ReplyStep

\* /healthz.
LEMMA HealthzStep ==
    ASSUME Inv, Healthz
    PROVE  Inv'
BY PlainAnswerStep DEF Healthz, Handling

\* /api/wallet, with the chain's answer or without.
LEMMA WalletStep ==
    ASSUME Inv, Wallet
    PROVE  Inv'
<1>1. /\ Handling({"healthz", "wallet"}) /\ UNCHANGED rpcVars
      /\ call.st = "none" /\ request.st = "handler" /\ request.ask.route = "wallet"
  BY DEF Wallet, Handling
<1>2. \/ Answer(request, 200, None) \/ AnswerError(request, 500, "chain")
      \/ AnswerError(request, 503, "wallet_not_configured")
  BY DEF Wallet
<1> QED
  BY <1>1, <1>2, PlainAnswerStep, ErrorStep

\* The handler makes its next call.
LEMMA CallStep ==
    ASSUME Inv, Calls
    PROVE  Inv'
<1> DEFINE ask == request.ask.asks[request.made + 1]
<1>1. /\ request.st = "handler" /\ call.st = "none" /\ call = NoCall
      /\ request.made < Len(request.ask.asks) /\ request.made \in Nat
      /\ daemon' = daemon /\ told' = told
      /\ request.ask \in Asks /\ DOMAIN request = DOMAIN Nothing
  BY DEF Calls, Handling, Inv, TypeOK, Admitted, Faithful
<1>2. Len(request.ask.asks) \in 0 .. 2
  BY <1>1, AskedFacts
<1>3. ask.method \in DOMAIN Methods
  <2>1. request.made + 1 \in 1 .. Len(request.ask.asks)
    BY <1>1, <1>2
  <2> QED
    BY <1>1, <2>1, AskedFacts
<1>4. /\ request.ask.valid
      /\ request.url = "api" => request.auth = "good" /\ request.actor = "good"
  BY <1>1, <1>2, PassFacts
<1>5. CASE ~Encodable(ask)
  <2>1. AnswerError(request, 500, "INTERNAL") /\ UNCHANGED call
    BY <1>5 DEF Calls
  <2> QED
    BY <1>1, <2>1, ErrorStep DEF rpcVars
<1>6. CASE Encodable(ask)
  <2>1. Send(ask) /\ request' = [request EXCEPT !.made = @ + 1]
    BY <1>6 DEF Calls
  <2>2. /\ DOMAIN request' = DOMAIN Nothing /\ request'.st = "handler"
        /\ request'.ask = request.ask /\ request'.auth = request.auth
        /\ request'.actor = request.actor /\ request'.url = request.url
        /\ request'.made = request.made + 1
        /\ request'.failed = request.failed /\ request'.status = request.status
    BY <1>1, <2>1 DEF Nothing
  <2>3. /\ DOMAIN call' = DOMAIN NoCall /\ call'.st = "sent" /\ call'.method = ask.method
        /\ call'.asked = ask.asked /\ call'.waited = 0 /\ call'.status = "none"
        /\ call'.sent = Encode(Methods[ask.method].req, ask.asked)
    BY <2>1 DEF Send, NoCall
  <2>4. TypeOK'
    BY <1>1, <1>2, <1>3, <2>2, <2>3, RpcAssumption DEF Inv, TypeOK, RpcTypeOK
  <2>5. Verdict' = Verdict
    BY <2>2 DEF Verdict, Public
  <2>6. Admitted'
    BY <1>1, <1>2, <1>4, <2>2, <2>5 DEF Inv, Admitted, OnlyAdmittedCalls
  <2>7. Faithful'
    <3>1. Asked' = ask /\ Encodable(Asked)'
      BY <1>6, <2>2 DEF Asked, Encodable
    <3>2. request'.made > 0
      BY <1>1, <2>2
    <3> QED
      BY <2>3, <3>1, <3>2 DEF Faithful, Method
  <2>8. Accounted' /\ Quoted'
    <3>1. Settled' = request.made /\ Settled = request.made
      BY <1>1, <2>2, <2>3 DEF Settled
    <3> QED
      BY <1>1, <2>2, <2>3, <3>1 DEF Inv, Accounted, Quoted, Answered, OfAsk
  <2> QED
    BY <2>4, <2>6, <2>7, <2>8 DEF Inv
<1> QED
  BY <1>5, <1>6

\* The call that ends, and what is noted of it.
LEMMA EndFacts ==
    ASSUME Inv, NEW e, Ends(e)
    PROVE  /\ call.st # "none" /\ request.st = "handler" /\ DOMAIN request = DOMAIN Nothing
           /\ call.method \in DOMAIN Methods /\ Method.of \in Daemons
           /\ e.status = "OK" => Arrives(e)
           /\ e.status = "NOT_FOUND" => Arrives(e)
<1>1. call.st # "none"
  BY DEF Ends, Arrives, Broken, Expires
<1>2. call.method \in DOMAIN Methods
  BY <1>1 DEF Inv, TypeOK, RpcTypeOK
<1> QED
  BY <1>1, <1>2, MethodFacts DEF Inv, TypeOK, Ends, Arrives, Broken, Expires, End, Method

\* What is noted then: with it, /api/health accounts for every call it made.
LEMMA NotedFacts ==
    ASSUME Inv, NEW e, Ends(e), NEW noted, noted = Noted(e)
    PROVE  /\ DOMAIN noted = DOMAIN Nothing /\ noted.st = "handler"
           /\ noted.ask = request.ask /\ noted.auth = request.auth
           /\ noted.actor = request.actor /\ noted.url = request.url
           /\ noted.made = request.made
           /\ noted.status = request.status
           /\ noted.said = call.status /\ noted.meant = call.meant
           /\ noted.failed \subseteq Daemons
           /\ request.made \in 1 .. Len(request.ask.asks)
           /\ request.ask.route = "health" =>
                \A i \in 1 .. request.made : OfAsk(i) \in told \union noted.failed
<1>1. /\ call.st # "none" /\ request.st = "handler" /\ DOMAIN request = DOMAIN Nothing
      /\ Method.of \in Daemons /\ request.failed \subseteq Daemons
  BY EndFacts DEF Inv, TypeOK
<1>2. PICK f : f = IF e.status = "OK" THEN request.failed
                   ELSE request.failed \union {Method.of}
  OBVIOUS
<1>3. noted = [request EXCEPT !.failed = f, !.said = call.status, !.meant = call.meant]
  BY <1>1, <1>2 DEF Noted, Nothing
<1>4. /\ DOMAIN noted = DOMAIN Nothing /\ noted.st = "handler"
      /\ noted.ask = request.ask /\ noted.auth = request.auth
      /\ noted.actor = request.actor /\ noted.url = request.url
      /\ noted.made = request.made
      /\ noted.status = request.status
      /\ noted.said = call.status /\ noted.meant = call.meant /\ noted.failed = f
  BY <1>1, <1>3 DEF Nothing
<1>5. request.made \in 1 .. Len(request.ask.asks)
  <2>1. /\ request.ask \in Asks /\ request.made \in 0 .. 2 /\ request.made > 0
        /\ request.made <= Len(request.ask.asks)
    BY <1>1 DEF Inv, TypeOK, Admitted, Faithful
  <2>2. Len(request.ask.asks) \in 0 .. 2
    BY <2>1, AskedFacts
  <2> QED
    BY <2>1, <2>2
<1>6. ASSUME request.ask.route = "health", NEW i \in 1 .. request.made
      PROVE  OfAsk(i) \in told \union f
  <2>1. CASE i = request.made
    <3>1. OfAsk(i) = Method.of
      BY <1>1, <2>1 DEF Inv, Faithful, Asked, OfAsk, Method
    <3>2. e.status = "OK" => Method.of \in told
      BY EndFacts DEF Inv, Accounted, Arrives
    <3> QED
      BY <1>2, <3>1, <3>2
  <2>2. CASE i # request.made
    <3>1. i \in 1 .. Settled
      BY <1>1, <1>5, <2>2 DEF Settled, Inv, TypeOK
    <3>2. OfAsk(i) \in told \union request.failed
      BY <1>1, <1>6, <3>1 DEF Inv, Accounted
    <3> QED
      BY <1>2, <3>2
  <2> QED
    BY <2>1, <2>2
<1> QED
  BY <1>1, <1>2, <1>4, <1>5, <1>6

\* A call's promise settles.
LEMMA SettlesStep ==
    ASSUME Inv, NEW e, Settles(e)
    PROVE  Inv'
<1>1. PICK noted : noted = Noted(e)
  OBVIOUS
<1>2. Ends(e) /\ call' = NoCall /\ UNCHANGED <<daemon, told>>
  BY DEF Settles
<1>3. /\ DOMAIN noted = DOMAIN Nothing /\ noted.st = "handler"
      /\ noted.ask = request.ask /\ noted.auth = request.auth
      /\ noted.actor = request.actor /\ noted.url = request.url
      /\ noted.made = request.made
      /\ noted.status = request.status
      /\ noted.said = call.status /\ noted.meant = call.meant
      /\ noted.failed \subseteq Daemons
      /\ request.made \in 1 .. Len(request.ask.asks)
      /\ request.ask.route = "health" =>
           \A i \in 1 .. request.made : OfAsk(i) \in told \union noted.failed
  BY <1>1, <1>2, NotedFacts
<1>4. /\ call.st # "none" /\ request.st = "handler" /\ request.ask \in Asks
      /\ e.status = "OK" => Arrives(e)
      /\ e.status = "NOT_FOUND" => Arrives(e)
      /\ request.made \in 0 .. 2
  BY <1>2, EndFacts DEF Inv, Admitted, TypeOK
<1>5. Len(request.ask.asks) \in 0 .. 2 /\ Len(request.ask.asks) # 0
  BY <1>3, <1>4, AskedFacts
<1>6. CASE request.ask.route = "health" /\ request.made < 2
  <2>1. request' = noted
    BY <1>1, <1>6 DEF Settles, Health, Absent
  <2>2. call'.st = "none" /\ call'.method = "none" /\ call'.waited = 0 /\ call'.status = "none"
    BY <1>2, IdleCall
  <2>3. TypeOK'
    BY <1>2, <1>3, <1>4, <2>1, <2>2, MethodFacts, RpcAssumption DEF Inv, TypeOK, RpcTypeOK
  <2>4. Verdict' = Verdict
    BY <1>3, <2>1 DEF Verdict, Public
  <2>5. Admitted'
    BY <1>3, <1>4, <2>1, <2>2, <2>4 DEF Inv, Admitted, OnlyAdmittedCalls
  <2>6. Faithful'
    BY <1>2, <2>2 DEF Faithful
  <2>7. Accounted' /\ Quoted'
    BY <1>2, <1>3, <2>1, <2>2 DEF Accounted, Quoted, Answered, Settled, OfAsk
  <2> QED
    BY <2>3, <2>5, <2>6, <2>7 DEF Inv
<1>7. CASE request.ask.route = "health" /\ request.made = 2
  <2>0. PICK s : s = (IF noted.failed = {} THEN 200 ELSE 503)
    OBVIOUS
  <2>1. PICK b : /\ b = [ok |-> noted.failed = {}]
                 /\ s = (IF noted.failed = {} THEN 200 ELSE 503)
    BY <2>0
  <2>2. Answer(noted, s, b)
    BY <1>1, <1>7, <2>1 DEF Settles, Health, Healthy
  <2>3. /\ Onward /\ request'.made = request.made /\ request'.failed = noted.failed
        /\ request'.st = "answered" /\ request'.status = s /\ request'.body = b
    BY <1>3, <2>2, AnswerFields DEF Onward
  <2>4. s \in {200, 503} /\ (s = 200 <=> noted.failed = {})
    BY <2>1
  <2>5. Quoted'
    BY <1>7, <2>3 DEF Quoted, Answered, Showing, Forwarding, Onward
  <2> QED
    BY <1>2, <1>3, <1>4, <1>7, <2>1, <2>3, <2>4, <2>5, ReplyStep
<1>8. CASE request.ask.route # "health"
  <2>1. /\ request.ask.valid /\ request.ask.route \in Forwarding
    BY <1>4, <1>5, <1>8, AskedFacts, AsksFacts
  <2>2. request.made = 1 /\ call.method = request.ask.asks[1].method
    <3>1. Len(request.ask.asks) = 1
      BY <1>4, <2>1, AskedFacts
    <3>2. request.made = 1
      BY <1>3, <3>1
    <3> QED
      BY <1>4, <3>2 DEF Inv, Faithful, Asked
  <2>3. CASE e.status = "OK" /\ ShowsValue(noted, e.value)
    <3>0. PICK uris, old, b :
             /\ old = [noted EXCEPT !.uris = uris] /\ b = Shown(request.ask, e.value, uris)
             /\ Answer(old, 200, b)
      BY <2>3 DEF ShowsValue
    <3>1. /\ DOMAIN old = DOMAIN Nothing /\ old.ask = request.ask /\ old.auth = request.auth
          /\ old.actor = request.actor /\ old.url = request.url
          /\ old.made = request.made /\ old.said = call.status /\ old.meant = call.meant
          /\ old.failed = noted.failed /\ old.uris = uris
      BY <1>3, <3>0 DEF Nothing
    <3>2. /\ Onward /\ request'.made = request.made /\ request'.failed = noted.failed
          /\ request'.st = "answered" /\ request'.status = 200
          /\ request'.said = call.status /\ request'.meant = call.meant
          /\ request'.uris = uris /\ request'.body = b
      <4>1. Answer(old, 200, b)
        BY <3>0
      <4> QED
        BY ONLY <3>1, <4>1, AnswerFields DEF Onward
    <3>3. call.st = "served" /\ call.status = "OK" /\ e.value = Decode(Method.res, call.answer)
      BY <1>4, <2>3 DEF Arrives
    <3>4. PICK d, v :
             /\ d \in Dialects /\ v \in Answers(Speak(d, Method.res))
             /\ call.answer = Encode(Speak(d, Method.res), v)
             /\ call.meant = Meaning(Method.res, Speak(d, Method.res), v)
      BY <3>3 DEF Inv, Faithful
    <3>5. PICK res : res = Methods[call.method].res
      OBVIOUS
    <3>6. /\ request'.ask = request.ask /\ Methods[request.ask.asks[1].method].res = res
          /\ request'.said = "OK" /\ d \in Dialects /\ v \in Answers(Speak(d, res))
          /\ request'.meant = Meaning(res, Speak(d, res), v)
          /\ request'.body =
               Shown(request'.ask, Decode(res, Encode(Speak(d, res), v)), request'.uris)
      <4>1. Method.res = res /\ Methods[request.ask.asks[1].method].res = res
        BY <2>2, <3>5 DEF Method
      <4>2. request'.ask = request.ask
        BY <3>2 DEF Onward
      <4>3. b = Shown(request.ask, Decode(res, Encode(Speak(d, res), v)), uris)
        BY ONLY <3>0, <3>3, <3>4, <4>1
      <4> QED
        BY ONLY <3>2, <3>3, <3>4, <4>1, <4>2, <4>3
    <3>7. request'.made = 1 /\ request'.status # 404
      BY <2>2, <3>2
    <3>8. Quoted'
      BY <3>6, <3>7 DEF Quoted
    <3> QED
      BY <1>2, <1>3, <1>4, <1>8, <3>2, <3>8, ReplyStep
  <2>4. CASE Absent(e) /\ ShowsAbsence(noted)
    <3>1. e.status = "NOT_FOUND" /\ call.status = "NOT_FOUND"
      BY <1>4, <2>4 DEF Absent, IsNotFound, Arrives
    <3>2. request.ask.route = "orch" => call.method # "Select"
      <4>1. PICK ask : request.ask.asks = <<ask>>
                       /\ (request.ask.route = "orch" => ask.method = "ResolveByAddress")
        BY <1>4, <2>1, AsksFacts
      <4>2. request.ask.asks[1] = ask
        BY <4>1
      <4> QED
        BY <2>2, <4>1, <4>2
    <3>3. ASSUME NEW b, Answer(noted, 200, b), request.ask.route = "orch" => b = [orch |-> None]
          PROVE  Inv'
      <4>1. /\ Onward /\ request'.made = request.made /\ request'.failed = noted.failed
            /\ request'.st = "answered" /\ request'.status = 200
            /\ request'.said = call.status /\ request'.body = b
        BY <1>3, <3>3, AnswerFields DEF Onward
      <4>2. Quoted'
        BY <3>1, <3>3, <4>1 DEF Quoted, Onward
      <4> QED
        BY <1>2, <1>3, <1>4, <1>8, <4>1, <4>2, ReplyStep
    <3>4. CASE AnswerError(noted, 404, "orch_not_found")
      <4>1. /\ Onward /\ request'.made = request.made /\ request'.failed = noted.failed
            /\ request'.st = "answered" /\ request'.status = 404
            /\ request'.said = call.status
        BY <1>3, <3>4, ErrorFields DEF Onward
      <4>2. Quoted'
        BY <3>1, <4>1 DEF Quoted
      <4> QED
        BY <1>2, <1>3, <1>4, <1>8, <4>1, <4>2, ReplyStep
    <3>5. CASE call.method = "Select" /\ Answer(noted, 200, NothingFound(call.method))
      <4>1. PICK b : b = NothingFound(call.method)
        OBVIOUS
      <4> QED
        BY <3>2, <3>3, <3>5, <4>1
    <3>6. CASE call.method # "Select" /\ Answer(noted, 200, [orch |-> NothingFound(call.method)])
      <4>1. PICK b : b = [orch |-> None]
        OBVIOUS
      <4>2. NothingFound(call.method) = None
        BY <3>6 DEF NothingFound
      <4> QED
        BY <3>3, <3>6, <4>1, <4>2
    <3> QED
      BY <2>4, <3>4, <3>5, <3>6 DEF ShowsAbsence
  <2>5. CASE AnswerError(noted, 500, e.status) \/ AnswerError(noted, 500, "chain")
    <3>1. /\ Onward /\ request'.made = request.made /\ request'.failed = noted.failed
          /\ request'.st = "answered" /\ request'.status = 500
      BY <1>3, <2>5, ErrorFields DEF Onward
    <3>2. Quoted'
      BY <3>1 DEF Quoted
    <3> QED
      BY <1>2, <1>3, <1>4, <1>8, <3>1, <3>2, ReplyStep
  <2> QED
    BY <1>1, <1>8, <2>3, <2>4, <2>5 DEF Settles
<1> QED
  BY <1>4, <1>6, <1>7, <1>8

\* The chain fails before the call of /api/orchs/:address has settled.
LEMMA ChainFailsStep ==
    ASSUME Inv, ChainFails
    PROVE  Inv'
<1>1. /\ call.st # "none" /\ request.ask.route = "orch" /\ call' = NoCall
      /\ UNCHANGED <<daemon, told>> /\ AnswerError(request, 500, "chain")
  BY DEF ChainFails
<1>2. /\ DOMAIN request = DOMAIN Nothing /\ request.st = "handler"
      /\ request.failed \subseteq Daemons /\ request.ask \in Asks
  BY <1>1 DEF Inv, TypeOK, Admitted
<1>3. /\ Onward /\ request'.made = request.made /\ request'.failed = request.failed
      /\ request'.st = "answered" /\ request'.status = 500
  BY <1>1, <1>2, ErrorFields DEF Onward
<1>4. Quoted'
  BY <1>3 DEF Quoted
<1> QED
  BY <1>1, <1>2, <1>3, <1>4, ReplyStep

\* What moves the daemons and the clock leaves the request where it is.
LEMMA EnvironmentStep ==
    ASSUME Inv, UNCHANGED request, DOMAIN call' = DOMAIN NoCall,
           told \subseteq told', told' \subseteq Daemons, daemon' \in [Daemons -> States],
           call.st = "none" <=> call'.st = "none", call'.st \in {"none", "sent", "served"},
           call'.waited \in 0 .. Deadline, call'.method = call.method,
           call'.st = "served" <=> call'.status \in {"OK", "NOT_FOUND", "INTERNAL"},
           Faithful', call'.st = "served" /\ call'.status = "OK" => Method.of \in told'
    PROVE  Inv'
<1>1. TypeOK'
  BY DEF Inv, TypeOK, RpcTypeOK
<1>2. Admitted'
  BY DEF Inv, Admitted, OnlyAdmittedCalls, Verdict, Public
<1>3. Settled' = Settled
  BY DEF Settled
<1>4. \A i : OfAsk(i)' = OfAsk(i)
  BY DEF OfAsk
<1>5. request.st = "answered" => call.st = "none"
  BY DEF Inv, TypeOK
<1>6. Accounted'
  BY <1>3, <1>4, <1>5 DEF Inv, Accounted, Answered, Method
<1>7. Quoted'
  BY DEF Inv, Quoted, Answered
<1> QED
  BY <1>1, <1>2, <1>6, <1>7 DEF Inv

\* A call waits.
LEMMA TickStep ==
    ASSUME Inv, Tick, UNCHANGED request
    PROVE  Inv'
<1>1. /\ call.st # "none" /\ daemon' = daemon /\ told' = told
      /\ call.waited \in 0 .. Deadline /\ call.waited < Deadline
      /\ DOMAIN call = DOMAIN NoCall /\ told \subseteq Daemons
      /\ daemon \in [Daemons -> States] /\ Deadline \in Nat
      /\ call.st \in {"none", "sent", "served"}
      /\ call.st = "served" <=> call.status \in {"OK", "NOT_FOUND", "INTERNAL"}
  BY RpcAssumption DEF Tick, Inv, TypeOK, RpcTypeOK
<1>2. call' = [call EXCEPT !.waited = @ + 1]
  BY DEF Tick
<1>3. /\ DOMAIN call' = DOMAIN NoCall /\ call'.st = call.st /\ call'.method = call.method
      /\ call'.asked = call.asked /\ call'.sent = call.sent /\ call'.heard = call.heard
      /\ call'.status = call.status /\ call'.answer = call.answer
      /\ call'.meant = call.meant /\ call'.waited = call.waited + 1
  BY <1>1, <1>2 DEF NoCall
<1>4. call'.waited \in 0 .. Deadline
  BY <1>1, <1>3
<1>5. Asked' = Asked /\ Encodable(Asked)' = Encodable(Asked) /\ Method' = Method
  BY <1>3 DEF Asked, Encodable, Method
<1>6. Faithful'
  BY <1>1, <1>3, <1>5 DEF Inv, Faithful
<1>7. call.st = "served" /\ call.status = "OK" => Method.of \in told
  BY DEF Inv, Accounted
<1> QED
  BY <1>1, <1>3, <1>4, <1>6, <1>7, EnvironmentStep

\* A daemon goes or comes.
LEMMA ChangesStep ==
    ASSUME Inv, NEW d \in Daemons, NEW s \in States, Changes(d, s), UNCHANGED request
    PROVE  Inv'
<1>1. /\ daemon' = [daemon EXCEPT ![d] = s] /\ call' = call /\ told' = told
  BY DEF Changes
<1>2. /\ DOMAIN call = DOMAIN NoCall /\ told \subseteq Daemons
      /\ daemon \in [Daemons -> States] /\ call.waited \in 0 .. Deadline
      /\ call.st \in {"none", "sent", "served"}
      /\ call.st = "served" <=> call.status \in {"OK", "NOT_FOUND", "INTERNAL"}
  BY DEF Inv, TypeOK, RpcTypeOK
<1>3. daemon' \in [Daemons -> States]
  BY <1>1, <1>2
<1>4. Faithful'
  BY <1>1 DEF Inv, Faithful, Asked, Encodable, Method
<1>5. call.st = "served" /\ call.status = "OK" => Method.of \in told
  BY DEF Inv, Accounted
<1> QED
  BY <1>1, <1>2, <1>3, <1>4, <1>5, EnvironmentStep

\* A daemon answers, in a version of its own.
LEMMA ServeStep ==
    ASSUME Inv, NEW s \in {"OK", "NOT_FOUND", "INTERNAL"}, NEW d \in Dialects, Serve(s, d),
           UNCHANGED request
    PROVE  Inv'
<1>1. PICK heard : heard = <<d, Decode(Speak(d, Method.req), call.sent)>>
  OBVIOUS
<1>2. PICK theirs : theirs = Speak(d, Method.res)
  OBVIOUS
<1>3. PICK served : served = [call EXCEPT !.st = "served", !.status = s, !.heard = heard]
  OBVIOUS
<1>4. /\ call.st = "sent" /\ daemon' = daemon
      /\ IF s # "OK" THEN call' = served
         ELSE \E v \in Answers(theirs) :
                call' = [served EXCEPT !.answer = Encode(theirs, v),
                                       !.meant = Meaning(Method.res, theirs, v)]
      /\ told' = IF s = "OK" THEN told \union {Method.of} ELSE told
  BY <1>1, <1>2, <1>3 DEF Serve
<1>5. /\ DOMAIN call = DOMAIN NoCall /\ told \subseteq Daemons
      /\ daemon \in [Daemons -> States] /\ call.waited \in 0 .. Deadline
      /\ Method.of \in Daemons
  <2>1. call.method \in DOMAIN Methods
    BY <1>4 DEF Inv, TypeOK, RpcTypeOK
  <2>2. Method.of \in Daemons
    BY <2>1, MethodFacts DEF Method
  <2> QED
    BY <2>2 DEF Inv, TypeOK, RpcTypeOK
<1>6. /\ DOMAIN served = DOMAIN NoCall /\ served.st = "served" /\ served.status = s
      /\ served.method = call.method /\ served.asked = call.asked /\ served.sent = call.sent
      /\ served.heard = heard /\ served.waited = call.waited
  BY <1>3, <1>5 DEF NoCall
<1>7. /\ DOMAIN call' = DOMAIN NoCall /\ call'.st = "served" /\ call'.status = s
      /\ call'.method = call.method /\ call'.asked = call.asked /\ call'.sent = call.sent
      /\ call'.heard = heard /\ call'.waited = call.waited
      /\ s = "OK" => \E v \in Answers(theirs) :
                       /\ call'.answer = Encode(theirs, v)
                       /\ call'.meant = Meaning(Method.res, theirs, v)
  <2>1. CASE s # "OK"
    BY <1>4, <1>6, <2>1
  <2>2. CASE s = "OK"
    <3>1. PICK v \in Answers(theirs) :
            call' = [served EXCEPT !.answer = Encode(theirs, v),
                                   !.meant = Meaning(Method.res, theirs, v)]
      BY <1>4, <2>2
    <3>2. PICK b, x : b = Encode(theirs, v) /\ x = Meaning(Method.res, theirs, v)
      OBVIOUS
    <3>3. call' = [served EXCEPT !.answer = b, !.meant = x]
      BY <3>1, <3>2
    <3>4. /\ DOMAIN call' = DOMAIN NoCall /\ call'.st = "served" /\ call'.status = s
          /\ call'.method = call.method /\ call'.asked = call.asked
          /\ call'.sent = call.sent /\ call'.heard = heard /\ call'.waited = call.waited
          /\ call'.answer = b /\ call'.meant = x
      BY <1>6, <3>3 DEF NoCall
    <3> QED
      BY <3>2, <3>4
  <2> QED
    BY <2>1, <2>2
<1>8. Asked' = Asked /\ Encodable(Asked)' = Encodable(Asked) /\ Method' = Method
  BY <1>7 DEF Asked, Encodable, Method
<1>9. Faithful'
  <2>1. /\ request.made > 0 /\ Encodable(Asked)
        /\ call.method = Asked.method /\ call.asked = Asked.asked
        /\ call.sent = Encode(Method.req, call.asked)
    BY <1>4 DEF Inv, Faithful
  <2> QED
    BY <1>1, <1>2, <1>7, <1>8, <2>1 DEF Faithful
<1>10. told \subseteq told' /\ told' \subseteq Daemons /\ (s = "OK" => Method.of \in told')
  BY <1>4, <1>5
<1> QED
  BY <1>4, <1>5, <1>7, <1>9, <1>10, EnvironmentStep
----------------------------------------------------------------------------
(* The theorems.                                                           *)

\* Inv holds in every reachable state: it does in the first, and every step keeps it.
LEMMA Invariance == Spec => []Inv
<1>1. Init => Inv
  <2> SUFFICES ASSUME Init PROVE Inv
    OBVIOUS
  <2>1. /\ daemon = [d \in Daemons |-> "up"] /\ call = NoCall /\ told = {}
        /\ request = Nothing
    BY DEF Init, RpcInit
  <2>2. /\ Nothing.st = "none" /\ Nothing.made = 0
        /\ Nothing.ask = Ask("healthz", <<>>) /\ Nothing.failed = {} /\ Nothing.status = 0
        /\ Nothing.auth = "missing" /\ Nothing.actor = "missing"
        /\ Nothing.url = "other"
    BY DEF Nothing
  <2>3. Ask("healthz", <<>>) \in Asks /\ Len(Ask("healthz", <<>>).asks) = 0
    BY DEF Asks, Ask
  <2>4. TypeOK
    BY <2>1, <2>2, IdleCall, MethodFacts, RpcAssumption DEF TypeOK, RpcTypeOK, States
  <2>5. Admitted
    BY <2>1, <2>2, <2>3, IdleCall DEF Admitted, OnlyAdmittedCalls, Auths, Actors, Urls
  <2>6. Faithful /\ Accounted /\ Quoted
    BY <2>1, <2>2, IdleCall DEF Faithful, Accounted, Quoted, Answered
  <2> QED
    BY <2>4, <2>5, <2>6 DEF Inv
<1>2. Inv /\ [Next]_vars => Inv'
  <2> SUFFICES ASSUME Inv, [Next]_vars PROVE Inv'
    OBVIOUS
  <2>1. CASE \E ask \in Asks, auth \in Auths, actor \in Actors, url \in Urls :
               Receive(ask, auth, actor, url)
    BY <2>1, ReceiveStep
  <2>2. CASE Refuse \/ Admit \/ Invalid \/ Healthz \/ Wallet \/ Calls
    BY <2>2, RefuseStep, AdmitStep, InvalidStep, HealthzStep, WalletStep, CallStep
  <2>3. CASE Fails \/ Succeeds \/ ChainFails
    BY <2>3, SettlesStep, ChainFailsStep DEF Fails, Succeeds
  <2>4. CASE Done
    BY <2>4, DoneStep
  <2>5. CASE Environment
    BY <2>5, TickStep, ServeStep, ChangesStep DEF Environment
  <2>6. CASE UNCHANGED vars
    <3>1. UNCHANGED <<daemon, call, told, request>>
      BY <2>6 DEF vars, rpcVars
    <3>2. TypeOK'
      BY <3>1 DEF Inv, TypeOK, RpcTypeOK
    <3>3. Admitted'
      BY <3>1 DEF Inv, Admitted, OnlyAdmittedCalls, Verdict, Public
    <3>4. Faithful'
      BY <3>1 DEF Inv, Faithful, Asked, Encodable, Method
    <3>5. Accounted'
      BY <3>1 DEF Inv, Accounted, Settled, OfAsk, Answered, Method
    <3>6. Quoted'
      BY <3>1 DEF Inv, Quoted, Answered
    <3> QED
      BY <3>2, <3>3, <3>4, <3>5, <3>6 DEF Inv
  <2> QED
    BY <2>1, <2>2, <2>3, <2>4, <2>5, <2>6 DEF Next, Handle
<1> QED
  BY <1>1, <1>2, PTL DEF Spec

\* Requests, calls and answers are of their types, whatever comes.
THEOREM TypeCorrect == Spec => []TypeOK
BY Invariance, PTL DEF Inv

\* No daemon hears of a request whose URL begins with /api/ without the token
\* and an actor, nor of any with invalid arguments (server.ts:173-202).
THEOREM CallsAreAdmitted == Spec => []OnlyAdmittedCalls
BY Invariance, PTL DEF Inv, Admitted

\* What a daemon answers with is a message of one of the two protocols.
LEMMA ResultFacts ==
    ASSUME NEW m \in DOMAIN Methods
    PROVE  Methods[m].res \in RegistryMessages \union PaymentMessages
<1>1. /\ {HealthResult, ListKnownResult, ResolveResult, SelectResult, Empty, AuditLogResult}
           \subseteq RegistryMessages
      /\ GetDepositInfoResponse \in PaymentMessages
  BY DEF RegistryMessages, PaymentMessages
<1>2. Methods[m].res \in {HealthResult, ListKnownResult, ResolveResult, SelectResult, Empty,
                          AuditLogResult, GetDepositInfoResponse}
  BY DEF Methods, Rpc
<1> QED
  BY <1>1, <1>2

\* What a route that shows something has asked.
LEMMA ShowingFacts ==
    ASSUME Inv, Answered(Showing), request.status = 200, request.said # "NOT_FOUND"
    PROVE  /\ request.said = "OK" /\ request.ask.asks[1].method \in DOMAIN Methods
           /\ request.ask.route = "orch" =>
                request.ask.asks[1].method = "ResolveByAddress"
           /\ request.ask.route = "search" => request.ask.asks[1].method = "Select"
<1>1. /\ request.made = 1 /\ request.said = "OK" /\ request.ask \in Asks
      /\ request.ask.valid
  <2>1. request.made = 1 /\ request.said = "OK"
    BY DEF Inv, Quoted
  <2> QED
    BY <2>1 DEF Inv, Admitted, OnlyAdmittedCalls
<1>2. request.ask.route \in Forwarding
  BY DEF Answered, Showing
<1>3. PICK ask : /\ request.ask.asks = <<ask>> /\ ask.method \in DOMAIN Methods
                 /\ request.ask.route = "orch" => ask.method = "ResolveByAddress"
                 /\ request.ask.route = "search" => ask.method = "Select"
  BY <1>1, <1>2, AsksFacts
<1>4. request.ask.asks[1] = ask
  BY <1>3
<1> QED
  BY <1>1, <1>3, <1>4

----------------------------------------------------------------------------
(* The codecs keep every message.                                          *)

\* A field numbered i and named x, as the constructors of fields make them.
Made(f, i, x) ==
    /\ f = Field(f.no, f.name, f.label, f.type, f.of)
    /\ f.no = i /\ f.name = x
    /\ f.type = "date" => f.label = "optional"
    /\ f.type = "message" => f.label \in {"optional", "many"}
    /\ f.label = "many" => f.type \in {"message", "string"}

\* Every constructor makes such a field.
LEMMA MadeSo ==
    ASSUME NEW i, NEW x
    PROVE  /\ Made(Str(i, x), i, x) /\ Made(Bytes(i, x), i, x) /\ Made(Bool(i, x), i, x)
           /\ Made(Num(i, x), i, x) /\ Made(Enum(i, x), i, x) /\ Made(Date(i, x), i, x)
           /\ Made(Strs(i, x), i, x)
           /\ \A of : Made(Sub(i, x, of), i, x) /\ Made(Many(i, x, of), i, x)
<1>1. /\ Made(Str(i, x), i, x) /\ Made(Bytes(i, x), i, x) /\ Made(Bool(i, x), i, x)
  BY DEF Made, Field, Str, Bytes, Bool
<1>2. /\ Made(Num(i, x), i, x) /\ Made(Enum(i, x), i, x) /\ Made(Date(i, x), i, x)
  BY DEF Made, Field, Num, Enum, Date
<1>3. Made(Strs(i, x), i, x)
  BY DEF Made, Field, Strs
<1>4. ASSUME NEW of
      PROVE  Made(Sub(i, x, of), i, x) /\ Made(Many(i, x, of), i, x)
  BY DEF Made, Field, Sub, Many
<1> QED
  BY ONLY <1>1, <1>2, <1>3, <1>4

\* Up to twenty of them, numbered in their order and each with its own name.
LEMMA ProtoOf ==
    ASSUME NEW m, NEW N \in 1 .. 20, IsSeq(m), DOMAIN m = 1 .. Len(m), Len(m) = N,
           NEW names, \A i \in 1 .. N : Made(m[i], i, names[i]),
           \A h, i \in 1 .. N : h # i => names[h] # names[i],
           \A i \in 1 .. N : names[i] \notin {"addedInt", "addedStr"}
    PROVE  Proto(m)
<1>1. DOMAIN m = 1 .. N
  OBVIOUS
<1>2. ASSUME NEW i \in DOMAIN m
      PROVE  /\ m[i] = Field(m[i].no, m[i].name, m[i].label, m[i].type, m[i].of)
             /\ m[i].no \in 1 .. 20 /\ m[i].name \notin {"addedInt", "addedStr"}
             /\ m[i].type = "date" => m[i].label = "optional"
             /\ m[i].type = "message" => m[i].label \in {"optional", "many"}
             /\ m[i].label = "many" => m[i].type \in {"message", "string"}
  <2>1. Made(m[i], i, names[i]) /\ names[i] \notin {"addedInt", "addedStr"} /\ i \in 1 .. N
    BY <1>1, <1>2
  <2>2. i \in 1 .. 20
    BY ONLY <2>1, N \in 1 .. 20
  <2> QED
    BY ONLY <2>1, <2>2 DEF Made
<1>3. ASSUME NEW h \in DOMAIN m, NEW i \in DOMAIN m, h # i
      PROVE  m[h].no # m[i].no /\ m[h].name # m[i].name
  <2>1. Made(m[h], h, names[h]) /\ Made(m[i], i, names[i]) /\ names[h] # names[i]
    BY <1>1, <1>3
  <2> QED
    BY ONLY <1>3, <2>1 DEF Made
<1> QED
  BY <1>2, <1>3 DEF Proto

\* The messages with nothing nested in them are such messages.
LEMMA Messages1 ==
    /\ Good1(Empty)
    /\ Good1(Timestamp)
    /\ Good1(Offering)
    /\ Good1(ResolveByAddressRequest)
    /\ Good1(SelectRequest)
    /\ Good1(SelectedRoute)
    /\ Good1(ListKnownRequest)
    /\ Good1(RefreshRequest)
    /\ Good1(IdentityResult)
    /\ Good1(BuildResult)
    /\ Good1(BuildAndSignRequest)
    /\ Good1(SignManifestRequest)
    /\ Good1(SignedManifest)
    /\ Good1(TxHashResult)
    /\ Good1(ProbeWorkerRequest)
    /\ Good1(ProbeResult)
    /\ Good1(CreatePaymentRequest)
    /\ Good1(CreatePaymentResponse)
    /\ Good1(GetDepositInfoRequest)
    /\ Good1(GetDepositInfoResponse)
    /\ Good1(PriceInfo)
    /\ Good1(TicketExpirationParams)
    /\ Good1(TicketSenderParams)
    /\ Good1(GetQuoteRequest)
    /\ Good1(GetTicketParamsRequest)
    /\ Good1(ListCapabilitiesRequest)
    /\ Good1(OpenSessionRequest)
    /\ Good1(OpenSessionResponse)
    /\ Good1(ProcessPaymentRequest)
    /\ Good1(ProcessPaymentResponse)
    /\ Good1(DebitBalanceRequest)
    /\ Good1(DebitBalanceResponse)
    /\ Good1(SufficientBalanceRequest)
    /\ Good1(SufficientBalanceResponse)
    /\ Good1(GetBalanceRequest)
    /\ Good1(GetBalanceResponse)
    /\ Good1(PayeeDaemonCloseSessionRequest)
    /\ Good1(PayeeDaemonCloseSessionResponse)
    /\ Good1(ListPendingRedemptionsRequest)
    /\ Good1(PendingRedemption)
    /\ Good1(GetRedemptionStatusRequest)
    /\ Good1(GetRedemptionStatusResponse)
<1>1. Good1(Empty)
  BY DEF Good1, Proto, IsSeq, IsNested, Empty
<1>2. Good1(Timestamp)
  BY DEF Good1, Proto, IsSeq, IsNested, Timestamp, Num, Field
<1>3. Good1(Offering)
  BY DEF Good1, Proto, IsSeq, IsNested, Offering, Str, Bytes, Field
<1>4. Good1(ResolveByAddressRequest)
  BY DEF Good1, Proto, IsSeq, IsNested, ResolveByAddressRequest, Str, Bool, Field
<1>5. Good1(SelectRequest)
  BY DEF Good1, Proto, IsSeq, IsNested, SelectRequest, Str, Num, Field
<1>6. Good1(SelectedRoute)
  BY DEF Good1, Proto, IsSeq, IsNested, SelectedRoute, Str, Bytes, Field
<1>7. Good1(ListKnownRequest)
  BY DEF Good1, Proto, IsSeq, IsNested, ListKnownRequest
<1>8. Good1(RefreshRequest)
  BY DEF Good1, Proto, IsSeq, IsNested, RefreshRequest, Str, Bool, Field
<1>9. Good1(IdentityResult)
  BY DEF Good1, Proto, IsSeq, IsNested, IdentityResult, Str, Field
<1>10. Good1(BuildResult)
  BY DEF Good1, Proto, IsSeq, IsNested, BuildResult, Str, Bytes, Field
<1>11. Good1(BuildAndSignRequest)
  BY DEF Good1, Proto, IsSeq, IsNested, BuildAndSignRequest, Bytes, Field
<1>12. Good1(SignManifestRequest)
  BY DEF Good1, Proto, IsSeq, IsNested, SignManifestRequest, Bytes, Field
<1>14. Good1(SignedManifest)
  BY DEF Good1, Proto, IsSeq, IsNested, SignedManifest, Str, Bytes, Field
<1>13. Good1(TxHashResult)
  BY DEF Good1, Proto, IsSeq, IsNested, TxHashResult, Str, Field
<1>15. Good1(ProbeWorkerRequest)
  BY DEF Good1, Proto, IsSeq, IsNested, ProbeWorkerRequest, Str, Num, Field
<1>16. Good1(ProbeResult)
  BY DEF Good1, Proto, IsSeq, IsNested, ProbeResult, Bytes, Field
<1>17. Good1(CreatePaymentRequest)
  BY DEF Good1, Proto, IsSeq, IsNested, CreatePaymentRequest, Str, Bytes, Field
<1>18. Good1(CreatePaymentResponse)
  BY DEF Good1, Proto, IsSeq, IsNested, CreatePaymentResponse, Bytes, Num, Field
<1>19. Good1(GetDepositInfoRequest)
  BY DEF Good1, Proto, IsSeq, IsNested, GetDepositInfoRequest
<1>20. Good1(GetDepositInfoResponse)
  BY DEF Good1, Proto, IsSeq, IsNested, GetDepositInfoResponse, Bytes, Num, Field
<1>21. Good1(PriceInfo)
  BY DEF Good1, Proto, IsSeq, IsNested, PriceInfo, Str, Num, Field
<1>22. Good1(TicketExpirationParams)
  BY DEF Good1, Proto, IsSeq, IsNested, TicketExpirationParams, Bytes, Num, Field
<1>23. Good1(TicketSenderParams)
  BY DEF Good1, Proto, IsSeq, IsNested, TicketSenderParams, Bytes, Num, Field
<1>24. Good1(GetQuoteRequest)
  BY DEF Good1, Proto, IsSeq, IsNested, GetQuoteRequest, Str, Bytes, Field
<1>25. Good1(GetTicketParamsRequest)
  BY DEF Good1, Proto, IsSeq, IsNested, GetTicketParamsRequest, Str, Bytes, Field
<1>26. Good1(ListCapabilitiesRequest)
  BY DEF Good1, Proto, IsSeq, IsNested, ListCapabilitiesRequest
<1>27. Good1(OpenSessionRequest)
  BY DEF Good1, Proto, IsSeq, IsNested, OpenSessionRequest, Str, Bytes, Field
<1>28. Good1(OpenSessionResponse)
  BY DEF Good1, Proto, IsSeq, IsNested, OpenSessionResponse, Enum, Field
<1>29. Good1(ProcessPaymentRequest)
  BY DEF Good1, Proto, IsSeq, IsNested, ProcessPaymentRequest, Str, Bytes, Field
<1>30. Good1(ProcessPaymentResponse)
  BY DEF Good1, Proto, IsSeq, IsNested, ProcessPaymentResponse, Bytes, Num, Field
<1>31. Good1(DebitBalanceRequest)
  BY DEF Good1, Proto, IsSeq, IsNested, DebitBalanceRequest, Str, Bytes, Num, Field
<1>32. Good1(DebitBalanceResponse)
  BY DEF Good1, Proto, IsSeq, IsNested, DebitBalanceResponse, Bytes, Field
<1>33. Good1(SufficientBalanceRequest)
  BY DEF Good1, Proto, IsSeq, IsNested, SufficientBalanceRequest, Str, Bytes, Num,
    Field
<1>34. Good1(SufficientBalanceResponse)
  BY DEF Good1, Proto, IsSeq, IsNested, SufficientBalanceResponse, Bytes, Bool, Field
<1>35. Good1(GetBalanceRequest)
  BY DEF Good1, Proto, IsSeq, IsNested, GetBalanceRequest, Str, Bytes, Field
<1>36. Good1(GetBalanceResponse)
  BY DEF Good1, Proto, IsSeq, IsNested, GetBalanceResponse, Bytes, Field
<1>37. Good1(PayeeDaemonCloseSessionRequest)
  BY DEF Good1, Proto, IsSeq, IsNested, PayeeDaemonCloseSessionRequest, Str, Bytes,
    Field
<1>38. Good1(PayeeDaemonCloseSessionResponse)
  BY DEF Good1, Proto, IsSeq, IsNested, PayeeDaemonCloseSessionResponse, Enum, Field
<1>39. Good1(ListPendingRedemptionsRequest)
  BY DEF Good1, Proto, IsSeq, IsNested, ListPendingRedemptionsRequest, Num, Field
<1>40. Good1(PendingRedemption)
  BY DEF Good1, Proto, IsSeq, IsNested, PendingRedemption, Bytes, Num, Field
<1>41. Good1(GetRedemptionStatusRequest)
  BY DEF Good1, Proto, IsSeq, IsNested, GetRedemptionStatusRequest, Bytes, Field
<1>42. Good1(GetRedemptionStatusResponse)
  <2>1. Proto(GetRedemptionStatusResponse)
    <3>1. IsSeq(GetRedemptionStatusResponse)
          /\ DOMAIN GetRedemptionStatusResponse = 1 .. Len(GetRedemptionStatusResponse)
          /\ Len(GetRedemptionStatusResponse) = 3 /\ 3 \in 1 .. 20
      BY DEF IsSeq, GetRedemptionStatusResponse
    <3>2. PICK names : names = <<"status", "txHash", "error">>
      OBVIOUS
    <3>3. \A i \in 1 .. 3 : Made(GetRedemptionStatusResponse[i], i, names[i])
      <4>1. /\ Made(GetRedemptionStatusResponse[1], 1, names[1])
            /\ Made(GetRedemptionStatusResponse[2], 2, names[2])
            /\ Made(GetRedemptionStatusResponse[3], 3, names[3])
        BY ONLY <3>2, MadeSo DEF GetRedemptionStatusResponse
      <4> QED
        BY ONLY <4>1
    <3>4. \A h, i \in 1 .. 3 : h # i => names[h] # names[i]
      BY ONLY <3>2
    <3>5. \A i \in 1 .. 3 : names[i] \notin {"addedInt", "addedStr"}
      BY ONLY <3>2
    <3> QED
      BY ONLY <3>1, <3>3, <3>4, <3>5, ProtoOf
  <2>2. \A i \in DOMAIN GetRedemptionStatusResponse :
          ~IsNested(GetRedemptionStatusResponse[i])
    BY DEF IsNested, GetRedemptionStatusResponse, Str, Bytes, Enum, Field
  <2> QED
    BY ONLY <2>1, <2>2 DEF Good1
<1> QED
  BY ONLY <1>1, <1>2, <1>3, <1>4, <1>5, <1>6, <1>7, <1>8, <1>9, <1>10, <1>11, <1>12,
    <1>13, <1>14, <1>15, <1>16, <1>17, <1>18, <1>19, <1>20, <1>21, <1>22, <1>23, <1>24,
    <1>25, <1>26, <1>27, <1>28, <1>29, <1>30, <1>31, <1>32, <1>33, <1>34, <1>35, <1>36,
    <1>37, <1>38, <1>39, <1>40, <1>41, <1>42

\* Those with dates or one level of messages in them.
LEMMA Messages2 ==
    /\ Good2(Capability)
    /\ Good2(SelectResult)
    /\ Good2(KnownEntry)
    /\ Good2(GetAuditLogRequest)
    /\ Good2(AuditEvent)
    /\ Good2(HealthResult)
    /\ Good2(TicketParams)
    /\ Good2(OfferingPrice)
    /\ Good2(ListPendingRedemptionsResponse)
<1>1. Good2(Capability)
  <2>1. Proto(Capability)
    BY DEF Proto, IsSeq, Capability, Str, Bytes, Many, Field
  <2>2. \A i \in DOMAIN Capability : Capability[i].type = "message" =>
          Capability[i].of \in {Offering}
    BY DEF Capability, Str, Bytes, Many, Field
  <2> QED
    BY <2>1, <2>2, Messages1 DEF Good2
<1>2. Good2(SelectResult)
  BY Messages1 DEF Good2, Proto, IsSeq, SelectResult, Sub, Field
<1>3. Good2(KnownEntry)
  BY DEF Good2, Proto, IsSeq, KnownEntry, Str, Enum, Date, Field
<1>4. Good2(GetAuditLogRequest)
  BY DEF Good2, Proto, IsSeq, GetAuditLogRequest, Str, Num, Date, Field
<1>5. Good2(AuditEvent)
  <2>1. Proto(AuditEvent)
    BY DEF Proto, IsSeq, AuditEvent, Str, Enum, Date, Field
  <2>2. \A i \in DOMAIN AuditEvent : AuditEvent[i].type # "message"
    BY DEF AuditEvent, Str, Enum, Date, Field
  <2> QED
    BY ONLY <2>1, <2>2 DEF Good2
<1>6. Good2(HealthResult)
  <2>1. Proto(HealthResult)
    <3>1. IsSeq(HealthResult) /\ DOMAIN HealthResult = 1 .. Len(HealthResult)
          /\ Len(HealthResult) = 5 /\ 5 \in 1 .. 20
      BY DEF IsSeq, HealthResult
    <3>2. PICK names : names = <<"mode", "chainOk", "manifestFetcherOk", "cacheSize",
                                 "lastChainSuccess">>
      OBVIOUS
    <3>3. \A i \in 1 .. 5 : Made(HealthResult[i], i, names[i])
      <4>1. /\ Made(HealthResult[1], 1, names[1]) /\ Made(HealthResult[2], 2, names[2])
            /\ Made(HealthResult[3], 3, names[3]) /\ Made(HealthResult[4], 4, names[4])
        BY ONLY <3>2, MadeSo DEF HealthResult
      <4>2. Made(HealthResult[5], 5, names[5])
        BY ONLY <3>2, MadeSo DEF HealthResult
      <4> QED
        BY ONLY <4>1, <4>2
    <3>4. \A h, i \in 1 .. 5 : h # i => names[h] # names[i]
      BY ONLY <3>2
    <3>5. \A i \in 1 .. 5 : names[i] \notin {"addedInt", "addedStr"}
      BY ONLY <3>2
    <3> QED
      BY ONLY <3>1, <3>3, <3>4, <3>5, ProtoOf
  <2>2. \A i \in DOMAIN HealthResult : HealthResult[i].type # "message"
    BY DEF HealthResult, Str, Bool, Num, Date, Field
  <2> QED
    BY ONLY <2>1, <2>2 DEF Good2
<1>7. Good2(TicketParams)
  <2>1. Proto(TicketParams)
    <3>1. IsSeq(TicketParams) /\ DOMAIN TicketParams = 1 .. Len(TicketParams)
          /\ Len(TicketParams) = 7 /\ 7 \in 1 .. 20
      BY DEF IsSeq, TicketParams
    <3>2. PICK names : names = <<"recipient", "faceValue", "winProb", "recipientRandHash",
                                 "seed", "expirationBlock", "expirationParams">>
      OBVIOUS
    <3>3. \A i \in 1 .. 7 : Made(TicketParams[i], i, names[i])
      <4>1. /\ Made(TicketParams[1], 1, names[1]) /\ Made(TicketParams[2], 2, names[2])
            /\ Made(TicketParams[3], 3, names[3]) /\ Made(TicketParams[4], 4, names[4])
        BY ONLY <3>2, MadeSo DEF TicketParams
      <4>2. /\ Made(TicketParams[5], 5, names[5]) /\ Made(TicketParams[6], 6, names[6])
            /\ Made(TicketParams[7], 7, names[7])
        BY ONLY <3>2, MadeSo DEF TicketParams
      <4> QED
        BY ONLY <4>1, <4>2
    <3>4. \A h, i \in 1 .. 7 : h # i => names[h] # names[i]
      BY ONLY <3>2
    <3>5. \A i \in 1 .. 7 : names[i] \notin {"addedInt", "addedStr"}
      BY ONLY <3>2
    <3> QED
      BY ONLY <3>1, <3>3, <3>4, <3>5, ProtoOf
  <2>2. \A i \in DOMAIN TicketParams : TicketParams[i].type = "message" =>
          TicketParams[i].of \in {TicketExpirationParams}
    BY DEF TicketParams, Bytes, Sub, Field
  <2> QED
    BY <2>1, <2>2, Messages1 DEF Good2
<1>8. Good2(OfferingPrice)
  BY Messages1 DEF Good2, Proto, IsSeq, OfferingPrice, Str, Sub, Field
<1>9. Good2(ListPendingRedemptionsResponse)
  BY Messages1 DEF Good2, Proto, IsSeq, ListPendingRedemptionsResponse, Many, Field
<1> QED
  BY ONLY <1>1, <1>2, <1>3, <1>4, <1>5, <1>6, <1>7, <1>8, <1>9

\* Two levels.
LEMMA Messages3 ==
    /\ Good3(Node)
    /\ Good3(ListKnownResult)
    /\ Good3(AuditLogResult)
    /\ Good3(Payment)
    /\ Good3(GetQuoteResponse)
    /\ Good3(GetTicketParamsResponse)
    /\ Good3(CapabilityEntry)
<1>1. Good3(Node)
  <2>1. Proto(Node)
    <3>1. IsSeq(Node) /\ DOMAIN Node = 1 .. Len(Node)
          /\ Len(Node) = 11 /\ 11 \in 1 .. 20
      BY DEF IsSeq, Node
    <3>2. PICK names : names = <<"id", "url", "workerEthAddress", "extraJson",
                                 "capabilities", "source", "signatureStatus",
                                 "operatorAddress", "enabled", "tierAllowed", "weight">>
      OBVIOUS
    <3>3. \A i \in 1 .. 11 : Made(Node[i], i, names[i])
      <4>1. /\ Made(Node[1], 1, names[1]) /\ Made(Node[2], 2, names[2])
            /\ Made(Node[3], 3, names[3]) /\ Made(Node[4], 4, names[4])
        BY ONLY <3>2, MadeSo DEF Node
      <4>2. /\ Made(Node[5], 5, names[5]) /\ Made(Node[6], 6, names[6])
            /\ Made(Node[7], 7, names[7]) /\ Made(Node[8], 8, names[8])
        BY ONLY <3>2, MadeSo DEF Node
      <4>3. /\ Made(Node[9], 9, names[9]) /\ Made(Node[10], 10, names[10])
            /\ Made(Node[11], 11, names[11])
        BY ONLY <3>2, MadeSo DEF Node
      <4> QED
        BY ONLY <4>1, <4>2, <4>3
    <3>4. \A h, i \in 1 .. 11 : h # i => names[h] # names[i]
      BY ONLY <3>2
    <3>5. \A i \in 1 .. 11 : names[i] \notin {"addedInt", "addedStr"}
      BY ONLY <3>2
    <3> QED
      BY ONLY <3>1, <3>3, <3>4, <3>5, ProtoOf
  <2>2. \A i \in DOMAIN Node : Node[i].type = "message" =>
          Node[i].of \in {Capability}
    BY DEF Node, Str, Bytes, Bool, Num, Enum, Many, Strs, Field
  <2> QED
    BY <2>1, <2>2, GoodNest, Messages2 DEF Good3
<1>2. Good3(ListKnownResult)
  BY GoodNest, Messages2 DEF Good3, Proto, IsSeq, ListKnownResult, Many, Field
<1>3. Good3(AuditLogResult)
  BY GoodNest, Messages2 DEF Good3, Proto, IsSeq, AuditLogResult, Many, Field
<1>4. Good3(Payment)
  <2>1. Proto(Payment)
    <3>1. IsSeq(Payment) /\ DOMAIN Payment = 1 .. Len(Payment)
          /\ Len(Payment) = 5 /\ 5 \in 1 .. 20
      BY DEF IsSeq, Payment
    <3>2. PICK names : names = <<"ticketParams", "sender", "expirationParams",
                                 "ticketSenderParams", "expectedPrice">>
      OBVIOUS
    <3>3. \A i \in 1 .. 5 : Made(Payment[i], i, names[i])
      <4>1. /\ Made(Payment[1], 1, names[1]) /\ Made(Payment[2], 2, names[2])
            /\ Made(Payment[3], 3, names[3]) /\ Made(Payment[4], 4, names[4])
        BY ONLY <3>2, MadeSo DEF Payment
      <4>2. Made(Payment[5], 5, names[5])
        BY ONLY <3>2, MadeSo DEF Payment
      <4> QED
        BY ONLY <4>1, <4>2
    <3>4. \A h, i \in 1 .. 5 : h # i => names[h] # names[i]
      BY ONLY <3>2
    <3>5. \A i \in 1 .. 5 : names[i] \notin {"addedInt", "addedStr"}
      BY ONLY <3>2
    <3> QED
      BY ONLY <3>1, <3>3, <3>4, <3>5, ProtoOf
  <2>2. \A i \in DOMAIN Payment : Payment[i].type = "message" =>
          Payment[i].of \in {PriceInfo, TicketExpirationParams, TicketParams, TicketSenderParams}
    BY DEF Payment, Bytes, Sub, Many, Field
  <2> QED
    BY <2>1, <2>2, GoodNest, Messages1, Messages2 DEF Good3
<1>5. Good3(GetQuoteResponse)
  BY GoodNest, Messages2 DEF Good3, Proto, IsSeq, GetQuoteResponse, Sub, Many, Field
<1>6. Good3(GetTicketParamsResponse)
  BY GoodNest, Messages2 DEF Good3, Proto, IsSeq, GetTicketParamsResponse, Sub, Field
<1>7. Good3(CapabilityEntry)
  <2>1. Proto(CapabilityEntry)
    BY DEF Proto, IsSeq, CapabilityEntry, Str, Many, Field
  <2>2. \A i \in DOMAIN CapabilityEntry : CapabilityEntry[i].type = "message" =>
          CapabilityEntry[i].of \in {OfferingPrice}
    BY DEF CapabilityEntry, Str, Many, Field
  <2> QED
    BY <2>1, <2>2, GoodNest, Messages2 DEF Good3
<1> QED
  BY ONLY <1>1, <1>2, <1>3, <1>4, <1>5, <1>6, <1>7

\* Three levels: the offerings of the capabilities of the nodes.
LEMMA Messages4 ==
    /\ Good4(ResolveResult)
    /\ Good4(BuildManifestRequest)
    /\ Good4(ListCapabilitiesResponse)
<1>1. Good4(ResolveResult)
  <2>1. Proto(ResolveResult)
    <3>1. IsSeq(ResolveResult) /\ DOMAIN ResolveResult = 1 .. Len(ResolveResult)
          /\ Len(ResolveResult) = 8 /\ 8 \in 1 .. 20
      BY DEF IsSeq, ResolveResult
    <3>2. PICK names : names = <<"ethAddress", "resolvedUri", "mode", "nodes",
                                 "freshnessStatus", "cachedAt", "fetchedAt",
                                 "schemaVersion">>
      OBVIOUS
    <3>3. \A i \in 1 .. 8 : Made(ResolveResult[i], i, names[i])
      <4>1. /\ Made(ResolveResult[1], 1, names[1]) /\ Made(ResolveResult[2], 2, names[2])
            /\ Made(ResolveResult[3], 3, names[3]) /\ Made(ResolveResult[4], 4, names[4])
        BY ONLY <3>2, MadeSo DEF ResolveResult
      <4>2. /\ Made(ResolveResult[5], 5, names[5]) /\ Made(ResolveResult[6], 6, names[6])
            /\ Made(ResolveResult[7], 7, names[7]) /\ Made(ResolveResult[8], 8, names[8])
        BY ONLY <3>2, MadeSo DEF ResolveResult
      <4> QED
        BY ONLY <4>1, <4>2
    <3>4. \A h, i \in 1 .. 8 : h # i => names[h] # names[i]
      BY ONLY <3>2
    <3>5. \A i \in 1 .. 8 : names[i] \notin {"addedInt", "addedStr"}
      BY ONLY <3>2
    <3> QED
      BY ONLY <3>1, <3>3, <3>4, <3>5, ProtoOf
  <2>2. \A i \in DOMAIN ResolveResult : ResolveResult[i].type = "message" =>
          ResolveResult[i].of \in {Node}
    BY DEF ResolveResult, Str, Enum, Date, Many, Field
  <2> QED
    BY <2>1, <2>2, GoodNest, Messages3 DEF Good4
<1>2. Good4(BuildManifestRequest)
  BY GoodNest, Messages3 DEF Good4, Proto, IsSeq, BuildManifestRequest, Str, Many,
    Field
<1>3. Good4(ListCapabilitiesResponse)
  BY GoodNest, Messages3 DEF Good4, Proto, IsSeq, ListCapabilitiesResponse, Many,
    Field
<1> QED
  BY ONLY <1>1, <1>2, <1>3

\* Every message of the two protocols.
LEMMA MessagesGood ==
    \A m \in RegistryMessages \union PaymentMessages : Good4(m)
BY Messages1, Messages2, Messages3, Messages4, GoodNest DEF RegistryMessages, PaymentMessages

\* What the clients ask.
Asking(ask) ==
    \/ ask \in {HealthAsks, GetDepositInfoAsks, ListKnownAsks, ResolveAsks(Address)}
    \/ \E tier : ask = SelectAsks("capability", "offering", tier)
    \/ \E target : ask = RefreshAsks(target)
    \/ \E a, limit : \E since \in {None, 0, 1500, MaxDate + 1} :
         ask = GetAuditLogAsks(a, since, limit)

\* A request asks nothing else.
LEMMA AsksAre ==
    ASSUME NEW a \in Asks, NEW i \in DOMAIN a.asks
    PROVE  Asking(a.asks[i])
<1>1. CASE \E ask : Asking(ask) /\ a.asks = <<ask>>
  BY <1>1
<1>2. CASE \E ask, other : Asking(ask) /\ Asking(other) /\ a.asks = <<ask, other>>
  BY <1>2
<1>3. CASE a.asks = <<>>
  BY <1>3
<1>4. CASE a \in {Ask("healthz", <<>>), Ask("wallet", <<>>)}
  BY <1>3, <1>4 DEF Ask
<1>5. CASE a = Ask("health", <<HealthAsks, GetDepositInfoAsks>>)
  <2>1. PICK ask, other : ask = HealthAsks /\ other = GetDepositInfoAsks
    OBVIOUS
  <2>2. a.asks = <<ask, other>>
    BY ONLY <1>5, <2>1 DEF Ask
  <2>3. Asking(ask) /\ Asking(other)
    BY ONLY <2>1 DEF Asking
  <2> QED
    BY <1>2, <2>2, <2>3
<1>6. CASE \E route, ask : Asking(ask) /\ a = Ask(route, <<ask>>)
  <2>1. PICK route, ask : Asking(ask) /\ a = Ask(route, <<ask>>)
    BY <1>6
  <2>2. a.asks = <<ask>>
    BY ONLY <2>1 DEF Ask
  <2> QED
    BY <1>1, <2>1, <2>2
<1>7. CASE \E route : a = [Ask(route, <<>>) EXCEPT !.valid = FALSE]
  <2>1. a.asks = <<>>
    BY <1>7 DEF Ask
  <2> QED
    BY <1>3, <2>1
<1>8. CASE a \in {Ask("escrow", <<GetDepositInfoAsks>>),
                  Ask("orchs", <<ListKnownAsks>>), Ask("orch", <<ResolveAsks(Address)>>)}
  <2>1. Asking(GetDepositInfoAsks) /\ Asking(ListKnownAsks) /\ Asking(ResolveAsks(Address))
    BY DEF Asking
  <2> QED
    BY <1>6, <1>8, <2>1
<1>9. CASE a \in {Ask("search", <<SelectAsks("capability", "offering", tier)>>) :
                    tier \in {None, "tier"}}
  <2>1. PICK tier : a = Ask("search", <<SelectAsks("capability", "offering", tier)>>)
    BY <1>9
  <2>2. Asking(SelectAsks("capability", "offering", tier))
    BY DEF Asking
  <2> QED
    BY <1>6, <2>1, <2>2
<1>10. CASE a \in {Ask("refresh", <<RefreshAsks(target)>>) : target \in {"*", Address}}
  <2>1. PICK target : a = Ask("refresh", <<RefreshAsks(target)>>)
    BY <1>10
  <2>2. Asking(RefreshAsks(target))
    BY DEF Asking
  <2> QED
    BY <1>6, <2>1, <2>2
<1>11. CASE a \in {Ask("audit", <<GetAuditLogAsks(b, since, limit)>>) :
                     b \in {None, Address}, since \in {None, 0, 1500, MaxDate + 1},
                     limit \in {None, 5}}
  <2>1. PICK b \in {None, Address}, since \in {None, 0, 1500, MaxDate + 1},
             limit \in {None, 5} : a = Ask("audit", <<GetAuditLogAsks(b, since, limit)>>)
    BY <1>11
  <2>2. Asking(GetAuditLogAsks(b, since, limit))
    BY DEF Asking
  <2> QED
    BY <1>6, <2>1, <2>2
<1>12. CASE a \in {[Ask(route, <<>>) EXCEPT !.valid = FALSE] :
                     route \in {"health", "wallet", "escrow", "orchs", "orch", "search",
                                 "refresh", "audit"}}
  BY <1>7, <1>12
<1>13. CASE a = [Ask("orchs", <<ListKnownAsks>>) EXCEPT !.filter = "name"]
  <2>1. PICK ask : ask = ListKnownAsks
    OBVIOUS
  <2>2. a.asks = <<ask>>
    BY ONLY <1>13, <2>1 DEF Ask
  <2>3. Asking(ask)
    BY ONLY <2>1 DEF Asking
  <2> QED
    BY <1>1, <2>2, <2>3
<1>14. CASE a \in {Ask("healthz", <<>>), Ask("wallet", <<>>),
                   Ask("health", <<HealthAsks, GetDepositInfoAsks>>),
                   Ask("escrow", <<GetDepositInfoAsks>>), Ask("orchs", <<ListKnownAsks>>),
                   Ask("orch", <<ResolveAsks(Address)>>)}
  BY <1>4, <1>5, <1>8, <1>14
<1> QED
  BY <1>9, <1>10, <1>11, <1>12, <1>13, <1>14 DEF Asks

\* A message of single values that are no dates can carry anything.
LEMMA PlainFits ==
    ASSUME NEW n, NEW r,
           \A i \in DOMAIN n : n[i].label = "one" /\ n[i].type \notin {"date", "message"}
    PROVE  Typed4(n, r)
BY DEF Typed4, Lists, Value4

\* The start of an audit query is what is asked for.
LEMMA AuditSince ==
    \A a, since, limit : GetAuditLogAsks(a, since, limit).asked.since = since
<1> SUFFICES ASSUME NEW a, NEW since, NEW limit
             PROVE  GetAuditLogAsks(a, since, limit).asked.since = since
  OBVIOUS
<1>1. PICK x : x = IF a = None THEN "" ELSE a
  OBVIOUS
<1>2. PICK y : y = IF limit = None THEN 100 ELSE limit
  OBVIOUS
<1>3. PICK z : z = [ethAddress |-> x, since |-> since, limit |-> y]
  OBVIOUS
<1>4. GetAuditLogAsks(a, since, limit).asked = z
  BY ONLY <1>1, <1>2, <1>3 DEF GetAuditLogAsks
<1>5. z.since = since
  BY ONLY <1>3
<1> QED
  BY ONLY <1>4, <1>5

\* What is asked fits the message it is asked with.
LEMMA AskingFits ==
    ASSUME NEW ask, Asking(ask)
    PROVE  /\ Typed4(Methods[ask.method].req, ask.asked)
           /\ Methods[ask.method].req \in RegistryMessages \union PaymentMessages
<1>1. PICK req : req = Methods[ask.method].req
  OBVIOUS
<1>2. /\ \A i \in DOMAIN Empty : FALSE
      /\ \A i \in DOMAIN ListKnownRequest : FALSE
      /\ \A i \in DOMAIN GetDepositInfoRequest : FALSE
      /\ \A i \in DOMAIN ResolveByAddressRequest :
           /\ ResolveByAddressRequest[i].label = "one"
           /\ ResolveByAddressRequest[i].type \notin {"date", "message"}
      /\ \A i \in DOMAIN SelectRequest :
           SelectRequest[i].label = "one" /\ SelectRequest[i].type \notin {"date", "message"}
      /\ \A i \in DOMAIN RefreshRequest :
           RefreshRequest[i].label = "one" /\ RefreshRequest[i].type \notin {"date", "message"}
  BY DEF Empty, ListKnownRequest, GetDepositInfoRequest, ResolveByAddressRequest,
         SelectRequest, RefreshRequest, Str, Bool, Num, Field
<1>3. /\ {Empty, ListKnownRequest, ResolveByAddressRequest, SelectRequest, RefreshRequest,
          GetAuditLogRequest} \subseteq RegistryMessages
      /\ GetDepositInfoRequest \in PaymentMessages
  BY DEF RegistryMessages, PaymentMessages
<1>4. /\ Methods["Health"].req = Empty /\ Methods["ListKnown"].req = ListKnownRequest
      /\ Methods["ResolveByAddress"].req = ResolveByAddressRequest
      /\ Methods["Select"].req = SelectRequest /\ Methods["Refresh"].req = RefreshRequest
      /\ Methods["GetAuditLog"].req = GetAuditLogRequest
      /\ Methods["GetDepositInfo"].req = GetDepositInfoRequest
  BY DEF Methods, Rpc
<1>5. CASE req \in {Empty, ListKnownRequest, GetDepositInfoRequest, ResolveByAddressRequest,
                    SelectRequest, RefreshRequest}
  <2>1. \A i \in DOMAIN req : req[i].label = "one" /\ req[i].type \notin {"date", "message"}
    BY ONLY <1>2, <1>5
  <2>2. Typed4(req, ask.asked)
    BY ONLY <2>1, PlainFits
  <2> QED
    BY ONLY <1>1, <1>3, <1>5, <2>2
<1>6. ASSUME NEW a, NEW limit, NEW since \in {None, 0, 1500, MaxDate + 1},
             ask = GetAuditLogAsks(a, since, limit)
      PROVE  Typed4(req, ask.asked) /\ req \in RegistryMessages
  <2>1. ask.method = "GetAuditLog" /\ ask.asked.since = since
    BY ONLY <1>6, AskMethods, AuditSince
  <2>2. req = GetAuditLogRequest
    BY ONLY <1>1, <1>4, <2>1
  <2>3. since = None \/ since \in Int
    BY RpcAssumption
  <2>4. /\ \A i \in DOMAIN req : req[i].label # "many" /\ req[i].type # "message"
        /\ \A i \in DOMAIN req : req[i].type = "date" => req[i].name = "since"
    BY ONLY <2>2 DEF GetAuditLogRequest, Str, Date, Num, Field
  <2>5. Typed4(req, ask.asked)
    BY ONLY <2>1, <2>3, <2>4 DEF Typed4, Lists, Value4
  <2> QED
    BY ONLY <1>3, <2>2, <2>5
<1>7. CASE \/ ask \in {HealthAsks, GetDepositInfoAsks, ListKnownAsks, ResolveAsks(Address)}
           \/ \E tier : ask = SelectAsks("capability", "offering", tier)
           \/ \E target : ask = RefreshAsks(target)
  <2>1. ask.method \in {"Health", "GetDepositInfo", "ListKnown", "ResolveByAddress", "Select",
                        "Refresh"}
    BY <1>7, AskMethods
  <2>2. req \in {Empty, ListKnownRequest, GetDepositInfoRequest, ResolveByAddressRequest,
                 SelectRequest, RefreshRequest}
    BY ONLY <1>1, <1>4, <2>1
  <2> QED
    BY ONLY <1>1, <1>5, <2>2
<1> QED
  BY <1>1, <1>6, <1>7 DEF Asking

\* What a daemon answers fits the message it answers with.
LEMMA AnswersFit ==
    ASSUME NEW n, Shape4(n), NEW v \in Answers(n)
    PROVE  Typed4(n, v)
<1>1. CASE v = CreateBase(n)
  BY <1>1, BaseTyped DEF Shape4
<1>2. CASE v \in Samples(n)
  BY <1>2, SamplesAre, SampTyped4
<1> QED
  BY <1>1, <1>2 DEF Answers

\* Every version understands every message (the encoders and the decoders of
\* providers/*/gen).
LEMMA Agreement == CodecsAgree
<1> SUFFICES ASSUME NEW dialect \in Dialects
             PROVE  /\ \A m \in RegistryMessages \union PaymentMessages :
                         LET theirs == Speak(dialect, m) IN
                         /\ \A v \in Samples(m) :
                              Decode(theirs, Encode(m, v)) = Meaning(theirs, m, v)
                         /\ \A v \in Samples(theirs) \union Answers(theirs) :
                              Decode(m, Encode(theirs, v)) = Meaning(m, theirs, v)
                    /\ \A a \in Asks : \A i \in DOMAIN a.asks :
                         LET ask == a.asks[i]
                             m   == Methods[ask.method].req
                             theirs == Speak(dialect, m) IN
                         Encodable(ask) => Decode(theirs, Encode(m, ask.asked))
                                             = Meaning(theirs, m, ask.asked)
  BY DEF CodecsAgree
<1>1. ASSUME NEW m \in RegistryMessages \union PaymentMessages
      PROVE  /\ \A v \in Samples(m) :
                  Decode(Speak(dialect, m), Encode(m, v)) = Meaning(Speak(dialect, m), m, v)
             /\ \A v \in Samples(Speak(dialect, m)) \union Answers(Speak(dialect, m)) :
                  Decode(m, Encode(Speak(dialect, m), v)) = Meaning(m, Speak(dialect, m), v)
  <2>1. Good4(m)
    BY MessagesGood
  <2>2. /\ \A v \in Samples(m) : Typed4(m, v)
        /\ \A v \in Samples(Speak(dialect, m)) : Typed4(Speak(dialect, m), v)
        /\ \A v \in Answers(Speak(dialect, m)) : Typed4(Speak(dialect, m), v)
    BY ONLY <2>1, dialect \in Dialects, SamplesFit, AnswersFit
  <2> QED
    BY ONLY <2>1, <2>2, dialect \in Dialects, VersionsAgree
<1>2. ASSUME NEW a \in Asks, NEW i \in DOMAIN a.asks, NEW m, m = Methods[a.asks[i].method].req
      PROVE  Decode(Speak(dialect, m), Encode(m, a.asks[i].asked))
               = Meaning(Speak(dialect, m), m, a.asks[i].asked)
  <2>1. Typed4(m, a.asks[i].asked) /\ m \in RegistryMessages \union PaymentMessages
    BY <1>2, AsksAre, AskingFits
  <2>2. Good4(m)
    BY <2>1, MessagesGood
  <2> QED
    BY ONLY <2>1, <2>2, dialect \in Dialects, VersionsAgree
<1> QED
  BY ONLY <1>1, <1>2

\* Every message of the two protocols survives the way from one version to
\* another, in both directions, and so does every request the clients make,
\* for whatever last date (the encoders and the decoders of providers/*/gen).
THEOREM EveryMessageKept == Spec => []EveryMessageSurvives
<1>1. EveryMessageSurvives
  BY Agreement DEF EveryMessageSurvives
<1> QED
  BY <1>1, PTL
----------------------------------------------------------------------------
(* What is heard and shown.                                                *)

\* What Faithful and Quoted say of bytes, the codecs make a statement of meanings.
LEMMA KeptInv ==
    ASSUME Inv
    PROVE  MeaningKept
<1>1. ASSUME call.st = "served"
      PROVE  call.heard[2] = Meaning(Speak(call.heard[1], Method.req), Method.req, call.asked)
  <2>1. PICK d \in Dialects : call.heard = <<d, Decode(Speak(d, Method.req), call.sent)>>
    BY <1>1 DEF Inv, Faithful
  <2>2. /\ Encodable(Asked) /\ call.method = Asked.method /\ call.asked = Asked.asked
        /\ call.sent = Encode(Method.req, call.asked)
        /\ request.ask \in Asks /\ request.made \in 1 .. Len(request.ask.asks)
    <3>1. /\ request.made > 0 /\ request.made \in 0 .. 2 /\ request.ask \in Asks
          /\ request.made <= Len(request.ask.asks)
      BY <1>1 DEF Inv, TypeOK, Admitted, Faithful
    <3>2. Len(request.ask.asks) \in 0 .. 2
      BY <3>1, AskedFacts
    <3> QED
      BY <1>1, <3>1, <3>2 DEF Inv, Faithful
  <2>3. PICK req : req = Methods[Asked.method].req
    OBVIOUS
  <2>4. request.made \in DOMAIN request.ask.asks
    <3>1. request.ask.asks = <<>> \/ \E ask : request.ask.asks = <<ask>>
          \/ request.ask.asks = <<HealthAsks, GetDepositInfoAsks>>
      BY <2>2, AsksFacts
    <3> QED
      BY <2>2, <3>1
  <2>5. Decode(Speak(d, req), Encode(req, Asked.asked))
          = Meaning(Speak(d, req), req, Asked.asked)
    BY <2>2, <2>3, <2>4, Agreement DEF CodecsAgree, Asked
  <2>6. Method.req = req
    BY <2>2, <2>3 DEF Method
  <2>7. call.heard[1] = d /\ call.heard[2] = Decode(Speak(d, req), Encode(req, Asked.asked))
    BY <2>1, <2>2, <2>6
  <2> QED
    BY <2>2, <2>5, <2>6, <2>7
<1>2. ASSUME Answered(Showing), request.status = 200, request.said = "OK"
      PROVE  request.body = Shown(request.ask, request.meant, request.uris)
  <2>1. PICK m : m = request.ask.asks[1].method
    OBVIOUS
  <2>2. m \in DOMAIN Methods
    BY <1>2, <2>1, ShowingFacts
  <2>3. PICK res : res = Methods[m].res
    OBVIOUS
  <2>4. PICK d \in Dialects : \E v \in Answers(Speak(d, res)) :
          /\ request.meant = Meaning(res, Speak(d, res), v)
          /\ request.body =
               Shown(request.ask, Decode(res, Encode(Speak(d, res), v)), request.uris)
    <3>1. request.said # "NOT_FOUND"
      BY <1>2
    <3> QED
      BY <1>2, <2>1, <2>3, <3>1 DEF Inv, Quoted
  <2>5. res \in RegistryMessages \union PaymentMessages
    BY <2>2, <2>3, ResultFacts
  <2>6. \A v \in Answers(Speak(d, res)) :
          Decode(res, Encode(Speak(d, res), v)) = Meaning(res, Speak(d, res), v)
    BY <2>4, <2>5, Agreement DEF CodecsAgree
  <2> QED
    BY <2>1, <2>4, <2>6
<1>3. Showing = {"orchs", "orch", "search", "audit", "escrow"}
  BY DEF Showing, Forwarding
<1> QED
  BY <1>1, <1>2, <1>3 DEF MeaningKept

\* The daemon hears what was asked and the page shows what it answered,
\* whichever versions answer and whatever fails in between (the codecs, the
\* clients' mappers, the rows of the routing service, and the handlers).
THEOREM MeaningIsKept == Spec => []MeaningKept
<1>1. Inv => MeaningKept
  BY KeptInv
<1> QED
  BY <1>1, Invariance, PTL

\* What the row of an orchestrator claims of it, the resolver has answered.
LEMMA RowFacts ==
    ASSUME NEW v, NEW uri, NEW row, row = ResolvedRow(ResolvedOrch(v), uri)
    PROVE  /\ row.freshnessStatus = "fresh" => v.freshnessStatus = 1
           /\ row.signatureStatus = "signed" =>
                1 \in DOMAIN v.nodes /\ v.nodes[1].signatureStatus = 1
           /\ \A c \in row.capabilities :
                \E i \in DOMAIN v.nodes :
                   \E cap \in Range(v.nodes[i].capabilities) : cap.name = c
<1>1. PICK rows : rows = [i \in DOMAIN v.nodes |-> NodeRow(v.nodes[i])]
  OBVIOUS
<1>2. PICK r : r = ResolvedOrch(v)
  OBVIOUS
<1>3. r.nodes = rows /\ r.freshnessStatus = Freshness(v.freshnessStatus)
  BY <1>1, <1>2 DEF ResolvedOrch
<1>4. /\ row.freshnessStatus = NarrowFreshness(r.freshnessStatus)
      /\ row.signatureStatus = IF 1 \in DOMAIN r.nodes
                               THEN NarrowSignature(r.nodes[1].signatureStatus)
                               ELSE "unknown"
      /\ row.capabilities = UNION {Range(n.capabilities) : n \in Range(r.nodes)}
  BY <1>2 DEF ResolvedRow
<1>5. \A n : NarrowFreshness(Freshness(n)) = "fresh" => n = 1
  BY DEF NarrowFreshness, Freshness, Label
<1>6. \A n : NarrowSignature(Signature(n)) = "signed" => n = 1
  BY DEF NarrowSignature, Signature, Label
<1>7. \A n : /\ NodeRow(n).signatureStatus = Signature(n.signatureStatus)
             /\ NodeRow(n).capabilities
                  = [i \in DOMAIN n.capabilities |-> n.capabilities[i].name]
  BY DEF NodeRow
<1>8. row.signatureStatus = "signed" =>
        1 \in DOMAIN v.nodes /\ v.nodes[1].signatureStatus = 1
  BY ONLY <1>1, <1>3, <1>4, <1>6, <1>7
<1>9. ASSUME NEW c \in row.capabilities
      PROVE  \E i \in DOMAIN v.nodes :
                \E cap \in Range(v.nodes[i].capabilities) : cap.name = c
  <2>1. PICK n \in Range(rows) : c \in Range(n.capabilities)
    BY ONLY <1>3, <1>4, <1>9
  <2>2. PICK i \in DOMAIN v.nodes : n = NodeRow(v.nodes[i])
    BY ONLY <1>1, <2>1 DEF Range
  <2>3. PICK caps : caps = v.nodes[i].capabilities
    OBVIOUS
  <2>4. n.capabilities = [j \in DOMAIN caps |-> caps[j].name]
    BY ONLY <1>7, <2>2, <2>3
  <2>5. PICK j \in DOMAIN caps : c = caps[j].name
    BY ONLY <2>1, <2>4 DEF Range
  <2>6. caps[j] \in Range(caps)
    BY DEF Range
  <2> QED
    BY ONLY <2>2, <2>3, <2>5, <2>6
<1> QED
  BY ONLY <1>3, <1>4, <1>5, <1>8, <1>9

\* Accounted is the claim about health; the others say that what is shown, be
\* it a null or an empty route, is what was answered.
LEMMA ClaimsInv ==
    ASSUME \A r, uri : ResolvedRow(r, uri) # None, Inv
    PROVE  ClaimsWereSaid
<1>1. ASSUME Answered({"health"}), request.status \in {200, 503}
      PROVE  /\ request.made = 2
             /\ request.status = 200 <=> request.body.ok
             /\ request.body.ok => told = Daemons
  <2>1. /\ request.made = 2 /\ call.st = "none"
        /\ request.status = 200 <=> request.failed = {}
        /\ request.body = [ok |-> request.failed = {}]
    BY <1>1 DEF Inv, Accounted
  <2>2. request.body.ok <=> request.failed = {}
    <3>1. PICK b : b = (request.failed = {})
      OBVIOUS
    <3>2. request.body = [ok |-> b]
      BY <2>1, <3>1
    <3>3. request.body.ok = b
      BY <3>2
    <3>4. CASE request.failed = {}
      <4>1. b = TRUE
        BY <3>1, <3>4
      <4> QED
        BY <3>3, <3>4, <4>1
    <3>5. CASE request.failed # {}
      <4>1. b = FALSE
        BY <3>1, <3>5
      <4> QED
        BY <3>3, <3>5, <4>1
    <3> QED
      BY <3>4, <3>5
  <2>3. request.ask.asks = <<HealthAsks, GetDepositInfoAsks>>
    BY <1>1, <2>1, AsksFacts DEF Inv, Admitted, OnlyAdmittedCalls, Answered
  <2>4. OfAsk(1) = "resolver" /\ OfAsk(2) = "payer"
    BY <2>3, AskMethods, MethodFacts DEF OfAsk
  <2>5. \A i \in 1 .. 2 : OfAsk(i) \in told \union request.failed
    BY <1>1, <2>1 DEF Inv, Accounted, Settled, Answered
  <2>6. told \subseteq Daemons
    BY DEF Inv, TypeOK, RpcTypeOK
  <2>7. request.failed = {} => told = Daemons
    <3>1. OfAsk(1) \in told \union request.failed /\ OfAsk(2) \in told \union request.failed
      BY ONLY <2>5
    <3> QED
      BY ONLY <2>4, <2>6, <3>1 DEF Daemons
  <2> QED
    BY <2>1, <2>2, <2>7
<1>2. MeaningKept
  BY KeptInv
<1>3. ASSUME Answered({"orch"}), request.status = 200
      PROVE  \/ request.said = "NOT_FOUND" /\ request.body.orch = None
             \/ \E uri : /\ request.said = "OK"
                         /\ request.body.orch = ResolvedRow(ResolvedOrch(request.meant), uri)
  <2>1. Answered(Showing) /\ request.ask.route = "orch"
    BY <1>3 DEF Answered, Showing, Forwarding
  <2>2. CASE request.said = "NOT_FOUND"
    BY <1>3, <2>1, <2>2 DEF Inv, Quoted
  <2>3. CASE request.said # "NOT_FOUND"
    <3>1. request.said = "OK" /\ request.ask.asks[1].method = "ResolveByAddress"
      BY <1>3, <2>1, <2>3, ShowingFacts
    <3>2. request.body = Shown(request.ask, request.meant, request.uris)
      BY <1>2, <1>3, <2>1, <3>1 DEF MeaningKept, Answered
    <3>3. PICK uri : uri = ChainUri(request.ask.asks[1].asked.ethAddress, request.uris)
      OBVIOUS
    <3>4. PICK row : row = ResolvedRow(ResolvedOrch(request.meant), uri)
      OBVIOUS
    <3>5. request.body = [orch |-> row]
      BY <3>1, <3>2, <3>3, <3>4 DEF Shown, Fulfilled
    <3>6. request.body.orch = row
      BY ONLY <3>5
    <3> QED
      BY ONLY <3>1, <3>4, <3>6
  <2> QED
    BY <2>2, <2>3
<1>4. ASSUME Answered({"search"}), request.status = 200, request.body = NoRoute,
             request.said # "NOT_FOUND"
      PROVE  request.said = "OK" /\ request.meant.route = None
  <2>1. Answered(Showing) /\ request.ask.route = "search"
    BY <1>4 DEF Answered, Showing, Forwarding
  <2>2. request.said = "OK" /\ request.ask.asks[1].method = "Select"
    BY <1>4, <2>1, ShowingFacts
  <2>3. request.body = Shown(request.ask, request.meant, request.uris)
    BY <1>2, <1>4, <2>1, <2>2 DEF MeaningKept, Answered
  <2>4. ASSUME request.meant.route # None PROVE FALSE
    <3>1. PICK route : route = Route(request.meant.route)
      OBVIOUS
    <3>2. request.body = [route |-> route, reason |-> "top-weighted"]
      BY <2>2, <2>3, <2>4, <3>1 DEF Shown, Fulfilled
    <3>3. request.body.reason = "top-weighted" /\ NoRoute.reason = "no route matched"
      BY <3>2 DEF NoRoute
    <3> QED
      BY <1>4, <3>3
  <2> QED
    BY <2>2, <2>4
<1>5. Answered({"orch"}) /\ request.status = 404 => request.said = "NOT_FOUND"
  BY DEF Inv, Quoted
<1>6. ASSUME Answered({"orch"}), request.status = 200, request.body.orch # None
      PROVE  /\ request.said = "OK"
             /\ request.body.orch.freshnessStatus = "fresh" =>
                  request.meant.freshnessStatus = 1
             /\ request.body.orch.signatureStatus = "signed" =>
                  /\ 1 \in DOMAIN request.meant.nodes
                  /\ request.meant.nodes[1].signatureStatus = 1
             /\ \A c \in request.body.orch.capabilities :
                  \E i \in DOMAIN request.meant.nodes :
                     \E cap \in Range(request.meant.nodes[i].capabilities) : cap.name = c
  <2>1. PICK uri : /\ request.said = "OK"
                   /\ request.body.orch = ResolvedRow(ResolvedOrch(request.meant), uri)
    BY <1>3, <1>6
  <2> QED
    BY ONLY <2>1, RowFacts
<1>7. Answered({"orch"}) /\ request.status = 200 /\ request.body.orch = None =>
        request.said = "NOT_FOUND"
  BY <1>3, \A r, uri : ResolvedRow(r, uri) # None
<1> QED
  BY ONLY <1>1, <1>4, <1>5, <1>6, <1>7 DEF ClaimsWereSaid

\* An answer claims nothing the daemons have not said: /api/health is ok only
\* if both answered, "nothing found" was found by a daemon, and fresh, signed
\* and able is only who the resolver says is (handleHealth.ts:32-36,
\* resolver/client.ts:174-177, 199-204, routing/index.ts:149-203).  The
\* hypothesis: undefined is no orchestrator.
THEOREM NothingIsMadeUp ==
    ASSUME \A r, uri : ResolvedRow(r, uri) # None
    PROVE  Spec => []ClaimsWereSaid
<1>1. Inv => ClaimsWereSaid
  BY ClaimsInv
<1> QED
  BY <1>1, Invariance, PTL
=============================================================================
