------------------------------- MODULE Roster -------------------------------
(***************************************************************************)
(* The roster and the per-orch view of the routing service                 *)
(* (src/service/routing/index.ts, listOrchs and getOrch, with the handlers *)
(* handleListOrchs.ts and handleGetOrch.ts).  A request puts together what *)
(* the resolver knows, the pool walk's stakes, the ServiceRegistry's URIs  *)
(* and the rows of the local mirror, which it asks for side by side; the   *)
(* sources go on changing meanwhile, and the first that fails ends it.     *)
(*                                                                         *)
(* Sources spell an address in their own case.  The mirror holds lower     *)
(* case (auditPoll.ts:124), the resolver and the URL may hold the mixed    *)
(* case of a checksum.                                                     *)
(*                                                                         *)
(* Abstraction: of the cache in front of the walk (ChainCache) only that a *)
(* request gets the last finished walk, joins the one under way, or starts *)
(* one; of the URIs only whether they are there; capabilities and          *)
(* offerings are one value.                                                *)
(***************************************************************************)
EXTENDS PoolWalk, FiniteSets

CONSTANTS
    Spelled,       \* the case in which the resolver has an orch's address
    HistoryLimit,  \* limit of listRecentForOrch
    Rows           \* bound: how many rows the mirror may have of an orch

Spelling == {"lower", "mixed"}

ASSUME RosterAssumption ==
    /\ Spelled \in [Orchs -> Spelling]
    /\ HistoryLimit \in Nat \ {0} /\ Rows \subseteq Nat

VARIABLE
    request  \* the request under way, and what it has been told

vars == <<pool, walkVars, request>>

Address  == [orch : Orchs, case : Spelling]
NoAddress == [orch |-> Zero, case |-> "none"]
Lower(a) == [a EXCEPT !.case = "lower"]

\* What a request still waits for: "uris" are those of all its orchs.
Source == {"known", "resolve", "pool", "uris"}

Request ==
    [st : {"none", "open", "answered", "rejected"},
     addr    : Address \union {NoAddress},  \* NoAddress: the roster is asked for
     waiting : SUBSET Source,
     found   : SUBSET Address,              \* what the resolver answered
     map     : UNION {[S -> Stakes] : S \in SUBSET Orchs},  \* stakes it was given
     history : SUBSET Nat,                  \* ids of the mirror's rows
     had     : Nat]                         \* history: rows it might have got

NoRequest ==
    [st |-> "none", addr |-> NoAddress, waiting |-> {},
     found |-> {}, map |-> <<>>, history |-> {}, had |-> 0]

TypeOK ==
    /\ WalkTypeOK
    /\ request \in Request
    /\ request.waiting # {} <=> request.st = "open"

Init ==
    /\ WalkInit
    /\ request = NoRequest
----------------------------------------------------------------------------
(* The sources.                                                            *)

\* An address in the resolver's own spelling.
Known(o) == [orch |-> o, case |-> Spelled[o]]

\* Mutant: the oldest rows.
RecentForOrch_Oldest(a, n) ==
    IF a.case = "lower" THEN {i \in 1 .. n : i <= HistoryLimit} ELSE {}
\* listRecentForOrch, of the n rows the mirror has of an orch: the newest, if
\* the address asked for equals the one they were inserted with.
RecentForOrch(a, n) ==
    IF a.case = "lower" THEN {i \in 1 .. n : n - i < HistoryLimit} ELSE {}
----------------------------------------------------------------------------
(* The requests.                                                           *)

\* getPoolStakeMap: the map of a finished walk while it is cached, else the
\* walk under way, else a new one.
AskPool ==
    \/ Walking /\ UNCHANGED walkVars
    \/ ~Walking /\ StartWalk
Cached == walk.st = "done"

AskList ==
    /\ request.st # "open"
    /\ request' = [NoRequest EXCEPT !.st = "open", !.waiting = {"known"}]
    /\ UNCHANGED <<pool, walkVars>>

\* getOrch asks its four sources at once; SQLite answers on the spot.
AskOne(a, n) ==
    LET asked == [NoRequest EXCEPT !.st = "open", !.addr = a, !.had = n,
                                   !.history = RecentForOrch(a, n)]
        rest  == {"resolve", "uris"} IN
    /\ request.st # "open"
    /\ \/ /\ Cached /\ UNCHANGED walkVars
          /\ request' = [asked EXCEPT !.waiting = rest, !.map = StakeMap(walk.out)]
       \/ /\ AskPool
          /\ request' = [asked EXCEPT !.waiting = rest \union {"pool"}]
    /\ UNCHANGED pool

Waits(s)  == request.st = "open" /\ s \in request.waiting
Got(s, r) == [r EXCEPT !.waiting = @ \ {s},
                       !.st = IF r.waiting = {s} THEN "answered" ELSE @]

\* listKnown answers: the stakes and a URI for each orch are asked for.
KnownAnswered(as) ==
    LET more == IF as = {} THEN {} ELSE {"uris"}
        told == [request EXCEPT !.found = as] IN
    /\ Waits("known")
    /\ \/ /\ Cached /\ UNCHANGED walkVars
          /\ request' = [told EXCEPT !.map = StakeMap(walk.out), !.waiting = more,
                                     !.st = IF more = {} THEN "answered" ELSE @]
       \/ /\ AskPool
          /\ request' = [told EXCEPT !.waiting = more \union {"pool"}]
    /\ UNCHANGED pool

\* resolveByAddress answers with the resolver's own spelling, or NOT_FOUND.
ResolveAnswered ==
    /\ Waits("resolve")
    /\ \E as \in {{}, {Known(request.addr.orch)}} :
          request' = Got("resolve", [request EXCEPT !.found = as])
    /\ UNCHANGED <<pool, walkVars>>

PoolAnswered ==
    /\ Waits("pool") /\ walk.st = "done"
    /\ request' = Got("pool", [request EXCEPT !.map = StakeMap(walk.out)])
    /\ UNCHANGED <<pool, walkVars>>

\* getServiceUri: the registry's address, and at it the URI, or null where it
\* cannot be read.
UrisAnswered ==
    /\ Waits("uris")
    /\ request' = Got("uris", request)
    /\ UNCHANGED <<pool, walkVars>>

\* Mutant: nobody hears of a walk that failed.
Rejects_NotTheWalk ==
    /\ request.st = "open"
    /\ \E s \in request.waiting : s # "pool"
    /\ request' = [NoRequest EXCEPT !.st = "rejected"]
    /\ UNCHANGED <<pool, walkVars>>
\* Promise.all: the first source to fail (of a URI, the registry's address)
\* rejects the request; the walk goes on without it.
Rejects ==
    /\ request.st = "open"
    /\ \E s \in request.waiting : s = "pool" => walk.st = "failed"
    /\ request' = [NoRequest EXCEPT !.st = "rejected"]
    /\ UNCHANGED <<pool, walkVars>>

Ask == \/ AskList
       \/ \E a \in Address, n \in Rows : AskOne(a, n)
Progress == \/ \E os \in SUBSET Orchs : KnownAnswered({Known(o) : o \in os})
            \/ ResolveAnswered \/ PoolAnswered \/ UrisAnswered \/ Rejects
Next == \/ Ask \/ Progress
        \/ (WalkStep \/ Chain) /\ UNCHANGED request

Spec == Init /\ [][Next]_vars

\* An RPC is answered or fails (deadline, viem's timeout).
FairSpec == Spec /\ WF_vars(WalkStep /\ UNCHANGED request) /\ WF_vars(Progress)
----------------------------------------------------------------------------
(* The answers.                                                            *)

\* Mutant: the map is asked with the address as the resolver spells it.
StakeOf_AsSpelled(a) ==
    {request.map[o] : o \in {a.orch} \intersect
                         (IF a.case = "lower" THEN DOMAIN request.map ELSE {})}
\* stakeMap.get(address.toLowerCase()); the empty set for undefined.
StakeOf(a) ==
    {request.map[o] : o \in {Lower(a).orch} \intersect DOMAIN request.map}

\* A roster row; only getOrch fills in what the nodes offer.
Row(a) == [address |-> a, capable |-> request.addr # NoAddress,
           active |-> StakeOf(a) # {}, totalStake |-> StakeOf(a),
           lastObserved |-> request.history]

\* filterOrchs, with or without a capability asked for.
Listed(capability) == {r \in {Row(a) : a \in request.found} : capability => r.capable}

AnsweredList == request.st = "answered" /\ request.addr = NoAddress
AnsweredOne  == request.st = "answered" /\ request.addr # NoAddress
\* handleGetOrch answers 404.
NotFound == AnsweredOne /\ request.found = {} /\ request.history = {}
----------------------------------------------------------------------------
(* Properties.                                                             *)

\* An answered request shows an orch that neither joined, left nor moved
\* since the walk it was given began as what it is, active with its stake or
\* inactive, under whichever spelling the resolver has it, filtered or not
\* (index.ts:95, 120: the map is asked in lower case).
ShownAsStaked ==
    request.st = "answered" /\ ~torn /\ ~Walking =>
        \A capability \in BOOLEAN : \A r \in Listed(capability) :
          r.address.orch \notin touched =>
            /\ r.totalStake = {e.stake : e \in Of(r.address.orch)}
            /\ r.active <=> \E e \in Range(pool) : e.orch = r.address.orch

\* Asked for in lower case, an orch is shown with its newest rows, and is not
\* found only if there are none, known to the resolver or not
\* (routingObservations.ts:26-39, handleGetOrch.ts:28).
HistoryShown ==
    AnsweredOne /\ request.addr.case = "lower" =>
        /\ \A i \in (1 .. request.had) \ request.history :
              /\ Cardinality(request.history) = HistoryLimit
              /\ \A j \in request.history : i < j
        /\ NotFound => request.had = 0

\* Every request is answered or rejected, however the sources change.
RequestEnds == request.st = "open" ~> request.st # "open"

\* 404 is for an orch the mirror has nothing of (handleGetOrch.ts:4-5, "404
\* if the resolver doesn't know this orch (and we have no observations for
\* it either)").
NotFoundMeansUnobserved == NotFound => request.had = 0
=============================================================================
