----------------------------- MODULE ChainCache -----------------------------
(***************************************************************************)
(* The TTL cache in front of the chain reads of the routing service        *)
(* (src/service/routing/index.ts, createTtlCache and the four loaders).    *)
(*                                                                         *)
(* getOrLoad(key, loader) answers from an entry that has not expired: with *)
(* its value once the load has settled, with the promise of the load until *)
(* then.  Otherwise it starts a load and replaces the entry.  The loader   *)
(* of the pool stake map first calls getOrLoad for the BondingManager's    *)
(* address, and that of a serviceURI for the ServiceRegistry's; a load can *)
(* therefore wait for another one before it reads the chain itself.        *)
(*                                                                         *)
(* Time passes while a load is under way, requests arrive in any order,    *)
(* and an RPC may answer late or fail.                                     *)
(***************************************************************************)
EXTENDS Integers, FiniteSets

CONSTANTS
    Keys,      \* cache keys
    NoKey,
    Needs,     \* the key whose value a key's loader asks for first, or NoKey
    Swallow,   \* the keys whose loader turns a failed read into null
    Callers,   \* requests that may be under way together
    TTL,       \* CHAIN_READ_TTL_SEC
    LoadTime,  \* the longest time a load takes
    MaxTime,   \* bound: the clock
    MaxLoads   \* bound: loads started

ASSUME KeyAssumption  == /\ NoKey \notin Keys /\ Swallow \subseteq Keys
                         /\ Needs \in [Keys -> Keys \union {NoKey}]
                         /\ \A k \in Keys : Needs[k] # NoKey =>
                              Needs[k] \notin Swallow /\ Needs[Needs[k]] = NoKey
ASSUME TimeAssumption == {TTL, LoadTime, MaxTime, MaxLoads} \subseteq Nat

LoadId == 1 .. MaxLoads
NoLoad == 0

VARIABLES
    now,      \* the clock
    loads,    \* the loads: their entry, and how far they are
    used,     \* loads started so far
    store,    \* the Map from a key to the entry of its last load
    callers   \* what each request waits for or was answered with

vars == <<now, loads, used, store, callers>>

(* A load waits for the load of the key it needs, has its read under way,  *)
(* has an answer on the way back, or is settled.  `via` is the load that   *)
(* gave it the address it reads at; `readAt` is when the chain answered or *)
(* the load failed.                                                        *)
Load   == [key : Keys, st : {"waiting", "reading", "read", "ok", "failed"},
           start : Nat, via : LoadId \union {NoLoad}, readAt : Nat,
           null : BOOLEAN]
Caller == [st : {"idle", "waiting", "ok", "failed"},
           load : LoadId \union {NoLoad}, at : Nat]

Started    == 1 .. used
Pending(e) == loads[e].st \in {"waiting", "reading", "read"}

TypeOK ==
    /\ now \in Nat
    /\ used \in 0 .. MaxLoads
    /\ loads \in [Started -> Load]
    /\ store \in [Keys -> Started \union {NoLoad}]
    /\ callers \in [Callers -> Caller]

Init ==
    /\ now = 0 /\ used = 0
    /\ loads = [e \in {} |-> NoLoad]
    /\ store = [k \in Keys |-> NoLoad]
    /\ callers = [c \in Callers |-> [st |-> "idle", load |-> NoLoad, at |-> 0]]

----------------------------------------------------------------------------
(* getOrLoad                                                               *)

\* Mutant: expiresAt >= t.
Fresh_Inclusive(e) == e # NoLoad /\ loads[e].start + TTL >= now

\* An entry that answers: expiresAt > t, expiresAt being fixed at the start.
Fresh(e) == e # NoLoad /\ loads[e].start + TTL > now

\* Mutant: only a settled entry answers.
Hit_SettledOnly(k) == Fresh(store[k]) /\ loads[store[k]].st = "ok"

Hit(k) == Fresh(store[k])

\* Mutant: an unsettled entry is answered as it is.
Answer_Unsettled(c, e, st) ==
    callers' = [callers EXCEPT ![c] = [st |-> st, load |-> e, at |-> now]]

\* The caller is answered, or waits for the promise of load e.
Answer(c, e, st) ==
    callers' = [callers EXCEPT ![c] =
                  [st |-> IF st = "ok" THEN st ELSE "waiting", load |-> e, at |-> now]]

NewLoad(k, st, e) == [key |-> k, st |-> st, start |-> now, via |-> e,
                      readAt |-> 0, null |-> FALSE]
Extend(f, e, x) == [i \in DOMAIN f \union {e} |-> IF i = e THEN x ELSE f[i]]

CallHit(c, k) ==
    /\ callers[c].st # "waiting"
    /\ Hit(k)
    /\ Answer(c, store[k], loads[store[k]].st)
    /\ UNCHANGED <<now, loads, used, store>>

\* A miss on a key whose loader reads the chain at once.
CallMiss(c, k) ==
    /\ callers[c].st # "waiting"
    /\ ~Hit(k) /\ Needs[k] = NoKey
    /\ used < MaxLoads
    /\ used' = used + 1
    /\ loads' = Extend(loads, used', NewLoad(k, "reading", NoLoad))
    /\ store' = [store EXCEPT ![k] = used']
    /\ Answer(c, used', "reading")
    /\ UNCHANGED now

\* A miss on a key whose loader needs another one, which is a hit: that
\* value may be there already, or still be loading.
CallMissOverHit(c, k) ==
    LET n == store[Needs[k]]
        st == IF loads[n].st = "ok" THEN "reading" ELSE "waiting" IN
    /\ callers[c].st # "waiting"
    /\ ~Hit(k) /\ Needs[k] # NoKey /\ Hit(Needs[k])
    /\ used < MaxLoads
    /\ used' = used + 1
    /\ loads' = Extend(loads, used', NewLoad(k, st, n))
    /\ store' = [store EXCEPT ![k] = used']
    /\ Answer(c, used', st)
    /\ UNCHANGED now

\* Both miss: the needed key's load starts and is stored first.
CallMissOverMiss(c, k) ==
    LET n == used + 1 IN
    /\ callers[c].st # "waiting"
    /\ ~Hit(k) /\ Needs[k] # NoKey /\ ~Hit(Needs[k])
    /\ used + 2 <= MaxLoads
    /\ used' = used + 2
    /\ loads' = Extend(Extend(loads, n, NewLoad(Needs[k], "reading", NoLoad)),
                       used', NewLoad(k, "waiting", n))
    /\ store' = [store EXCEPT ![Needs[k]] = n, ![k] = used']
    /\ Answer(c, used', "waiting")
    /\ UNCHANGED now

----------------------------------------------------------------------------
(* The loads                                                               *)

\* The chain answers a read; the answer is on its way.
Read(e) ==
    /\ loads[e].st = "reading"
    /\ loads' = [loads EXCEPT ![e].st = "read", ![e].readAt = now]
    /\ UNCHANGED <<now, used, store, callers>>

\* Everyone that waits for a load of S when it settles.
Settle(S, st) ==
    callers' = [c \in Callers |->
                  IF callers[c].st = "waiting" /\ callers[c].load \in S
                  THEN [callers[c] EXCEPT !.st = st] ELSE callers[c]]
WaitFor(e) == {f \in Started : loads[f].st = "waiting" /\ loads[f].via = e}

\* A loader returns: its entry is settled, its callers are answered, and
\* the loads that wait for it go on to their own read.
Succeed(e, null) ==
    /\ loads' = [f \in Started |->
                   IF f = e THEN [loads[e] EXCEPT !.st = "ok", !.null = null,
                                                  !.readAt = IF null THEN now ELSE @]
                   ELSE IF f \in WaitFor(e) THEN [loads[f] EXCEPT !.st = "reading"]
                   ELSE loads[f]]
    /\ Settle({e}, "ok")
    /\ UNCHANGED <<now, used, store>>

Return(e) == loads[e].st = "read" /\ Succeed(e, FALSE)

\* A read that fails: the loader of a serviceURI returns null ...
ReturnNull(e) ==
    /\ loads[e].st \in {"reading", "read"} /\ loads[e].key \in Swallow
    /\ Succeed(e, TRUE)

Thrown(e) == {e} \union WaitFor(e)
Fails(S) == loads' = [f \in Started |-> IF f \in S
                                      THEN [loads[f] EXCEPT !.st = "failed", !.readAt = now]
                                      ELSE loads[f]]
Delete(S) == store' = [k \in Keys |-> IF \E f \in S : loads[f].key = k
                                     THEN NoLoad ELSE store[k]]
Throws(e) == loads[e].st \in {"reading", "read"} /\ loads[e].key \notin Swallow

\* Mutants: the failed entry stays; every entry goes; the requests that wait
\* are forgotten.
Throw_Kept(e) == /\ Throws(e) /\ Fails(Thrown(e)) /\ Settle(Thrown(e), "failed")
                 /\ UNCHANGED <<now, used, store>>
Throw_Clear(e) == /\ Throws(e) /\ Fails(Thrown(e)) /\ Settle(Thrown(e), "failed")
                  /\ store' = [k \in Keys |-> NoLoad]
                  /\ UNCHANGED <<now, used>>
Throw_Silent(e) == /\ Throws(e) /\ Fails(Thrown(e)) /\ Delete(Thrown(e))
                   /\ UNCHANGED <<now, used, callers>>

\* ... any other throws, which deletes whatever entry its key has by now,
\* and makes the loads that wait for it throw in turn.
Throw(e) ==
    /\ Throws(e)
    /\ Fails(Thrown(e))
    /\ Delete(Thrown(e))
    /\ Settle(Thrown(e), "failed")
    /\ UNCHANGED <<now, used>>

\* Time passes, but no load takes longer than LoadTime.
Clock ==
    /\ now < MaxTime
    /\ \A e \in Started : Pending(e) => now - loads[e].start < LoadTime
    /\ now' = now + 1
    /\ UNCHANGED <<loads, used, store, callers>>

Call == \E c \in Callers, k \in Keys :
          \/ CallHit(c, k)
          \/ CallMiss(c, k)
          \/ CallMissOverHit(c, k)
          \/ CallMissOverMiss(c, k)
Progress(e) == Read(e) \/ Return(e) \/ ReturnNull(e) \/ Throw(e)
Next == Call \/ (\E e \in Started : Progress(e)) \/ Clock

Spec == Init /\ [][Next]_vars

\* A read is answered or times out (viem's HTTP transport), so a load moves.
FairSpec == Spec /\ \A e \in LoadId : WF_vars(e \in Started /\ Progress(e))
----------------------------------------------------------------------------
(* Properties.                                                             *)

\* What a request is answered with was read from the chain less than TTL
\* before the request, whether the value was cached or the request joined a
\* load under way (index.ts:254: the entry's life runs from the start of
\* its load, not from its end).  The address a read is made at came out of
\* the cache in turn, and was as fresh when that load began: all in all an
\* answer may rest on a read up to twice TTL old (index.ts:66-71, 73-75).
\* A null that stands for a failed read (index.ts:79) is kept like a value,
\* and no longer: the failure is less than TTL before the request as well.
FreshFor(e, at) ==
    loads[e].st = "ok" /\ (loads[e].readAt + TTL > at \/ loads[e].readAt >= at)
FreshAnswers ==
    /\ \A c \in Callers :
         callers[c].st = "ok" => FreshFor(callers[c].load, callers[c].at)
    /\ \A e \in Started :
         loads[e].via # NoLoad /\ loads[e].st \notin {"waiting", "failed"} =>
           /\ loads[loads[e].via].key = Needs[loads[e].key]
           /\ FreshFor(loads[e].via, loads[e].start)

\* No entry answers with a failure: the request after a failed load starts a
\* new one (index.ts:265-267, "drop the entry so the next caller retries
\* instead of getting a poisoned cache").
NoFailureStored ==
    \A k \in Keys : store[k] # NoLoad =>
        /\ loads[store[k]].st # "failed"
        /\ loads[store[k]].key = k

\* A second load of a key starts only once the first has outlived its TTL
\* (index.ts:231, "single-flight in-flight dedup"), or has lost its entry to
\* an older one that had and then failed.
SingleFlight ==
    \A e, f \in Started :
      Pending(e) /\ Pending(f) /\ loads[e].key = loads[f].key /\ e < f =>
        \/ loads[f].start >= loads[e].start + TTL
        \/ \E g \in Started : /\ g < e /\ loads[g].key = loads[e].key
                             /\ loads[g].st = "failed" /\ loads[g].readAt >= loads[e].start

\* A load whose entry a later load of its key has replaced.
Overtaken(e) == Pending(e) /\ store[loads[e].key] # e

\* Nothing evicts an entry that is settled and has not expired, but for a
\* load of its key that has outlived its own TTL and throws.
KeptForTTL ==
    [][\A k \in Keys :
          /\ Hit(k) /\ loads[store[k]].st = "ok"
          /\ \A e \in Started : loads[e].key = k => ~Overtaken(e)
          => store'[k] = store[k]]_vars

\* Every request is answered.
EveryCallAnswered ==
    \A c \in Callers : callers[c].st = "waiting" ~> callers[c].st # "waiting"
=============================================================================
