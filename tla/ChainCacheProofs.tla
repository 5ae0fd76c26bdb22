-------------------------- MODULE ChainCacheProofs --------------------------
(***************************************************************************)
(* Proofs about the chain-read cache, for any keys, callers, lifetime and  *)
(* number of loads.                                                        *)
(*                                                                         *)
(* The argument: loads are numbered in the order they start, the entry of  *)
(* a key is its last load, and a load's number, key, start and origin      *)
(* never change.  A key without an entry either has no load under way, or  *)
(* lost the entry to an older load of the key that failed, or to one that  *)
(* the expiry of the load under way had let start.  Who joins a load does  *)
(* so before the load's TTL has run out, and the chain is read after the   *)
(* load has started: that is how old an answer can be.                     *)
(***************************************************************************)
EXTENDS ChainCache, TLAPS

Key(e)    == loads[e].key
Joined(e, at) == loads[e].start + TTL > at \/ loads[e].start = at

\* Loads are numbered as they start.
StartsOrdered ==
    \A e \in Started :
      /\ loads[e].start <= now
      /\ \A f \in Started : e < f => loads[e].start <= loads[f].start

\* A read ends, well or not, while its load is under way, and only a loader that
\* swallows failures answers null.
ReadsInTime ==
    \A e \in Started :
      /\ loads[e].st \in {"read", "failed", "ok"}
         => loads[e].start <= loads[e].readAt /\ loads[e].readAt <= now
      /\ loads[e].null => loads[e].st = "ok" /\ Key(e) \in Swallow

\* A load of a key that needs another one was started over a load of that
\* key, waits for it while it reads, and goes on once it has its value.
ViaSound ==
    \A e \in Started :
      LET via == loads[e].via IN
      /\ via = NoLoad <=> Needs[Key(e)] = NoKey
      /\ via # NoLoad =>
           /\ via \in Started /\ Key(via) = Needs[Key(e)]
           /\ Joined(via, loads[e].start)
           /\ loads[e].st = "waiting" => loads[via].st \in {"reading", "read"}
           /\ loads[e].st \notin {"waiting", "failed"} => loads[via].st = "ok"
      /\ loads[e].st = "waiting" => via # NoLoad

\* A caller waits for a load under way, which it joined in time.
CallersSound ==
    \A c \in Callers :
      LET e == callers[c].load IN
      /\ callers[c].st \in {"waiting", "ok"} =>
           e \in Started /\ Joined(e, callers[c].at)
      /\ callers[c].st = "waiting" => Pending(e)
      /\ callers[c].st = "ok" => loads[e].st = "ok"

\* An older load of its key has failed while e was under way.
DroppedUnder(e) ==
    \E g \in Started : /\ g < e /\ Key(g) = Key(e)
                       /\ loads[g].st = "failed" /\ loads[g].readAt >= loads[e].start

\* The entry of a key is its last load; a load under way without an entry
\* has outlived its TTL or lost the entry to an older load.
StoredLast ==
    \A k \in Keys :
      /\ store[k] # NoLoad => \A e \in Started : Key(e) = k => e <= store[k]
      /\ store[k] = NoLoad =>
           \A e \in Started : Key(e) = k /\ Pending(e) =>
             now >= loads[e].start + TTL \/ DroppedUnder(e)

\* SingleFlight, for any load after the one under way, settled ones too.
OneAtATime ==
    \A e, f \in Started :
      Pending(e) /\ Key(e) = Key(f) /\ e < f =>
        loads[f].start >= loads[e].start + TTL \/ DroppedUnder(e)

IInv == /\ TypeOK
        /\ StartsOrdered
        /\ ReadsInTime
        /\ ViaSound
        /\ CallersSound
        /\ NoFailureStored
        /\ StoredLast
        /\ OneAtATime

----------------------------------------------------------------------------
(* Types.                                                                  *)

\* The bounds are natural numbers.
LEMMA Bounds == TTL \in Nat /\ MaxLoads \in Nat
  BY TimeAssumption

\* What TypeOK says of one load, one entry and one caller.
LEMMA TypeFacts ==
    ASSUME TypeOK
    PROVE  /\ now \in Nat /\ used \in Nat /\ used <= MaxLoads
           /\ \A e \in Started :
                /\ e \in Nat /\ e >= 1 /\ e <= used /\ e \in LoadId
                /\ loads[e] \in Load
                /\ Key(e) \in Keys /\ loads[e].start \in Nat
                /\ loads[e].readAt \in Nat
                /\ loads[e].via \in LoadId \union {NoLoad}
                /\ loads[e].st \in {"waiting", "reading", "read", "ok", "failed"}
           /\ \A k \in Keys : store[k] \in Started \union {NoLoad}
           /\ \A c \in Callers : callers[c] \in Caller
           /\ NoLoad \notin Started
<1>1. now \in Nat /\ used \in Nat /\ used <= MaxLoads
  BY Bounds DEF TypeOK
<1>2. \A e \in Started : e \in Nat /\ e >= 1 /\ e <= used /\ e \in LoadId
  BY <1>1, Bounds DEF Started, LoadId
<1>3. \A e \in Started : loads[e] \in Load
  BY DEF TypeOK
<1>4. \A e \in Started :
        /\ Key(e) \in Keys /\ loads[e].start \in Nat
        /\ loads[e].readAt \in Nat
        /\ loads[e].via \in LoadId \union {NoLoad}
        /\ loads[e].st \in {"waiting", "reading", "read", "ok", "failed"}
  BY <1>3 DEF Load, Key
<1>5. /\ \A k \in Keys : store[k] \in Started \union {NoLoad}
      /\ \A c \in Callers : callers[c] \in Caller
  BY DEF TypeOK
<1>6. NoLoad \notin Started
  BY <1>2 DEF NoLoad
<1> QED
  BY <1>1, <1>2, <1>3, <1>4, <1>5, <1>6

\* What the key a loader needs is like.
LEMMA NeedsFacts ==
    ASSUME NEW k \in Keys, Needs[k] # NoKey
    PROVE  /\ Needs[k] \in Keys /\ Needs[k] # k
           /\ Needs[k] \notin Swallow /\ Needs[Needs[k]] = NoKey
  BY KeyAssumption

\* The invariant holds at the start, with no load begun.
LEMMA InitIInv == Init => IInv
<1> SUFFICES ASSUME Init PROVE IInv
  OBVIOUS
<1>1. Started = {}
  BY DEF Init, Started
<1>2. /\ now = 0 /\ used = 0 /\ loads = [e \in {} |-> NoLoad]
      /\ store = [k \in Keys |-> NoLoad]
      /\ callers = [c \in Callers |-> [st |-> "idle", load |-> NoLoad, at |-> 0]]
  BY DEF Init
<1>3. TypeOK
  <2>1. [st |-> "idle", load |-> NoLoad, at |-> 0] \in Caller
    BY DEF Caller
  <2>2. callers \in [Callers -> Caller]
    BY <1>2, <2>1
  <2>3. loads \in [Started -> Load]
    BY <1>1, <1>2
  <2>4. used \in 0 .. MaxLoads /\ now \in Nat
    BY <1>2, Bounds
  <2> QED
    BY <1>2, <2>2, <2>3, <2>4 DEF TypeOK
<1>4. \A c \in Callers : callers[c].st = "idle"
  BY <1>2
<1>5. CallersSound
  BY <1>4 DEF CallersSound
<1>6. NoFailureStored /\ StoredLast
  BY <1>1, <1>2 DEF NoFailureStored, StoredLast
<1> QED
  BY <1>1, <1>3, <1>5, <1>6 DEF IInv, StartsOrdered, ReadsInTime, ViaSound,
     OneAtATime

----------------------------------------------------------------------------
(* Loads start.                                                            *)

\* What has been said of a load stays true while the loads it is about stay
\* as they are.
LEMMA DroppedKept ==
    ASSUME NEW e \in Started, Started \subseteq Started',
           loads'[e].key = loads[e].key, loads'[e].start = loads[e].start,
           \A g \in Started : loads[g].st = "failed" => loads'[g] = loads[g],
           DroppedUnder(e)
    PROVE  DroppedUnder(e)'
  BY DEF DroppedUnder, Key

\* What a step that starts loads does to them and to the store: the new ones
\* have different keys, none of which had an entry that answers, and each
\* has become the entry of its key.
New == Started' \ Started
Starts ==
    /\ used' \in used .. MaxLoads /\ now' = now
    /\ loads' \in [Started' -> Load]
    /\ \A e \in Started : loads'[e] = loads[e]
    /\ \A e \in New : /\ loads'[e].st \in {"waiting", "reading"}
                      /\ loads'[e].start = now /\ ~loads'[e].null
    /\ \A e, f \in New : loads'[e].key = loads'[f].key => e = f
    /\ store' \in [Keys -> Started' \union {NoLoad}]
    /\ \A k \in Keys :
         \/ store'[k] = store[k] /\ \A e \in New : loads'[e].key # k
         \/ ~Hit(k) /\ store'[k] \in New /\ loads'[store'[k]].key = k

\* What a new load's own origin must be like (ViaSound of it).
Begun(e) ==
    LET via == loads'[e].via IN
    /\ via = NoLoad <=> Needs[loads'[e].key] = NoKey
    /\ loads'[e].st = "waiting" => via # NoLoad
    /\ via # NoLoad =>
         /\ via \in Started' /\ loads'[via].key = Needs[loads'[e].key]
         /\ loads'[via].start + TTL > now \/ loads'[via].start = now
         /\ loads'[e].st = "waiting" => loads'[via].st \in {"reading", "read"}
         /\ loads'[e].st # "waiting" => loads'[via].st = "ok"

\* The loads of this step come after every load begun before.
LEMMA NewFacts ==
    ASSUME IInv, used' \in used .. MaxLoads
    PROVE  /\ Started' = Started \union New /\ Started \intersect New = {}
           /\ \A e \in Started, n \in New : e < n
           /\ \A n \in New : n \in Nat /\ n # NoLoad
<1>1. /\ used \in Nat /\ used' \in Nat /\ used <= used'
      /\ Started = 1 .. used /\ Started' = 1 .. used'
  BY TypeFacts, Bounds DEF IInv, Started
<1> QED
  BY <1>1 DEF New, NoLoad

\* What a step that begins loads keeps of them, by the facts above.
LEMMA StartsKeeps ==
    ASSUME IInv, Starts, \A e \in New : Begun(e)
    PROVE  /\ StartsOrdered' /\ ReadsInTime' /\ ViaSound'
           /\ NoFailureStored' /\ StoredLast' /\ OneAtATime'
<1>1. /\ Started' = Started \union New /\ Started \intersect New = {}
      /\ \A e \in Started, n \in New : e < n
      /\ \A n \in New : n \in Nat /\ n # NoLoad
  BY NewFacts DEF Starts
<1>2. /\ now' = now
      /\ \A e \in Started : loads'[e] = loads[e]
      /\ \A e \in New : /\ loads'[e].st \in {"waiting", "reading"}
                        /\ loads'[e].start = now /\ ~loads'[e].null
      /\ \A e, f \in New : loads'[e].key = loads'[f].key => e = f
      /\ \A k \in Keys :
           \/ store'[k] = store[k] /\ \A e \in New : loads'[e].key # k
           \/ ~Hit(k) /\ store'[k] \in New /\ loads'[store'[k]].key = k
  BY DEF Starts
<1>3. \A e \in Started' : loads'[e].key \in Keys
  BY DEF Starts, Load
<1>4. /\ now \in Nat /\ TTL \in Nat
      /\ \A e \in Started : e \in Nat /\ loads[e].start \in Nat
      /\ \A k \in Keys : store[k] \in Started \union {NoLoad}
  BY TypeFacts, Bounds DEF IInv
<1>5. \A e \in Started : DroppedUnder(e) => DroppedUnder(e)'
  BY <1>1, <1>2, DroppedKept
<1>6. StartsOrdered'
  <2>1. ASSUME NEW e \in Started'
        PROVE  loads'[e].start <= now'
    <3>1. CASE e \in Started
      BY <1>2, <3>1 DEF IInv, StartsOrdered
    <3>2. CASE e \in New
      BY <1>2, <1>4, <3>2
    <3> QED
      BY <1>1, <3>1, <3>2
  <2>2. ASSUME NEW e \in Started', NEW f \in Started', e < f
        PROVE  loads'[e].start <= loads'[f].start
    <3>1. CASE f \in New
      BY <1>2, <2>1, <3>1
    <3>2. CASE e \in Started /\ f \in Started
      BY <1>2, <2>2, <3>2 DEF IInv, StartsOrdered
    <3>3. CASE e \in New /\ f \in Started
      BY <1>1, <1>4, <2>2, <3>3
    <3> QED
      BY <1>1, <3>1, <3>2, <3>3
  <2> QED
    BY <2>1, <2>2 DEF StartsOrdered
<1>7. ReadsInTime'
  <2>1. ASSUME NEW e \in Started
        PROVE  /\ loads'[e].st \in {"read", "failed", "ok"}
                  => loads'[e].start <= loads'[e].readAt /\ loads'[e].readAt <= now'
               /\ loads'[e].null => loads'[e].st = "ok" /\ loads'[e].key \in Swallow
    BY <1>2 DEF IInv, ReadsInTime, Key
  <2>2. \A e \in New : /\ loads'[e].st \notin {"read", "failed", "ok"}
                       /\ ~loads'[e].null
    BY <1>2
  <2> QED
    BY <1>1, <2>1, <2>2 DEF ReadsInTime, Key
<1>8. ViaSound'
  <2>1. ASSUME NEW e \in Started' , NEW via, via = loads'[e].via
        PROVE  /\ via = NoLoad <=> Needs[loads'[e].key] = NoKey
               /\ loads'[e].st = "waiting" => via # NoLoad
               /\ via # NoLoad =>
                    /\ via \in Started' /\ loads'[via].key = Needs[loads'[e].key]
                    /\ Joined(via, loads[e].start)'
                    /\ loads'[e].st = "waiting" => loads'[via].st \in {"reading", "read"}
                    /\ loads'[e].st \notin {"waiting", "failed"} => loads'[via].st = "ok"
    <3>1. CASE e \in Started
      <4>1. /\ via = NoLoad <=> Needs[loads[e].key] = NoKey
            /\ loads[e].st = "waiting" => via # NoLoad
            /\ via # NoLoad =>
                 /\ via \in Started /\ loads[via].key = Needs[loads[e].key]
                 /\ Joined(via, loads[e].start)
                 /\ loads[e].st = "waiting" => loads[via].st \in {"reading", "read"}
                 /\ loads[e].st \notin {"waiting", "failed"} => loads[via].st = "ok"
        BY <1>2, <2>1, <3>1 DEF IInv, ViaSound, Key
      <4> QED
        BY <1>1, <1>2, <3>1, <4>1 DEF Joined
    <3>2. CASE e \in New
      BY <1>2, <2>1, <3>2 DEF Begun, Joined
    <3> QED
      BY <1>1, <3>1, <3>2
  <2> QED
    BY <2>1 DEF ViaSound, Key
<1>9. NoFailureStored'
  <2> SUFFICES ASSUME NEW k \in Keys, store'[k] # NoLoad
               PROVE  loads'[store'[k]].st # "failed" /\ loads'[store'[k]].key = k
    BY DEF NoFailureStored
  <2>1. CASE store'[k] = store[k]
    <3>1. store[k] \in Started /\ loads[store[k]].st # "failed" /\ loads[store[k]].key = k
      BY <1>4, <2>1 DEF IInv, NoFailureStored
    <3> QED
      BY <1>2, <2>1, <3>1
  <2>2. CASE store'[k] \in New /\ loads'[store'[k]].key = k
    BY <1>2, <2>2
  <2> QED
    BY <1>2, <2>1, <2>2
<1>10. StoredLast'
  <2> SUFFICES ASSUME NEW k \in Keys
               PROVE  /\ store'[k] # NoLoad =>
                           \A e \in Started' : loads'[e].key = k => e <= store'[k]
                      /\ store'[k] = NoLoad =>
                           \A e \in Started' : loads'[e].key = k /\ Pending(e)' =>
                             now' >= loads'[e].start + TTL \/ DroppedUnder(e)'
    BY DEF StoredLast, Key
  <2>1. CASE store'[k] = store[k] /\ \A e \in New : loads'[e].key # k
    <3>1. \A e \in Started' : loads'[e].key = k =>
            /\ e \in Started /\ loads'[e] = loads[e] /\ loads[e].key = k
            /\ Pending(e)' => Pending(e)
      BY <1>1, <1>2, <2>1 DEF Pending
    <3>2. store[k] # NoLoad => \A e \in Started : loads[e].key = k => e <= store[k]
      BY DEF IInv, StoredLast, Key
    <3>3. store[k] = NoLoad =>
            \A e \in Started : loads[e].key = k /\ Pending(e) =>
              now >= loads[e].start + TTL \/ DroppedUnder(e)
      BY DEF IInv, StoredLast, Key
    <3> QED
      BY <1>2, <1>5, <2>1, <3>1, <3>2, <3>3
  <2>2. CASE store'[k] \in New /\ loads'[store'[k]].key = k
    BY <1>1, <1>2, <1>4, <2>2
  <2> QED
    BY <1>2, <2>1, <2>2
<1>11. OneAtATime'
  <2> SUFFICES ASSUME NEW e \in Started', NEW f \in Started', Pending(e)',
                      loads'[e].key = loads'[f].key, e < f
               PROVE  \/ loads'[f].start >= loads'[e].start + TTL
                      \/ DroppedUnder(e)'
    BY DEF OneAtATime, Key
  <2>1. CASE e \in Started /\ f \in Started
    <3>1. loads[f].start >= loads[e].start + TTL \/ DroppedUnder(e)
      BY <1>2, <2>1 DEF IInv, OneAtATime, Key, Pending
    <3> QED
      BY <1>2, <1>5, <2>1, <3>1
  <2>2. CASE e \in Started /\ f \in New
    <3> DEFINE k == loads'[f].key
    <3>1. k \in Keys /\ ~Hit(k)
      BY <1>2, <1>3, <2>2
    <3>2. Pending(e) /\ loads[e].key = k /\ loads'[f].start = now
      BY <1>2, <2>2 DEF Pending
    <3>3. CASE store[k] = NoLoad
      <4>1. now >= loads[e].start + TTL \/ DroppedUnder(e)
        BY <2>2, <3>1, <3>2, <3>3 DEF IInv, StoredLast, Key
      <4> QED
        BY <1>2, <1>5, <2>2, <3>2, <4>1
    <3>4. CASE store[k] # NoLoad
      <4>1. store[k] \in Started /\ e <= store[k]
        BY <1>4, <2>2, <3>1, <3>2, <3>4 DEF IInv, StoredLast, Key
      <4>2. loads[e].start <= loads[store[k]].start
        BY <1>4, <2>2, <4>1 DEF IInv, StartsOrdered
      <4>3. ~(loads[store[k]].start + TTL > now)
        BY <3>1, <3>4 DEF Hit, Fresh
      <4>4. now >= loads[e].start + TTL
        BY <1>4, <2>2, <4>1, <4>2, <4>3
      <4> QED
        BY <1>2, <2>2, <3>2, <4>4
    <3> QED
      BY <3>3, <3>4
  <2>3. CASE e \in New /\ f \in New
    BY <1>1, <1>2, <2>3
  <2>4. CASE e \in New /\ f \in Started
    BY <1>1, <1>4, <2>4
  <2> QED
    BY <1>1, <2>1, <2>2, <2>3, <2>4
<1> QED
  BY <1>6, <1>7, <1>8, <1>9, <1>10, <1>11

----------------------------------------------------------------------------
(* Calls.                                                                  *)

\* The caller is answered by a load it joins now.
LEMMA AnswerKeeps ==
    ASSUME IInv, NEW c \in Callers, NEW e \in Started', NEW st, Answer(c, e, st),
           now' = now, Started \subseteq Started',
           \A f \in Started : loads'[f] = loads[f],
           e \in LoadId, loads'[e].start + TTL > now \/ loads'[e].start = now,
           st = "ok" => loads'[e].st = "ok",
           st # "ok" => Pending(e)'
    PROVE  callers' \in [Callers -> Caller] /\ CallersSound'
<1> DEFINE x == [st |-> IF st = "ok" THEN st ELSE "waiting", load |-> e, at |-> now]
<1>1. callers' = [callers EXCEPT ![c] = x]
  BY DEF Answer
<1>2. callers \in [Callers -> Caller] /\ now \in Nat
  BY DEF IInv, TypeOK
<1>3. /\ x \in Caller /\ x.load = e /\ x.at = now
      /\ st = "ok" => x.st = "ok"
      /\ st # "ok" => x.st = "waiting"
  BY <1>2 DEF Caller
<1> HIDE DEF x
<1>4. callers'[c] = x /\ \A d \in Callers \ {c} : callers'[d] = callers[d]
  BY <1>1, <1>2
<1>5. callers' \in [Callers -> Caller]
  BY <1>1, <1>2, <1>3
<1>6. ASSUME NEW d \in Callers, NEW f, f = callers'[d].load
      PROVE  /\ callers'[d].st \in {"waiting", "ok"} =>
                  f \in Started' /\ Joined(f, callers[d].at)'
             /\ callers'[d].st = "waiting" => Pending(f)'
             /\ callers'[d].st = "ok" => loads'[f].st = "ok"
  <2>1. CASE d = c
    BY <1>3, <1>4, <1>6, <2>1 DEF Joined
  <2>2. CASE d # c
    <3>1. /\ callers[d].st \in {"waiting", "ok"} =>
               f \in Started /\ Joined(f, callers[d].at)
          /\ callers[d].st = "waiting" => Pending(f)
          /\ callers[d].st = "ok" => loads[f].st = "ok"
      BY <1>4, <1>6, <2>2 DEF IInv, CallersSound
    <3> QED
      BY <1>4, <2>2, <3>1 DEF Joined, Pending
  <2> QED
    BY <2>1, <2>2
<1>7. CallersSound'
  BY <1>6 DEF CallersSound
<1> QED
  BY <1>5, <1>7

\* An entry that answers is a load of its key, settled or under way.
LEMMA HitFacts ==
    ASSUME IInv, NEW k \in Keys, Hit(k)
    PROVE  /\ store[k] \in Started /\ loads[store[k]].key = k
           /\ loads[store[k]].start + TTL > now
           /\ loads[store[k]].st # "failed"
           /\ loads[store[k]].st = "ok" \/ Pending(store[k])
<1>1. store[k] \in Started /\ loads[store[k]].start + TTL > now
  BY TypeFacts DEF IInv, Hit, Fresh
<1>2. loads[store[k]].st # "failed" /\ loads[store[k]].key = k
  BY <1>1, TypeFacts DEF IInv, NoFailureStored
<1> QED
  BY <1>1, <1>2, TypeFacts DEF IInv, Pending

\* getOrLoad finds an entry within its TTL: the caller gets its promise.
LEMMA CallHitStep ==
    ASSUME IInv, NEW c \in Callers, NEW k \in Keys, CallHit(c, k)
    PROVE  IInv'
<1>1. PICK e : e = store[k]
  OBVIOUS
<1>2. PICK st : st = loads[e].st
  OBVIOUS
<1>3. /\ Hit(k) /\ Answer(c, e, st)
      /\ now' = now /\ loads' = loads /\ used' = used /\ store' = store
  BY <1>1, <1>2 DEF CallHit
<1>4. /\ e \in Started /\ loads[e].start + TTL > now
      /\ st = "ok" \/ Pending(e)
  BY <1>1, <1>2, <1>3, HitFacts
<1>5. Started' = Started /\ e \in LoadId
  BY <1>3, <1>4, TypeFacts DEF IInv, Started
<1>6. /\ Pending(e) => Pending(e)'
      /\ st = "ok" => loads'[e].st = "ok"
  BY <1>2, <1>3 DEF Pending
<1>7. callers' \in [Callers -> Caller] /\ CallersSound'
  BY <1>3, <1>4, <1>5, <1>6, AnswerKeeps
<1>8. TypeOK'
  BY <1>3, <1>5, <1>7 DEF IInv, TypeOK
<1>9. /\ StartsOrdered' /\ ReadsInTime' /\ ViaSound'
      /\ NoFailureStored' /\ StoredLast' /\ OneAtATime'
  BY <1>3, <1>5 DEF IInv, StartsOrdered, ReadsInTime, ViaSound, NoFailureStored,
     StoredLast, OneAtATime, DroppedUnder, Pending, Key, Joined
<1> QED
  BY <1>7, <1>8, <1>9 DEF IInv

\* One load more.
LEMMA ExtendFacts ==
    ASSUME IInv, used < MaxLoads, used' = used + 1, NEW x \in Load,
           loads' = Extend(loads, used', x)
    PROVE  /\ loads' \in [Started' -> Load] /\ used' \in used .. MaxLoads
           /\ Started' = Started \union {used'} /\ New = {used'}
           /\ used' \in LoadId
           /\ loads'[used'] = x /\ \A e \in Started : loads'[e] = loads[e]
<1>1. used \in Nat /\ MaxLoads \in Nat /\ loads \in [Started -> Load]
  BY TypeFacts, Bounds DEF IInv, TypeOK
<1>2. /\ Started' = Started \union {used'} /\ used' \notin Started
      /\ used' \in LoadId /\ used' \in used .. MaxLoads
  BY <1>1 DEF Started, LoadId
<1>3. loads' = [i \in Started \union {used'} |-> IF i = used' THEN x ELSE loads[i]]
  BY <1>1 DEF Extend
<1> QED
  BY <1>1, <1>2, <1>3 DEF New

\* A load as it starts.
LEMMA NewLoadFacts ==
    ASSUME TypeOK, NEW k \in Keys, NEW st \in {"waiting", "reading"},
           NEW via \in LoadId \union {NoLoad}
    PROVE  /\ NewLoad(k, st, via) \in Load
           /\ NewLoad(k, st, via).key = k /\ NewLoad(k, st, via).st = st
           /\ NewLoad(k, st, via).via = via /\ NewLoad(k, st, via).start = now
           /\ ~NewLoad(k, st, via).null
  BY DEF NewLoad, Load, TypeOK

\* A call that starts one load, and waits for it.
LEMMA MissStep ==
    ASSUME IInv, NEW c \in Callers, NEW k \in Keys, ~Hit(k),
           NEW st \in {"waiting", "reading"}, NEW via \in LoadId \union {NoLoad},
           used < MaxLoads, used' = used + 1, now' = now,
           loads' = Extend(loads, used', NewLoad(k, st, via)),
           store' = [store EXCEPT ![k] = used'],
           Answer(c, used', st), Begun(used')
    PROVE  IInv' /\ Starts
<1> DEFINE x == NewLoad(k, st, via)
<1>1. /\ x \in Load /\ x.key = k /\ x.st = st /\ x.start = now /\ ~x.null
  BY NewLoadFacts DEF IInv
<1> HIDE DEF x
<1>2. /\ loads' \in [Started' -> Load] /\ used' \in used .. MaxLoads
      /\ Started' = Started \union {used'} /\ New = {used'}
      /\ used' \in LoadId
      /\ loads'[used'] = x /\ \A e \in Started : loads'[e] = loads[e]
  BY <1>1, ExtendFacts DEF x
<1>3. store \in [Keys -> Started \union {NoLoad}]
  BY DEF IInv, TypeOK
<1>4. store' \in [Keys -> Started' \union {NoLoad}]
  BY <1>2, <1>3
<1>5. store'[k] = used' /\ \A j \in Keys \ {k} : store'[j] = store[j]
  BY <1>3
<1>6. Starts
  BY <1>1, <1>2, <1>4, <1>5 DEF Starts
<1>7. /\ StartsOrdered' /\ ReadsInTime' /\ ViaSound'
      /\ NoFailureStored' /\ StoredLast' /\ OneAtATime'
  BY <1>2, <1>6, StartsKeeps
<1>8. callers' \in [Callers -> Caller] /\ CallersSound'
  <2>1. PICK e : e = used'
    OBVIOUS
  <2>2. /\ e \in Started' /\ e \in LoadId /\ loads'[e] = x
        /\ Started \subseteq Started' /\ Answer(c, e, st)
    BY <1>2, <2>1
  <2>3. Pending(e)' /\ loads'[e].start = now
    BY <1>1, <2>2 DEF Pending
  <2> QED
    BY <1>2, <2>2, <2>3, AnswerKeeps
<1>9. TypeOK'
  <2>1. now' \in Nat /\ used' \in 0 .. MaxLoads
    BY <1>2, TypeFacts, Bounds DEF IInv
  <2> QED
    BY <1>2, <1>4, <1>8, <2>1 DEF TypeOK
<1> QED
  BY <1>6, <1>7, <1>8, <1>9 DEF IInv

\* getOrLoad finds none: the load it begins reads the chain itself.
LEMMA CallMissStep ==
    ASSUME IInv, NEW c \in Callers, NEW k \in Keys, CallMiss(c, k)
    PROVE  IInv' /\ Starts
<1>1. /\ ~Hit(k) /\ Needs[k] = NoKey /\ used < MaxLoads /\ used' = used + 1
      /\ loads' = Extend(loads, used', NewLoad(k, "reading", NoLoad))
      /\ store' = [store EXCEPT ![k] = used']
      /\ Answer(c, used', "reading") /\ now' = now
  BY DEF CallMiss
<1>2. Begun(used')
  <2>1. /\ NewLoad(k, "reading", NoLoad) \in Load
        /\ NewLoad(k, "reading", NoLoad).key = k
        /\ NewLoad(k, "reading", NoLoad).st = "reading"
        /\ NewLoad(k, "reading", NoLoad).via = NoLoad
    BY NewLoadFacts DEF IInv
  <2>2. loads'[used'] = NewLoad(k, "reading", NoLoad)
    BY <1>1, <2>1, ExtendFacts
  <2> QED
    BY <1>1, <2>1, <2>2 DEF Begun
<1> QED
  BY <1>1, <1>2, MissStep

\* The load it begins awaits another key's entry, which is there.
LEMMA CallMissOverHitStep ==
    ASSUME IInv, NEW c \in Callers, NEW k \in Keys, CallMissOverHit(c, k)
    PROVE  IInv' /\ Starts
<1>0. PICK n, st : /\ n = store[Needs[k]]
                   /\ st = IF loads[n].st = "ok" THEN "reading" ELSE "waiting"
  OBVIOUS
<1>1. /\ ~Hit(k) /\ Needs[k] # NoKey /\ Hit(Needs[k])
      /\ used < MaxLoads /\ used' = used + 1
      /\ loads' = Extend(loads, used', NewLoad(k, st, n))
      /\ store' = [store EXCEPT ![k] = used']
      /\ Answer(c, used', st) /\ now' = now
  BY <1>0 DEF CallMissOverHit
<1>2. Needs[k] \in Keys /\ Needs[Needs[k]] = NoKey
  BY <1>1, NeedsFacts
<1>3. /\ n \in Started /\ loads[n].key = Needs[k] /\ loads[n].start + TTL > now
      /\ loads[n].st = "ok" \/ Pending(n)
  BY <1>0, <1>1, <1>2, HitFacts
<1>4. n \in LoadId \union {NoLoad} /\ n # NoLoad
  BY <1>3, TypeFacts DEF IInv
<1>5. loads[n].st # "waiting"
  BY <1>2, <1>3 DEF IInv, ViaSound, Key
<1>6. st \in {"waiting", "reading"}
  BY <1>0
<1>7. /\ NewLoad(k, st, n) \in Load
      /\ NewLoad(k, st, n).key = k /\ NewLoad(k, st, n).st = st
      /\ NewLoad(k, st, n).via = n
  BY <1>4, <1>6, NewLoadFacts DEF IInv
<1>8. /\ loads'[used'] = NewLoad(k, st, n)
      /\ loads'[n] = loads[n] /\ n \in Started'
  BY <1>1, <1>3, <1>7, ExtendFacts
<1>9. /\ st = "waiting" => loads[n].st \in {"reading", "read"}
      /\ st # "waiting" => loads[n].st = "ok"
  BY <1>0, <1>3, <1>5 DEF Pending
<1>10. Begun(used')
  BY <1>1, <1>3, <1>4, <1>7, <1>8, <1>9 DEF Begun
<1> QED
  BY <1>1, <1>4, <1>6, <1>10, MissStep

\* Two loads: the needed key's, and the key's own that waits for it.
LEMMA CallMissOverMissStep ==
    ASSUME IInv, NEW c \in Callers, NEW k \in Keys, CallMissOverMiss(c, k)
    PROVE  IInv' /\ Starts
<1> DEFINE j == Needs[k]
<1>1. PICK n, e : n = used + 1 /\ e = used'
  OBVIOUS
<1>2. PICK x, y : x = NewLoad(j, "reading", NoLoad) /\ y = NewLoad(k, "waiting", n)
  OBVIOUS
<1>3. /\ ~Hit(k) /\ j # NoKey /\ ~Hit(j) /\ used + 2 <= MaxLoads /\ used' = used + 2
      /\ loads' = Extend(Extend(loads, n, x), e, y)
      /\ store' = [store EXCEPT ![j] = n, ![k] = e]
      /\ Answer(c, e, "waiting") /\ now' = now
  BY <1>1, <1>2 DEF CallMissOverMiss
<1>4. j \in Keys /\ j # k /\ Needs[j] = NoKey
  BY <1>3, NeedsFacts
<1>5. /\ used \in Nat /\ MaxLoads \in Nat /\ now \in Nat
      /\ loads \in [Started -> Load] /\ store \in [Keys -> Started \union {NoLoad}]
  BY TypeFacts, Bounds DEF IInv, TypeOK
<1>6. /\ Started' = Started \union {n, e} /\ n \notin Started /\ e \notin Started
      /\ n # e /\ n \in LoadId /\ e \in LoadId /\ used' \in used .. MaxLoads
      /\ n # NoLoad /\ e # NoLoad
  BY <1>1, <1>3, <1>5 DEF Started, LoadId, NoLoad
<1>7. New = {n, e}
  BY <1>6 DEF New
<1>8. /\ x \in Load /\ x.key = j /\ x.st = "reading" /\ x.via = NoLoad
      /\ x.start = now /\ ~x.null
      /\ y \in Load /\ y.key = k /\ y.st = "waiting" /\ y.via = n
      /\ y.start = now /\ ~y.null
  BY <1>2, <1>4, <1>6, NewLoadFacts DEF IInv
<1>9. loads' = [i \in Started' |-> IF i = e THEN y ELSE IF i = n THEN x ELSE loads[i]]
  BY <1>3, <1>5, <1>6 DEF Extend
<1>10. /\ loads' \in [Started' -> Load]
       /\ loads'[e] = y /\ loads'[n] = x
       /\ \A f \in Started : loads'[f] = loads[f]
  BY <1>5, <1>6, <1>8, <1>9
<1>11. /\ store' \in [Keys -> Started' \union {NoLoad}]
       /\ store'[k] = e /\ store'[j] = n
       /\ \A i \in Keys \ {j, k} : store'[i] = store[i]
  BY <1>3, <1>4, <1>5, <1>6
<1>12. Starts
  <2>1. \A i \in Keys : \/ store'[i] = store[i] /\ \A f \in New : loads'[f].key # i
                        \/ ~Hit(i) /\ store'[i] \in New /\ loads'[store'[i]].key = i
    BY <1>3, <1>4, <1>7, <1>8, <1>10, <1>11
  <2>2. \A f \in New : /\ loads'[f].st \in {"waiting", "reading"}
                       /\ loads'[f].start = now /\ ~loads'[f].null
    BY <1>7, <1>8, <1>10
  <2>3. \A f, g \in New : loads'[f].key = loads'[g].key => f = g
    BY <1>4, <1>7, <1>8, <1>10
  <2> QED
    BY <1>3, <1>6, <1>10, <1>11, <2>1, <2>2, <2>3 DEF Starts
<1>13. \A f \in New : Begun(f)
  <2>1. Begun(n)
    BY <1>4, <1>8, <1>10 DEF Begun
  <2>2. Begun(e)
    BY <1>3, <1>6, <1>8, <1>10 DEF Begun
  <2> QED
    BY <1>7, <2>1, <2>2
<1>14. /\ StartsOrdered' /\ ReadsInTime' /\ ViaSound'
       /\ NoFailureStored' /\ StoredLast' /\ OneAtATime'
  BY <1>12, <1>13, StartsKeeps
<1>15. callers' \in [Callers -> Caller] /\ CallersSound'
  <2>1. e \in Started' /\ Started \subseteq Started'
    BY <1>6
  <2>2. Pending(e)' /\ loads'[e].start = now
    BY <1>8, <1>10 DEF Pending
  <2> QED
    BY <1>3, <1>6, <1>10, <2>1, <2>2, AnswerKeeps
<1>16. TypeOK'
  <2>1. now' \in Nat /\ used' \in 0 .. MaxLoads
    BY <1>3, <1>5
  <2> QED
    BY <1>10, <1>11, <1>15, <2>1 DEF TypeOK
<1> QED
  BY <1>12, <1>14, <1>15, <1>16 DEF IInv

----------------------------------------------------------------------------
(* Loads move on.                                                          *)

\* What every step of the loads does to them: none changes its key, its
\* start or its origin, and none that is settled moves again.
Moves ==
    /\ used' = used /\ now' = now
    /\ loads' \in [Started -> Load]
    /\ \A f \in Started :
         /\ loads'[f].key = loads[f].key
         /\ loads'[f].start = loads[f].start
         /\ loads'[f].via = loads[f].via
         /\ ~Pending(f) => loads'[f] = loads[f]

\* What a step that begins no load keeps of the loads.
LEMMA MovesKeep ==
    ASSUME IInv, Moves
    PROVE  /\ Started' = Started
           /\ \A f \in Started : Pending(f)' => Pending(f)
           /\ \A f \in Started : DroppedUnder(f) => DroppedUnder(f)'
           /\ StartsOrdered' /\ OneAtATime'
<1>1. /\ Started' = Started /\ now' = now
      /\ \A f \in Started :
           /\ loads'[f].key = loads[f].key
           /\ loads'[f].start = loads[f].start
           /\ ~Pending(f) => loads'[f] = loads[f]
  BY DEF Moves, Started
<1>2. \A f \in Started : Pending(f)' => Pending(f)
  BY <1>1 DEF Pending
<1>3. \A f \in Started : DroppedUnder(f) => DroppedUnder(f)'
  <2>1. \A f \in Started : loads[f].st = "failed" => loads'[f] = loads[f]
    BY <1>1 DEF Pending
  <2> QED
    BY <1>1, <2>1, DroppedKept
<1>4. StartsOrdered'
  BY <1>1 DEF IInv, StartsOrdered
<1>5. OneAtATime'
  <2> SUFFICES ASSUME NEW e \in Started, NEW f \in Started, Pending(e)',
                      loads'[e].key = loads'[f].key, e < f
               PROVE  \/ loads'[f].start >= loads'[e].start + TTL
                      \/ DroppedUnder(e)'
    BY <1>1 DEF OneAtATime, Key
  <2>1. loads[f].start >= loads[e].start + TTL \/ DroppedUnder(e)
    BY <1>1, <1>2 DEF IInv, OneAtATime, Key
  <2> QED
    BY <1>1, <1>3, <2>1
<1> QED
  BY <1>1, <1>2, <1>3, <1>4, <1>5

\* Unless a load throws, the store stays as it is, and so does what was said
\* of it.
LEMMA StoreKept ==
    ASSUME IInv, Moves, store' = store,
           \A f \in Started : loads'[f].st = "failed" => loads[f].st = "failed"
    PROVE  NoFailureStored' /\ StoredLast'
<1>1. /\ Started' = Started /\ now' = now
      /\ \A f \in Started : loads'[f].key = loads[f].key
                            /\ loads'[f].start = loads[f].start
  BY MovesKeep DEF Moves
<1>2. \A k \in Keys : store[k] \in Started \union {NoLoad}
  BY TypeFacts DEF IInv
<1>3. NoFailureStored'
  BY <1>1, <1>2 DEF IInv, NoFailureStored
<1>4. StoredLast'
  <2> SUFFICES ASSUME NEW k \in Keys
               PROVE  /\ store[k] # NoLoad =>
                           \A e \in Started : loads'[e].key = k => e <= store[k]
                      /\ store[k] = NoLoad =>
                           \A e \in Started : loads'[e].key = k /\ Pending(e)' =>
                             now >= loads'[e].start + TTL \/ DroppedUnder(e)'
    BY <1>1 DEF StoredLast, Key
  <2>1. store[k] # NoLoad => \A e \in Started : loads[e].key = k => e <= store[k]
    BY DEF IInv, StoredLast, Key
  <2>2. store[k] = NoLoad =>
          \A e \in Started : loads[e].key = k /\ Pending(e) =>
            now >= loads[e].start + TTL \/ DroppedUnder(e)
    BY DEF IInv, StoredLast, Key
  <2> QED
    BY <1>1, <2>1, <2>2, MovesKeep
<1> QED
  BY <1>3, <1>4

\* The RPC reads the chain, at the time of the step.
LEMMA ReadStep ==
    ASSUME IInv, NEW e \in Started, Read(e)
    PROVE  IInv' /\ Moves /\ store' = store
<1> DEFINE x == [loads[e] EXCEPT !.st = "read", !.readAt = now]
<1>1. /\ loads[e].st = "reading" /\ loads' = [loads EXCEPT ![e] = x]
      /\ now' = now /\ used' = used /\ store' = store /\ callers' = callers
  BY DEF Read
<1>2. loads \in [Started -> Load] /\ now \in Nat
  BY DEF IInv, TypeOK
<1>3. loads[e] \in Load
  BY <1>2
<1>4. /\ x \in Load /\ x.st = "read" /\ x.readAt = now /\ x.null = loads[e].null
      /\ x.key = loads[e].key /\ x.start = loads[e].start /\ x.via = loads[e].via
  BY <1>2, <1>3 DEF Load
<1> HIDE DEF x
<1>5. /\ loads' \in [Started -> Load] /\ loads'[e] = x
      /\ \A f \in Started \ {e} : loads'[f] = loads[f]
  BY <1>1, <1>2, <1>4
<1>6. Pending(e)
  BY <1>1 DEF Pending
<1>7. Moves
  BY <1>1, <1>4, <1>5, <1>6 DEF Moves
<1>8. Started' = Started /\ StartsOrdered' /\ OneAtATime'
  BY <1>7, MovesKeep
<1>9. NoFailureStored' /\ StoredLast'
  BY <1>1, <1>4, <1>5, <1>7, StoreKept
<1>10. ReadsInTime'
  <2>1. loads[e].start <= now /\ ~loads[e].null
    BY <1>1 DEF IInv, StartsOrdered, ReadsInTime
  <2> QED
    BY <1>1, <1>2, <1>4, <1>5, <1>8, <2>1 DEF IInv, ReadsInTime, Key
<1>11. ViaSound'
  <2> SUFFICES ASSUME NEW f \in Started, NEW via, via = loads'[f].via
               PROVE  /\ via = NoLoad <=> Needs[loads'[f].key] = NoKey
                      /\ loads'[f].st = "waiting" => via # NoLoad
                      /\ via # NoLoad =>
                           /\ via \in Started /\ loads'[via].key = Needs[loads'[f].key]
                           /\ Joined(via, loads[f].start)'
                           /\ loads'[f].st = "waiting" => loads'[via].st \in {"reading", "read"}
                           /\ loads'[f].st \notin {"waiting", "failed"} => loads'[via].st = "ok"
    BY <1>8 DEF ViaSound, Key
  <2>1. via = loads[f].via
    BY <1>4, <1>5
  <2>2. /\ via = NoLoad <=> Needs[loads[f].key] = NoKey
        /\ loads[f].st = "waiting" => via # NoLoad
        /\ via # NoLoad =>
             /\ via \in Started /\ loads[via].key = Needs[loads[f].key]
             /\ Joined(via, loads[f].start)
             /\ loads[f].st = "waiting" => loads[via].st \in {"reading", "read"}
             /\ loads[f].st \notin {"waiting", "failed"} => loads[via].st = "ok"
    BY <2>1 DEF IInv, ViaSound, Key
  <2>3. loads'[f].key = loads[f].key /\ loads'[f].start = loads[f].start
    BY <1>4, <1>5
  <2>4. loads'[f].st = "waiting" => loads[f].st = "waiting"
    BY <1>4, <1>5
  <2>5. loads'[f].st \notin {"waiting", "failed"} => loads[f].st \notin {"waiting", "failed"}
    BY <1>1, <1>4, <1>5
  <2>6. via # NoLoad => /\ loads'[via].key = loads[via].key
                        /\ loads'[via].start = loads[via].start
                        /\ loads[via].st \in {"reading", "read"} =>
                             loads'[via].st \in {"reading", "read"}
                        /\ loads[via].st = "ok" => loads'[via].st = "ok"
    BY <1>1, <1>4, <1>5, <2>2
  <2> QED
    BY <2>2, <2>3, <2>4, <2>5, <2>6 DEF Joined
<1>12. CallersSound'
  <2>1. \A f \in Started : /\ Pending(f) => Pending(f)'
                           /\ loads[f].st = "ok" => loads'[f].st = "ok"
                           /\ loads'[f].start = loads[f].start
    BY <1>1, <1>4, <1>5 DEF Pending
  <2> QED
    BY <1>1, <1>8, <2>1 DEF IInv, CallersSound, Joined
<1>13. TypeOK'
  BY <1>1, <1>5, <1>8 DEF IInv, TypeOK
<1> QED
  BY <1>1, <1>7, <1>8, <1>9, <1>10, <1>11, <1>12, <1>13 DEF IInv

\* What settling the loads of S does to those that wait for one of them.
LEMMA SettleFacts ==
    ASSUME IInv, NEW S, NEW st \in {"ok", "failed"}, Settle(S, st)
    PROVE  /\ callers' \in [Callers -> Caller]
           /\ \A c \in Callers :
                /\ callers'[c].load = callers[c].load /\ callers'[c].at = callers[c].at
                /\ \/ callers[c].st = "waiting" /\ callers[c].load \in S
                      /\ callers'[c].st = st
                   \/ ~(callers[c].st = "waiting" /\ callers[c].load \in S)
                      /\ callers'[c].st = callers[c].st
<1>1. callers \in [Callers -> Caller]
  BY DEF IInv, TypeOK
<1>2. ASSUME NEW c \in Callers
      PROVE  /\ callers'[c] \in Caller
             /\ callers'[c].load = callers[c].load /\ callers'[c].at = callers[c].at
             /\ \/ callers[c].st = "waiting" /\ callers[c].load \in S
                   /\ callers'[c].st = st
                \/ ~(callers[c].st = "waiting" /\ callers[c].load \in S)
                   /\ callers'[c].st = callers[c].st
  <2>1. callers[c] \in Caller
    BY <1>1
  <2>2. callers'[c] = IF callers[c].st = "waiting" /\ callers[c].load \in S
                      THEN [callers[c] EXCEPT !.st = st] ELSE callers[c]
    BY DEF Settle
  <2> QED
    BY <2>1, <2>2 DEF Caller
<1>3. callers' \in [Callers -> Caller]
  <2>1. callers' = [c \in Callers |-> callers'[c]]
    BY DEF Settle
  <2> QED
    BY <1>2, <2>1
<1> QED
  BY <1>2, <1>3

\* A loader returns, with a value it has read or with null.
LEMMA SucceedStep ==
    ASSUME IInv, NEW e \in Started, NEW null \in BOOLEAN, Succeed(e, null),
           loads[e].st \in {"reading", "read"},
           null => Key(e) \in Swallow, ~null => loads[e].st = "read"
    PROVE  IInv' /\ Moves /\ store' = store
<1>1. /\ loads' = [f \in Started |->
                     IF f = e THEN [loads[e] EXCEPT !.st = "ok", !.null = null,
                                                    !.readAt = IF null THEN now ELSE @]
                     ELSE IF f \in WaitFor(e) THEN [loads[f] EXCEPT !.st = "reading"]
                     ELSE loads[f]]
      /\ Settle({e}, "ok") /\ now' = now /\ used' = used /\ store' = store
  BY DEF Succeed
<1>2. \A f \in Started : loads[f] \in Load
  BY TypeFacts DEF IInv
<1>3. e \notin WaitFor(e)
  BY DEF WaitFor
<1>4. /\ loads'[e] \in Load
      /\ loads'[e].st = "ok" /\ loads'[e].null = null
      /\ loads'[e].key = loads[e].key /\ loads'[e].start = loads[e].start
      /\ loads'[e].via = loads[e].via
      /\ loads'[e].readAt = IF null THEN now ELSE loads[e].readAt
  <2>1. now \in Nat
    BY TypeFacts DEF IInv
  <2> QED
    BY <1>1, <1>2, <2>1 DEF Load
<1>5. \A f \in WaitFor(e) :
        /\ f \in Started /\ loads[f].st = "waiting" /\ loads[f].via = e
        /\ loads'[f] \in Load
        /\ loads'[f].st = "reading" /\ loads'[f].null = loads[f].null
        /\ loads'[f].key = loads[f].key /\ loads'[f].start = loads[f].start
        /\ loads'[f].via = loads[f].via /\ loads'[f].readAt = loads[f].readAt
  <2> SUFFICES ASSUME NEW f \in WaitFor(e)
               PROVE  /\ f \in Started /\ loads[f].st = "waiting" /\ loads[f].via = e
                      /\ loads'[f] \in Load
                      /\ loads'[f].st = "reading" /\ loads'[f].null = loads[f].null
                      /\ loads'[f].key = loads[f].key /\ loads'[f].start = loads[f].start
                      /\ loads'[f].via = loads[f].via /\ loads'[f].readAt = loads[f].readAt
    OBVIOUS
  <2>1. f \in Started /\ loads[f].st = "waiting" /\ loads[f].via = e /\ f # e
    BY <1>3 DEF WaitFor
  <2>2. loads'[f] = [loads[f] EXCEPT !.st = "reading"]
    BY <1>1, <2>1
  <2> QED
    BY <1>2, <2>1, <2>2 DEF Load
<1>6. \A f \in Started : f # e /\ f \notin WaitFor(e) => loads'[f] = loads[f]
  BY <1>1
<1>7. Moves
  <2>1. loads' \in [Started -> Load]
    <3>1. \A f \in Started : loads'[f] \in Load
      BY <1>2, <1>4, <1>5, <1>6
    <3>2. loads' = [f \in Started |-> loads'[f]]
      BY <1>1
    <3> QED
      BY <3>1, <3>2
  <2>2. Pending(e) /\ \A f \in WaitFor(e) : Pending(f)
    BY <1>5 DEF Pending
  <2> QED
    BY <1>1, <1>4, <1>5, <1>6, <2>1, <2>2 DEF Moves
<1>8. Started' = Started /\ StartsOrdered' /\ OneAtATime'
  BY <1>7, MovesKeep
<1>9. NoFailureStored' /\ StoredLast'
  <2>1. \A f \in Started : loads'[f].st = "failed" => loads[f].st = "failed"
    BY <1>4, <1>5, <1>6
  <2> QED
    BY <1>1, <1>7, <2>1, StoreKept
<1>10. ReadsInTime'
  <2> SUFFICES ASSUME NEW f \in Started
               PROVE  /\ loads'[f].st \in {"read", "failed", "ok"}
                         => loads'[f].start <= loads'[f].readAt /\ loads'[f].readAt <= now
                      /\ loads'[f].null => loads'[f].st = "ok" /\ loads'[f].key \in Swallow
    BY <1>1, <1>8 DEF ReadsInTime, Key
  <2>1. /\ loads[f].st \in {"read", "failed", "ok"}
           => loads[f].start <= loads[f].readAt /\ loads[f].readAt <= now
        /\ loads[f].null => loads[f].st = "ok" /\ loads[f].key \in Swallow
    BY DEF IInv, ReadsInTime, Key
  <2>2. CASE f = e
    <3>1. loads[e].start <= now /\ now \in Nat
      BY TypeFacts DEF IInv, StartsOrdered
    <3> QED
      BY <1>4, <2>1, <2>2, <3>1 DEF Key
  <2>3. CASE f \in WaitFor(e)
    BY <1>5, <2>1, <2>3
  <2>4. CASE f # e /\ f \notin WaitFor(e)
    BY <1>6, <2>1, <2>4
  <2> QED
    BY <2>2, <2>3, <2>4
<1>11. ViaSound'
  <2> SUFFICES ASSUME NEW f \in Started, NEW via, via = loads'[f].via
               PROVE  /\ via = NoLoad <=> Needs[loads'[f].key] = NoKey
                      /\ loads'[f].st = "waiting" => via # NoLoad
                      /\ via # NoLoad =>
                           /\ via \in Started /\ loads'[via].key = Needs[loads'[f].key]
                           /\ Joined(via, loads[f].start)'
                           /\ loads'[f].st = "waiting" => loads'[via].st \in {"reading", "read"}
                           /\ loads'[f].st \notin {"waiting", "failed"} => loads'[via].st = "ok"
    BY <1>8 DEF ViaSound, Key
  <2>1. /\ via = loads[f].via /\ loads'[f].key = loads[f].key
        /\ loads'[f].start = loads[f].start
    BY <1>7 DEF Moves
  <2>2. /\ via = NoLoad <=> Needs[loads[f].key] = NoKey
        /\ loads[f].st = "waiting" => via # NoLoad
        /\ via # NoLoad =>
             /\ via \in Started /\ loads[via].key = Needs[loads[f].key]
             /\ Joined(via, loads[f].start)
             /\ loads[f].st = "waiting" => loads[via].st \in {"reading", "read"}
             /\ loads[f].st \notin {"waiting", "failed"} => loads[via].st = "ok"
    BY <2>1 DEF IInv, ViaSound, Key
  <2>3. via # NoLoad => /\ loads'[via].key = loads[via].key
                        /\ loads'[via].start = loads[via].start
    BY <1>7, <2>2 DEF Moves
  <2>4. ASSUME via # NoLoad, loads'[f].st = "waiting"
        PROVE  loads'[via].st \in {"reading", "read"}
    <3>1. loads[f].st = "waiting" /\ f \notin WaitFor(e)
      BY <1>4, <1>5, <1>6, <2>4
    <3>2. via # e /\ loads[via].st # "waiting"
      BY <2>1, <2>2, <2>4, <3>1 DEF WaitFor
    <3> QED
      BY <1>5, <1>6, <2>2, <2>4, <3>1, <3>2
  <2>5. ASSUME via # NoLoad, loads'[f].st \notin {"waiting", "failed"}
        PROVE  loads'[via].st = "ok"
    <3>1. CASE f \in WaitFor(e)
      BY <1>4, <1>5, <2>1, <3>1
    <3>2. CASE f \notin WaitFor(e)
      <4>1. loads[f].st \notin {"waiting", "failed"}
        BY <1>6, <2>5, <3>2
      <4>2. loads[via].st = "ok"
        BY <2>2, <2>5, <4>1
      <4> QED
        BY <1>5, <1>6, <2>2, <2>5, <4>2
    <3> QED
      BY <3>1, <3>2
  <2>6. via # NoLoad => Joined(via, loads[f].start)'
    BY <2>1, <2>2, <2>3 DEF Joined
  <2>7. loads'[f].st = "waiting" => loads[f].st = "waiting"
    BY <1>4, <1>5, <1>6
  <2> QED
    BY <2>1, <2>2, <2>3, <2>4, <2>5, <2>6, <2>7
<1>12. callers' \in [Callers -> Caller] /\ CallersSound'
  <2>1. \A f \in Started :
          /\ f # e /\ Pending(f) => Pending(f)'
          /\ loads[f].st = "ok" => loads'[f].st = "ok"
          /\ loads'[f].start = loads[f].start
    BY <1>4, <1>5, <1>6, <1>7 DEF Pending, Moves
  <2>2. /\ callers' \in [Callers -> Caller]
        /\ \A c \in Callers :
             /\ callers'[c].load = callers[c].load /\ callers'[c].at = callers[c].at
             /\ \/ callers[c].st = "waiting" /\ callers[c].load \in {e}
                   /\ callers'[c].st = "ok"
                \/ ~(callers[c].st = "waiting" /\ callers[c].load \in {e})
                   /\ callers'[c].st = callers[c].st
    BY <1>1, SettleFacts
  <2>3. ASSUME NEW c \in Callers, NEW f, f = callers'[c].load
        PROVE  /\ callers'[c].st \in {"waiting", "ok"} =>
                    f \in Started' /\ Joined(f, callers[c].at)'
               /\ callers'[c].st = "waiting" => Pending(f)'
               /\ callers'[c].st = "ok" => loads'[f].st = "ok"
    <3>1. /\ callers[c].st \in {"waiting", "ok"} =>
               f \in Started /\ Joined(f, callers[c].at)
          /\ callers[c].st = "waiting" => Pending(f)
          /\ callers[c].st = "ok" => loads[f].st = "ok"
      BY <2>2, <2>3 DEF IInv, CallersSound
    <3>2. f = callers[c].load
      BY <2>2, <2>3
    <3> QED
      BY <1>4, <1>8, <2>1, <2>2, <3>1, <3>2 DEF Joined
  <2> QED
    BY <2>2, <2>3 DEF CallersSound
<1>13. TypeOK'
  BY <1>1, <1>7, <1>8, <1>12 DEF IInv, TypeOK, Moves
<1> QED
  BY <1>1, <1>7, <1>8, <1>9, <1>10, <1>11, <1>12, <1>13 DEF IInv

\* A load returns a value.
LEMMA ReturnStep ==
    ASSUME IInv, NEW e \in Started, Return(e)
    PROVE  IInv' /\ Moves /\ store' = store
  BY SucceedStep DEF Return

\* A read that fails where the loader swallows it: the load returns null.
LEMMA ReturnNullStep ==
    ASSUME IInv, NEW e \in Started, ReturnNull(e)
    PROVE  IInv' /\ Moves /\ store' = store
  BY SucceedStep DEF ReturnNull, Key

\* The loads that fail with e, and what is left of the others.
LEMMA ThrownFacts ==
    ASSUME IInv, NEW e \in Started, Throw(e)
    PROVE  /\ e \in Thrown(e) /\ Thrown(e) \subseteq Started
           /\ \A f \in Thrown(e) :
                /\ Pending(f) /\ loads'[f] \in Load
                /\ loads'[f].st = "failed" /\ loads'[f].readAt = now
                /\ loads'[f].null = loads[f].null /\ loads'[f].key = loads[f].key
                /\ loads'[f].start = loads[f].start /\ loads'[f].via = loads[f].via
           /\ \A f \in Started \ Thrown(e) : loads'[f] = loads[f]
           /\ Moves
<1>1. /\ loads' = [f \in Started |-> IF f \in Thrown(e)
                     THEN [loads[f] EXCEPT !.st = "failed", !.readAt = now]
                     ELSE loads[f]]
      /\ loads[e].st \in {"reading", "read"} /\ now' = now /\ used' = used
  BY DEF Throw, Throws, Fails
<1>2. /\ e \in Thrown(e) /\ Thrown(e) \subseteq Started
      /\ \A f \in Thrown(e) : Pending(f)
  BY <1>1 DEF Thrown, WaitFor, Pending
<1>3. now \in Nat /\ \A f \in Started : loads[f] \in Load
  BY TypeFacts DEF IInv
<1>4. ASSUME NEW f \in Thrown(e)
      PROVE  /\ loads'[f] \in Load
             /\ loads'[f].st = "failed" /\ loads'[f].readAt = now
             /\ loads'[f].null = loads[f].null /\ loads'[f].key = loads[f].key
             /\ loads'[f].start = loads[f].start /\ loads'[f].via = loads[f].via
  <2>1. loads'[f] = [loads[f] EXCEPT !.st = "failed", !.readAt = now]
    BY <1>1, <1>2
  <2>2. loads[f] \in Load
    BY <1>2, <1>3
  <2> QED
    BY <1>3, <2>1, <2>2 DEF Load
<1>5. \A f \in Started \ Thrown(e) : loads'[f] = loads[f]
  BY <1>1
<1>6. Moves
  <2>1. loads' \in [Started -> Load]
    <3>1. \A f \in Started : loads'[f] \in Load
      BY <1>3, <1>4, <1>5
    <3>2. loads' = [f \in Started |-> loads'[f]]
      BY <1>1
    <3> QED
      BY <3>1, <3>2
  <2> QED
    BY <1>1, <1>2, <1>4, <1>5, <2>1 DEF Moves
<1> QED
  BY <1>2, <1>4, <1>5, <1>6

\* A load throws: what awaits it fails with it, and their entries go.
LEMMA ThrowStep ==
    ASSUME IInv, NEW e \in Started, Throw(e)
    PROVE  IInv'
<1> DEFINE S == Thrown(e)
<1>1. /\ store' = [k \in Keys |-> IF \E f \in S : loads[f].key = k
                                  THEN NoLoad ELSE store[k]]
      /\ Settle(S, "failed") /\ now' = now /\ used' = used
  BY DEF Throw, Delete
<1>2. /\ e \in S /\ S \subseteq Started
      /\ \A f \in S :
           /\ Pending(f)
           /\ loads'[f].st = "failed" /\ loads'[f].readAt = now
           /\ loads'[f].null = loads[f].null /\ loads'[f].key = loads[f].key
           /\ loads'[f].start = loads[f].start
      /\ \A f \in Started \ S : loads'[f] = loads[f]
      /\ Moves
  BY ThrownFacts
<1>3. \A f \in Started : loads[f].st = "waiting" /\ loads[f].via = e => f \in S
  BY DEF Thrown, WaitFor
<1>4. \A f \in S : f = e \/ loads[f].st = "waiting"
  BY DEF Thrown, WaitFor
<1>5. loads[e].st \in {"reading", "read"}
  BY DEF Throw, Throws
<1> HIDE DEF S
<1>6. Started' = Started /\ StartsOrdered' /\ OneAtATime'
  BY <1>2, MovesKeep
<1>7. /\ \A f \in Started : loads'[f].key = loads[f].key
                            /\ loads'[f].start = loads[f].start
                            /\ loads'[f].via = loads[f].via
  BY <1>2 DEF Moves
<1>8. \A k \in Keys : store[k] \in Started \union {NoLoad}
  BY TypeFacts DEF IInv
<1>9. NoFailureStored'
  <2> SUFFICES ASSUME NEW k \in Keys, store'[k] # NoLoad
               PROVE  loads'[store'[k]].st # "failed" /\ loads'[store'[k]].key = k
    BY DEF NoFailureStored
  <2>1. store'[k] = store[k] /\ \A f \in S : loads[f].key # k
    BY <1>1
  <2>2. store[k] \in Started /\ loads[store[k]].st # "failed" /\ loads[store[k]].key = k
    BY <1>8, <2>1 DEF IInv, NoFailureStored
  <2> QED
    BY <1>2, <2>1, <2>2
<1>10. StoredLast'
  <2> SUFFICES ASSUME NEW k \in Keys
               PROVE  /\ store'[k] # NoLoad =>
                           \A g \in Started : loads[g].key = k => g <= store'[k]
                      /\ store'[k] = NoLoad =>
                           \A g \in Started : loads[g].key = k /\ Pending(g)' =>
                             now >= loads[g].start + TTL \/ DroppedUnder(g)'
    BY <1>1, <1>6, <1>7 DEF StoredLast, Key
  <2>1. store[k] # NoLoad => \A g \in Started : loads[g].key = k => g <= store[k]
    BY DEF IInv, StoredLast, Key
  <2>2. CASE \E f \in S : loads[f].key = k
    <3>1. PICK f \in S : loads[f].key = k
      BY <2>2
    <3>2. store'[k] = NoLoad
      BY <1>1, <3>1
    <3>3. ASSUME NEW g \in Started, loads[g].key = k, Pending(g)'
          PROVE  now >= loads[g].start + TTL \/ DroppedUnder(g)'
      <4>1. f \in Started /\ f # g /\ f \in Nat /\ g \in Nat
        BY <1>2, <3>1, <3>3, TypeFacts DEF IInv, Pending
      <4>2. Pending(g) /\ (DroppedUnder(g) => DroppedUnder(g)')
        BY <1>2, <3>3, MovesKeep
      <4>3. CASE f < g
        <5>1. loads[g].start <= now
          BY DEF IInv, StartsOrdered
        <5>2. now \in Nat /\ loads[g].start \in Nat
          BY TypeFacts DEF IInv
        <5>3. loads'[f].st = "failed" /\ loads'[f].readAt >= loads'[g].start
          BY <1>2, <1>7, <3>1, <5>1, <5>2
        <5> QED
          BY <1>6, <1>7, <3>1, <3>3, <4>1, <4>3, <5>3 DEF DroppedUnder, Key
      <4>4. CASE g < f
        <5>1. loads[f].start >= loads[g].start + TTL \/ DroppedUnder(g)
          BY <3>1, <3>3, <4>1, <4>2, <4>4 DEF IInv, OneAtATime, Key
        <5>2. loads[f].start <= now
          BY <4>1 DEF IInv, StartsOrdered
        <5>3. /\ now \in Nat /\ loads[g].start \in Nat
              /\ loads[f].start \in Nat /\ TTL \in Nat
          BY <4>1, TypeFacts, Bounds DEF IInv
        <5> QED
          BY <4>2, <5>1, <5>2, <5>3
      <4> QED
        BY <4>1, <4>3, <4>4
    <3> QED
      BY <3>2, <3>3
  <2>3. CASE ~ \E f \in S : loads[f].key = k
    <3>1. store'[k] = store[k]
      BY <1>1, <2>3
    <3>2. store[k] = NoLoad =>
            \A g \in Started : loads[g].key = k /\ Pending(g) =>
              now >= loads[g].start + TTL \/ DroppedUnder(g)
      BY DEF IInv, StoredLast, Key
    <3>3. \A g \in Started : /\ Pending(g)' => Pending(g)
                             /\ DroppedUnder(g) => DroppedUnder(g)'
      BY <1>2, MovesKeep
    <3> QED
      BY <2>1, <3>1, <3>2, <3>3
  <2> QED
    BY <2>2, <2>3
<1>11. ReadsInTime'
  <2> SUFFICES ASSUME NEW f \in Started
               PROVE  /\ loads'[f].st \in {"read", "failed", "ok"}
                         => loads'[f].start <= loads'[f].readAt /\ loads'[f].readAt <= now
                      /\ loads'[f].null => loads'[f].st = "ok" /\ loads'[f].key \in Swallow
    BY <1>1, <1>6 DEF ReadsInTime, Key
  <2>1. /\ loads[f].st \in {"read", "failed", "ok"}
           => loads[f].start <= loads[f].readAt /\ loads[f].readAt <= now
        /\ loads[f].null => loads[f].st = "ok" /\ loads[f].key \in Swallow
    BY DEF IInv, ReadsInTime, Key
  <2>2. CASE f \in S
    <3>1. ~loads'[f].null
      BY <1>2, <2>1, <2>2 DEF Pending
    <3>2. loads'[f].readAt = now /\ loads'[f].start <= now
      BY <1>2, <2>2 DEF IInv, StartsOrdered
    <3>3. now \in Nat
      BY TypeFacts DEF IInv
    <3> QED
      BY <3>1, <3>2, <3>3
  <2>3. CASE f \notin S
    BY <1>2, <2>1, <2>3
  <2> QED
    BY <2>2, <2>3
<1>12. ViaSound'
  <2> SUFFICES ASSUME NEW f \in Started, NEW via, via = loads'[f].via
               PROVE  /\ via = NoLoad <=> Needs[loads'[f].key] = NoKey
                      /\ loads'[f].st = "waiting" => via # NoLoad
                      /\ via # NoLoad =>
                           /\ via \in Started /\ loads'[via].key = Needs[loads'[f].key]
                           /\ Joined(via, loads[f].start)'
                           /\ loads'[f].st = "waiting" => loads'[via].st \in {"reading", "read"}
                           /\ loads'[f].st \notin {"waiting", "failed"} => loads'[via].st = "ok"
    BY <1>6 DEF ViaSound, Key
  <2>1. /\ via = loads[f].via /\ loads'[f].key = loads[f].key
        /\ loads'[f].start = loads[f].start
    BY <1>7
  <2>2. /\ via = NoLoad <=> Needs[loads[f].key] = NoKey
        /\ loads[f].st = "waiting" => via # NoLoad
        /\ via # NoLoad =>
             /\ via \in Started /\ loads[via].key = Needs[loads[f].key]
             /\ Joined(via, loads[f].start)
             /\ loads[f].st = "waiting" => loads[via].st \in {"reading", "read"}
             /\ loads[f].st \notin {"waiting", "failed"} => loads[via].st = "ok"
    BY <2>1 DEF IInv, ViaSound, Key
  <2>3. via # NoLoad => /\ loads'[via].key = loads[via].key
                        /\ loads'[via].start = loads[via].start
    BY <1>7, <2>2
  <2>4. loads'[f].st # "failed" => f \notin S /\ loads'[f] = loads[f]
    BY <1>2
  <2>5. loads'[f].st = "waiting" => loads'[via].st \in {"reading", "read"}
    BY <1>2, <1>3, <1>4, <2>1, <2>2, <2>4
  <2>6. via # NoLoad /\ loads'[f].st \notin {"waiting", "failed"} => loads'[via].st = "ok"
    BY <1>2, <1>4, <1>5, <2>2, <2>4
  <2>7. via # NoLoad => Joined(via, loads[f].start)'
    BY <2>1, <2>2, <2>3 DEF Joined
  <2> QED
    BY <2>1, <2>2, <2>3, <2>4, <2>5, <2>6, <2>7
<1>13. callers' \in [Callers -> Caller] /\ CallersSound'
  <2>1. /\ callers' \in [Callers -> Caller]
        /\ \A c \in Callers :
             /\ callers'[c].load = callers[c].load /\ callers'[c].at = callers[c].at
             /\ \/ callers[c].st = "waiting" /\ callers[c].load \in S
                   /\ callers'[c].st = "failed"
                \/ ~(callers[c].st = "waiting" /\ callers[c].load \in S)
                   /\ callers'[c].st = callers[c].st
    BY <1>1, SettleFacts
  <2>2. ASSUME NEW c \in Callers, NEW f, f = callers'[c].load
        PROVE  /\ callers'[c].st \in {"waiting", "ok"} =>
                    f \in Started' /\ Joined(f, callers[c].at)'
               /\ callers'[c].st = "waiting" => Pending(f)'
               /\ callers'[c].st = "ok" => loads'[f].st = "ok"
    <3>1. /\ callers[c].st \in {"waiting", "ok"} =>
               f \in Started /\ Joined(f, callers[c].at)
          /\ callers[c].st = "waiting" => Pending(f)
          /\ callers[c].st = "ok" => loads[f].st = "ok"
      BY <2>1, <2>2 DEF IInv, CallersSound
    <3>2. f = callers[c].load
      BY <2>1, <2>2
    <3>3. \A g \in Started : /\ g \notin S /\ Pending(g) => Pending(g)'
                             /\ loads[g].st = "ok" => loads'[g].st = "ok"
      BY <1>2 DEF Pending
    <3> QED
      BY <1>6, <1>7, <2>1, <3>1, <3>2, <3>3 DEF Joined
  <2> QED
    BY <2>1, <2>2 DEF CallersSound
<1>14. TypeOK'
  <2>1. store' \in [Keys -> Started \union {NoLoad}]
    BY <1>1, <1>8
  <2> QED
    BY <1>1, <1>2, <1>6, <1>13, <2>1 DEF IInv, TypeOK, Moves
<1> QED
  BY <1>6, <1>9, <1>10, <1>11, <1>12, <1>13, <1>14 DEF IInv

----------------------------------------------------------------------------
(* The invariant.                                                          *)

\* Time passes: the clock runs over no read that is under way too long.
LEMMA ClockStep == IInv /\ Clock => IInv'
<1> SUFFICES ASSUME IInv, Clock PROVE IInv'
  OBVIOUS
<1>1. /\ now' = now + 1 /\ now \in Nat /\ Started' = Started
      /\ loads' = loads /\ used' = used /\ store' = store /\ callers' = callers
  BY TypeFacts DEF IInv, Clock, Started
<1>2. TTL \in Nat /\ \A e \in Started : loads[e].start \in Nat /\ loads[e].readAt \in Nat
  BY TypeFacts, Bounds DEF IInv
<1>3. TypeOK'
  BY <1>1 DEF IInv, TypeOK
<1>4. StartsOrdered' /\ ReadsInTime'
  BY <1>1, <1>2 DEF IInv, StartsOrdered, ReadsInTime, Key
<1>5. ViaSound' /\ CallersSound' /\ NoFailureStored' /\ OneAtATime'
  BY <1>1 DEF IInv, ViaSound, CallersSound, NoFailureStored, OneAtATime,
     DroppedUnder, Pending, Key, Joined
<1>6. StoredLast'
  <2>1. \A e \in Started : /\ Pending(e)' <=> Pending(e)
                           /\ DroppedUnder(e)' <=> DroppedUnder(e)
    BY <1>1 DEF Pending, DroppedUnder, Key
  <2> QED
    BY <1>1, <1>2, <2>1 DEF IInv, StoredLast, Key
<1> QED
  BY <1>3, <1>4, <1>5, <1>6 DEF IInv

\* Every step keeps the invariant.
LEMMA NextIInv == IInv /\ [Next]_vars => IInv'
<1> SUFFICES ASSUME IInv, [Next]_vars PROVE IInv'
  OBVIOUS
<1>1. CASE Call
  <2>1. PICK c \in Callers, k \in Keys :
          CallHit(c, k) \/ CallMiss(c, k) \/ CallMissOverHit(c, k) \/ CallMissOverMiss(c, k)
    BY <1>1 DEF Call
  <2> QED
    BY <2>1, CallHitStep, CallMissStep, CallMissOverHitStep, CallMissOverMissStep
<1>2. CASE \E e \in Started : Progress(e)
  <2>1. PICK e \in Started : Read(e) \/ Return(e) \/ ReturnNull(e) \/ Throw(e)
    BY <1>2 DEF Progress
  <2> QED
    BY <2>1, ReadStep, ReturnStep, ReturnNullStep, ThrowStep
<1>3. CASE Clock
  BY <1>3, ClockStep
<1>4. CASE UNCHANGED vars
  BY <1>4 DEF vars, IInv, TypeOK, StartsOrdered, ReadsInTime, ViaSound, CallersSound,
     NoFailureStored, StoredLast, OneAtATime, DroppedUnder, Pending, Key, Joined, Started
<1> QED
  BY <1>1, <1>2, <1>3, <1>4 DEF Next

\* The invariant of every reachable state.
THEOREM Invariance == Spec => []IInv
<1>1. Init => IInv
  BY InitIInv
<1>2. IInv /\ [Next]_vars => IInv'
  BY NextIInv
<1> QED
  BY <1>1, <1>2, PTL DEF Spec

\* Every variable keeps its type.
THEOREM TypeCorrect == Spec => []TypeOK
<1>1. IInv => TypeOK
  BY DEF IInv
<1> QED
  BY <1>1, Invariance, PTL

\* An answer was read less than TTL before the request that it answers, and
\* an address less than TTL before the load that used it: nobody is answered
\* by an entry that had expired when it asked (FreshAnswers).
THEOREM AnswersAreFresh == Spec => []FreshAnswers
<1>1. ASSUME IInv PROVE FreshAnswers
  <2>1. /\ TTL \in Nat /\ now \in Nat
        /\ \A e \in Started : loads[e].start \in Nat /\ loads[e].readAt \in Nat
    BY <1>1, TypeFacts, Bounds DEF IInv
  <2>2. ASSUME NEW e \in Started, NEW at \in Nat, Joined(e, at),
               loads[e].st = "ok"
        PROVE  FreshFor(e, at)
    <3>1. loads[e].start <= loads[e].readAt
      BY <1>1, <2>2 DEF IInv, ReadsInTime
    <3> QED
      BY <2>1, <2>2, <3>1 DEF FreshFor, Joined
  <2>3. ASSUME NEW c \in Callers, callers[c].st = "ok"
        PROVE  FreshFor(callers[c].load, callers[c].at)
    <3>1. /\ callers[c].load \in Started /\ loads[callers[c].load].st = "ok"
          /\ Joined(callers[c].load, callers[c].at)
      BY <1>1, <2>3 DEF IInv, CallersSound
    <3>2. callers[c].at \in Nat
      BY <1>1, TypeFacts DEF IInv, Caller
    <3> QED
      BY <2>2, <2>3, <3>1, <3>2
  <2>4. ASSUME NEW e \in Started, loads[e].via # NoLoad,
               loads[e].st \notin {"waiting", "failed"}
        PROVE  /\ loads[loads[e].via].key = Needs[loads[e].key]
               /\ FreshFor(loads[e].via, loads[e].start)
    <3>1. PICK via : via = loads[e].via
      OBVIOUS
    <3>2. /\ via \in Started /\ loads[via].key = Needs[Key(e)]
          /\ Joined(via, loads[e].start) /\ loads[via].st = "ok"
          /\ Needs[Key(e)] # NoKey
      BY <1>1, <2>4, <3>1 DEF IInv, ViaSound, Key
    <3> QED
      BY <2>1, <2>2, <3>1, <3>2 DEF Key
  <2> QED
    BY <2>3, <2>4 DEF FreshAnswers
<1> QED
  BY <1>1, Invariance, PTL

\* No entry answers with a failure, or with another key's load
\* (NoFailureStored).
THEOREM NoPoisonedEntry == Spec => []NoFailureStored
<1>1. IInv => NoFailureStored
  BY DEF IInv
<1> QED
  BY <1>1, Invariance, PTL

\* Two loads of a key are under way together only when the first has
\* outlived its TTL, or has lost its entry to an older one that failed
\* (SingleFlight).
THEOREM LoadsAreSingleFlight == Spec => []SingleFlight
<1>1. IInv => SingleFlight
  BY DEF IInv, OneAtATime, SingleFlight, DroppedUnder, Key
<1> QED
  BY <1>1, Invariance, PTL

\* An entry of k that answers with a value is left alone.
Kept(k) == Hit(k) /\ loads[store[k]].st = "ok" => store'[k] = store[k]

\* So does every step, unless a load of k has been overtaken.
LEMMA StepKeeps ==
    ASSUME IInv, Next, NEW k \in Keys,
           \A e \in Started : loads[e].key = k => ~Overtaken(e)
    PROVE  Kept(k)
<1> SUFFICES ASSUME Hit(k), loads[store[k]].st = "ok"
             PROVE  store'[k] = store[k]
  BY DEF Kept
<1>1. store \in [Keys -> Started \union {NoLoad}]
  BY DEF IInv, TypeOK
<1>2. CASE Call
  <2>1. PICK c \in Callers, j \in Keys :
          CallHit(c, j) \/ CallMiss(c, j) \/ CallMissOverHit(c, j) \/ CallMissOverMiss(c, j)
    BY <1>2 DEF Call
  <2>2. CASE CallHit(c, j)
    BY <2>2 DEF CallHit
  <2>3. CASE CallMiss(c, j)
    <3>1. PICK e : e = used'
      OBVIOUS
    <3>2. ~Hit(j) /\ store' = [store EXCEPT ![j] = e]
      BY <2>3, <3>1 DEF CallMiss
    <3> QED
      BY <1>1, <3>2
  <2>4. CASE CallMissOverHit(c, j)
    <3>1. PICK e : e = used'
      OBVIOUS
    <3>2. ~Hit(j) /\ store' = [store EXCEPT ![j] = e]
      BY <2>4, <3>1 DEF CallMissOverHit
    <3> QED
      BY <1>1, <3>2
  <2>5. CASE CallMissOverMiss(c, j)
    <3>1. PICK n, e : n = used + 1 /\ e = used'
      OBVIOUS
    <3>2. ~Hit(j) /\ ~Hit(Needs[j]) /\ store' = [store EXCEPT ![Needs[j]] = n, ![j] = e]
      BY <2>5, <3>1 DEF CallMissOverMiss
    <3> QED
      BY <1>1, <3>2
  <2> QED
    BY <2>1, <2>2, <2>3, <2>4, <2>5
<1>3. CASE \E e \in Started : Progress(e)
  <2>1. PICK e \in Started : Read(e) \/ Return(e) \/ ReturnNull(e) \/ Throw(e)
    BY <1>3 DEF Progress
  <2>2. CASE Read(e) \/ Return(e) \/ ReturnNull(e)
    BY <2>2 DEF Read, Return, ReturnNull, Succeed
  <2>3. CASE Throw(e)
    <3>1. ASSUME NEW f \in Thrown(e) PROVE loads[f].key # k
      <4>1. f \in Started /\ Pending(f)
        BY <2>3, ThrownFacts
      <4>2. store[k] # f
        BY <4>1 DEF Pending
      <4> QED
        BY <4>1, <4>2 DEF Overtaken
    <3> QED
      BY <2>3, <3>1 DEF Throw, Delete
  <2> QED
    BY <2>1, <2>2, <2>3
<1>4. CASE Clock
  BY <1>4 DEF Clock
<1> QED
  BY <1>2, <1>3, <1>4 DEF Next

\* What the cache keeps for TTL_SEC: only a load of the key that outlived its
\* own TTL, and throws, evicts a settled entry before it expires
\* (KeptForTTL).
THEOREM EntriesAreKept == Spec => KeptForTTL
<1>1. ASSUME IInv, Next
      PROVE  \A k \in Keys :
               /\ Hit(k) /\ loads[store[k]].st = "ok"
               /\ \A e \in Started : loads[e].key = k => ~Overtaken(e)
               => store'[k] = store[k]
  BY <1>1, StepKeeps DEF Kept
<1> QED
  BY <1>1, Invariance, PTL DEF Spec, KeptForTTL

----------------------------------------------------------------------------
(* One load per key, when no load outlives the TTL.                        *)

\* No key has two loads under way.
OnePerKey ==
    \A e, f \in Started : Pending(e) /\ Pending(f) /\ Key(e) = Key(f) => e = f

\* A load under way is within its time, and is the entry of its key.
InTime ==
    \A e \in Started : Pending(e) =>
        now <= loads[e].start + LoadTime /\ store[Key(e)] = e

\* A load that starts takes no entry from one under way, which still answers.
LEMMA StartsInTime ==
    ASSUME IInv, InTime, LoadTime < TTL, Starts
    PROVE  InTime'
<1>1. /\ Started' = Started \union New /\ Started \intersect New = {}
      /\ \A n \in New : n # NoLoad
  BY NewFacts DEF Starts
<1>2. /\ TTL \in Nat /\ LoadTime \in Nat /\ now \in Nat /\ now' = now
      /\ NoLoad \notin Started
      /\ \A e \in Started : /\ loads[e].start \in Nat /\ Key(e) \in Keys
                            /\ loads'[e] = loads[e]
  BY TypeFacts, TimeAssumption DEF IInv, Starts
<1>3. ASSUME NEW e \in Started, Pending(e)'
      PROVE  now' <= loads'[e].start + LoadTime /\ store'[Key(e)'] = e
  <2>1. Pending(e) /\ Key(e)' = Key(e)
    BY <1>2, <1>3 DEF Pending, Key
  <2>2. now <= loads[e].start + LoadTime /\ store[Key(e)] = e
    BY <2>1 DEF InTime
  <2>3. loads[e].start + TTL > now /\ e # NoLoad
    BY <1>2, <2>2
  <2>4. Hit(Key(e))
    BY <2>2, <2>3 DEF Hit, Fresh
  <2>5. store'[Key(e)] = store[Key(e)]
    BY <1>2, <2>4 DEF Starts
  <2> QED
    BY <1>2, <2>1, <2>2, <2>5
<1>4. ASSUME NEW e \in New
      PROVE  now' <= loads'[e].start + LoadTime /\ store'[Key(e)'] = e
  <2>1. loads'[e].start = now /\ loads'[e].key \in Keys
    BY <1>1 DEF Starts, Load
  <2>2. store'[loads'[e].key] \in New /\ loads'[store'[loads'[e].key]].key = loads'[e].key
    BY <2>1 DEF Starts
  <2>3. store'[loads'[e].key] = e
    BY <2>2 DEF Starts
  <2> QED
    BY <1>2, <2>1, <2>3 DEF Key
<1> QED
  BY <1>1, <1>3, <1>4 DEF InTime

\* A load that moves on or settles leaves the others under way as they are,
\* and a failure drops no entry but its own.
LEMMA MovesInTime ==
    ASSUME IInv, InTime, Moves,
           \A f \in Started : Pending(f)' => store'[Key(f)] = store[Key(f)]
    PROVE  InTime'
<1>1. /\ Started' = Started /\ now' = now
      /\ \A f \in Started : Pending(f)' => Pending(f)
  BY MovesKeep DEF Moves
<1>2. \A f \in Started : Key(f)' = Key(f) /\ loads'[f].start = loads[f].start
  BY DEF Moves, Key
<1> QED
  BY <1>1, <1>2 DEF InTime

\* Every step of loads shorter than the TTL keeps their entries.
LEMMA NextInTime ==
    ASSUME IInv, InTime, LoadTime < TTL, [Next]_vars
    PROVE  InTime'
<1>1. CASE Call
  <2>1. PICK c \in Callers, k \in Keys :
          CallHit(c, k) \/ CallMiss(c, k) \/ CallMissOverHit(c, k) \/ CallMissOverMiss(c, k)
    BY <1>1 DEF Call
  <2>2. CASE CallHit(c, k)
    BY <2>2 DEF CallHit, InTime, Pending, Key, Started
  <2>3. CASE ~CallHit(c, k)
    <3>1. Starts
      BY <2>1, <2>3, CallMissStep, CallMissOverHitStep, CallMissOverMissStep
    <3> QED
      BY <3>1, StartsInTime
  <2> QED
    BY <2>2, <2>3
<1>2. CASE \E e \in Started : Progress(e)
  <2>1. PICK e \in Started : Read(e) \/ Return(e) \/ ReturnNull(e) \/ Throw(e)
    BY <1>2 DEF Progress
  <2>2. CASE Read(e) \/ Return(e) \/ ReturnNull(e)
    <3>1. Moves /\ store' = store
      BY <2>2, ReadStep, ReturnStep, ReturnNullStep
    <3> QED
      BY <3>1, MovesInTime
  <2>3. CASE Throw(e)
    <3>1. /\ Thrown(e) \subseteq Started /\ Moves
          /\ \A f \in Thrown(e) : Pending(f) /\ loads'[f].st = "failed"
      BY <2>3, ThrownFacts
    <3>2. ASSUME NEW f \in Started, Pending(f)'
          PROVE  store'[Key(f)] = store[Key(f)]
      <4>1. Pending(f) /\ f \notin Thrown(e) /\ Key(f) \in Keys
        BY <3>1, <3>2, MovesKeep, TypeFacts DEF IInv, Pending
      <4>2. \A g \in Thrown(e) : Key(g) # Key(f)
        BY <3>1, <4>1 DEF InTime
      <4> QED
        BY <2>3, <4>1, <4>2 DEF Throw, Delete, Key
    <3> QED
      BY <3>1, <3>2, MovesInTime
  <2> QED
    BY <2>1, <2>2, <2>3
<1>3. CASE Clock
  <2>1. /\ now' = now + 1 /\ Started' = Started /\ loads' = loads /\ store' = store
        /\ \A e \in Started : Pending(e) => now - loads[e].start < LoadTime
    BY <1>3 DEF Clock, Started
  <2>2. /\ now \in Nat /\ LoadTime \in Nat
        /\ \A e \in Started : loads[e].start \in Nat
    BY TypeFacts, TimeAssumption DEF IInv
  <2> QED
    BY <2>1, <2>2 DEF InTime, Pending, Key
<1>4. CASE UNCHANGED vars
  BY <1>4 DEF vars, InTime, Pending, Key, Started
<1> QED
  BY <1>1, <1>2, <1>3, <1>4 DEF Next

\* The cache is "single-flight" without exception (index.ts:231) as long as a
\* load takes less than CHAIN_READ_TTL_SEC: two requests for a key never have
\* two reads under way.
THEOREM OneLoadPerKey ==
    ASSUME LoadTime < TTL
    PROVE  Spec => []OnePerKey
<1>1. Init => InTime
  BY DEF Init, InTime, Started
<1>2. IInv /\ InTime /\ [Next]_vars => InTime'
  BY NextInTime
<1>3. InTime => OnePerKey
  BY DEF InTime, OnePerKey
<1> QED
  BY <1>1, <1>2, <1>3, Invariance, PTL DEF Spec

\* Values are memoized for the TTL (env.ts:37-39), without exception then: an
\* entry that answers with a value stays until it expires.
THEOREM EntriesOutliveLoads ==
    ASSUME LoadTime < TTL
    PROVE  Spec => [][\A k \in Keys : Kept(k)]_vars
<1>1. Init => InTime
  BY DEF Init, InTime, Started
<1>2. IInv /\ InTime /\ [Next]_vars => InTime'
  BY NextInTime
<1>3. ASSUME IInv, InTime, Next PROVE \A k \in Keys : Kept(k)
  <2>1. \A e \in Started : ~Overtaken(e)
    BY <1>3 DEF InTime, Overtaken, Key
  <2> QED
    BY <1>3, <2>1, StepKeeps
<1> QED
  BY <1>1, <1>2, <1>3, Invariance, PTL DEF Spec
=============================================================================
