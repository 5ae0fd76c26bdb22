------------------------------ MODULE PoolWalk ------------------------------
(***************************************************************************)
(* The walk through the BondingManager's transcoder pool                   *)
(* (src/providers/chain/viem.ts, bondingManagerListPool).                  *)
(*                                                                         *)
(* The pool is a linked list on the chain.  The walk asks for its first    *)
(* member and then, member by member, for its stake and for the one after  *)
(* it: each answer is true of the chain at the moment it is given, and the *)
(* pool may change between any two of them.  A transcoder that has left    *)
(* the pool has no next one, which ends a walk that stands on it.          *)
(***************************************************************************)
EXTENDS Naturals, Sequences, SequencesExt

CONSTANTS
    Orchs,     \* transcoders
    Zero,      \* the zero address
    Stakes,    \* amounts delegated to a transcoder
    WalkLimit  \* POOL_WALK_SAFETY_LIMIT

ASSUME WalkAssumption == Zero \notin Orchs /\ Stakes # {} /\ WalkLimit \in Nat

VARIABLES
    pool,     \* the members with their stakes, in the order of the list
    walk,     \* the last walk: where it stands and what it has collected
    touched,  \* history: transcoders whose place or stake changed since it
              \* began (not kept of a walk that failed)
    torn      \* history: the one the walk stood on left or moved

walkVars == <<walk, touched, torn>>

Entry == [orch : Orchs, stake : Stakes]
Steps == {"first", "stake", "next"}
Walk  == [st : Steps \union {"idle", "done", "failed"}, at : Orchs \union {Zero},
          out : Seq(Entry)]

Calm(st) == [st |-> st, at |-> Zero, out |-> <<>>]

WalkTypeOK ==
    /\ pool \in Seq(Entry)
    /\ \A i, j \in DOMAIN pool : pool[i].orch = pool[j].orch => i = j
    /\ walk \in Walk /\ Len(walk.out) <= WalkLimit
    /\ touched \subseteq Orchs /\ torn \in BOOLEAN

WalkInit ==
    /\ pool = <<>>
    /\ walk = Calm("idle")
    /\ touched = {} /\ torn = FALSE

Walking == walk.st \in Steps
----------------------------------------------------------------------------
(* The chain.                                                              *)

Members    == {e.orch : e \in Range(pool)}
Without(o) == IF o \in Members
              THEN RemoveAt(pool, CHOOSE i \in DOMAIN pool : pool[i].orch = o)
              ELSE pool
Of(o)      == {e \in Range(pool) : e.orch = o}

First    == IF pool = <<>> THEN Zero ELSE Head(pool).orch
After(o) == LET next == {i \in DOMAIN pool : i > 1 /\ pool[i - 1].orch = o} IN
            IF next = {} THEN Zero ELSE pool[CHOOSE i \in next : TRUE].orch

StaysPut == [i \in DOMAIN pool |-> pool[i].orch] = [i \in DOMAIN pool' |-> pool'[i].orch]

Touch(o) ==
    /\ touched' = IF walk.st \in {"idle", "failed"} THEN {} ELSE touched \union {o}
    /\ torn' = (torn \/ (walk.at = o /\ ~StaysPut))
    /\ UNCHANGED walk

Leave(o) ==
    /\ o \in Members
    /\ pool' = Without(o)
    /\ Touch(o)

\* A transcoder joins, or its stake changes and with it its place.
Place(o, i, s) ==
    /\ i \in 1 .. Len(Without(o)) + 1
    /\ pool' = InsertAt(Without(o), i, [orch |-> o, stake |-> s])
    /\ pool' # pool
    /\ Touch(o)

Chain == \E o \in Orchs :
           \/ Leave(o)
           \/ \E i \in 1 .. Len(pool) + 1, s \in Stakes : Place(o, i, s)
----------------------------------------------------------------------------
(* The walk.                                                               *)

Fail == walk' = Calm("failed") /\ touched' = {} /\ torn' = FALSE

StartWalk == walk' = Calm("first") /\ touched' = {} /\ torn' = FALSE

\* Mutant: one member past the limit.
GoTo_OneMore(o) ==
    /\ walk' = IF o = Zero THEN [walk EXCEPT !.st = "done", !.at = Zero]
               ELSE IF Len(walk.out) > WalkLimit THEN Calm("failed")
               ELSE [walk EXCEPT !.st = "stake", !.at = o]
    /\ UNCHANGED <<touched, torn>>
\* The loop's condition and its limit, before the next member's stake.
GoTo(o) ==
    \/ /\ o = Zero
       /\ walk' = [walk EXCEPT !.st = "done", !.at = Zero]
       /\ UNCHANGED <<touched, torn>>
    \/ /\ o # Zero /\ Len(walk.out) < WalkLimit
       /\ walk' = [walk EXCEPT !.st = "stake", !.at = o]
       /\ UNCHANGED <<touched, torn>>
    \/ o # Zero /\ Len(walk.out) >= WalkLimit /\ Fail

GetFirst ==
    /\ walk.st = "first" /\ GoTo(First)
    /\ UNCHANGED pool

\* One that has left has some amount, too.
GetStake ==
    /\ walk.st = "stake"
    /\ \E e \in IF walk.at \in Members THEN Of(walk.at)
               ELSE [orch : {walk.at}, stake : Stakes] :
          walk' = [walk EXCEPT !.st = "next", !.out = Append(@, e)]
    /\ UNCHANGED <<pool, touched, torn>>

\* Mutant: the member after the next one.
GetNext_Skipping ==
    /\ walk.st = "next" /\ GoTo(After(After(walk.at)))
    /\ UNCHANGED pool
GetNext ==
    /\ walk.st = "next" /\ GoTo(After(walk.at))
    /\ UNCHANGED pool

ReadFails == Walking /\ Fail /\ UNCHANGED pool

WalkStep == GetFirst \/ GetStake \/ GetNext \/ ReadFails

\* poolEntriesToStakeMap: of two entries of an orch the last one counts.
StakeMap(out) ==
    [o \in {e.orch : e \in Range(out)} |->
       out[SelectLastInSeq(out, LAMBDA e : e.orch = o)].stake]
----------------------------------------------------------------------------
\* A finished walk over a pool that has not changed since it began is the
\* pool, in its order and with its stakes (viem.ts:189-234).  Over one that
\* has, it has every member that stayed where it was, once and with its
\* stake, and no transcoder that stayed outside: only a change to the very
\* member the walk stood on can hide or repeat one that did not move
\* (viem.ts:226-231: the next member is asked of it).
SteadyReported ==
    walk.st = "done" =>
      /\ touched = {} => walk.out = pool
      /\ ~torn => \A o \in Orchs \ touched :
           LET found == {i \in DOMAIN walk.out : walk.out[i].orch = o} IN
           /\ {walk.out[i] : i \in found} = Of(o)
           /\ \A i, j \in found : i = j
============================================================================
