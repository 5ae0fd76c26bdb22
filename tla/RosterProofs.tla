---------------------------- MODULE RosterProofs ----------------------------
(***************************************************************************)
(* Theorems about the pool walk, the roster and the per-orch view, for any *)
(* transcoders, stakes, spellings and limits, and any changes of the pool  *)
(* during a walk.                                                          *)
(*                                                                         *)
(* The argument about the walk: a change of a transcoder keeps the others  *)
(* as they are and in the order they are in.  So the walk, as long as the  *)
(* member it stands on stays where it is, has collected of the members     *)
(* that did not change those before it, whoever joined, left or moved in   *)
(* front of it or behind it, and each of them once.                        *)
(***************************************************************************)
EXTENDS Roster, SequenceTheorems, FiniteSetTheorems, WellFoundedInduction, TLAPS

\* Distinct transcoders.
Distinct(q) == \A i, j \in 1 .. Len(q) : q[i].orch = q[j].orch => i = j

\* In q, a is b or comes before it.
Upto(q, a, b) ==
    \E i, j \in 1 .. Len(q) : i <= j /\ q[i].orch = a /\ q[j].orch = b

Has(q, e) == \E i \in 1 .. Len(q) : q[i] = e

\* But for o, q and r have the same entries in the same order.
Same(q, r, o) ==
    /\ \A a, b : a # o /\ b # o => (Upto(q, a, b) <=> Upto(r, a, b))
    /\ \A e : e.orch # o => (Has(q, e) <=> Has(r, e))

----------------------------------------------------------------------------
(* The pool and its changes.                                               *)

\* The entries of a sequence without its k-th.
LEMMA RemoveAtFacts ==
    ASSUME NEW q \in Seq(Entry), NEW k \in 1 .. Len(q)
    PROVE  /\ RemoveAt(q, k) \in Seq(Entry) /\ Len(RemoveAt(q, k)) = Len(q) - 1
           /\ \A j \in 1 .. Len(q) - 1 :
                RemoveAt(q, k)[j] = q[IF j < k THEN j ELSE j + 1]
<1> DEFINE s == SubSeq(q, 1, k - 1)
           t == SubSeq(q, k + 1, Len(q))
<1>1. Len(q) \in Nat /\ k \in Nat /\ 1 <= k /\ k <= Len(q)
  OBVIOUS
<1>2. /\ s \in Seq(Entry) /\ Len(s) = k - 1
      /\ \A j \in 1 .. k - 1 : s[j] = q[j]
  OBVIOUS
<1>3. /\ t \in Seq(Entry) /\ Len(t) = Len(q) - k
      /\ \A j \in 1 .. Len(q) - k : t[j] = q[k + j]
  OBVIOUS
<1>4. RemoveAt(q, k) = s \o t
  BY DEF RemoveAt
<1> HIDE DEF s, t
<1>5. /\ s \o t \in Seq(Entry) /\ Len(s \o t) = Len(s) + Len(t)
      /\ \A j \in 1 .. Len(s) + Len(t) :
           (s \o t)[j] = IF j <= Len(s) THEN s[j] ELSE t[j - Len(s)]
  BY <1>2, <1>3, ConcatProperties
<1>6. ASSUME NEW j \in 1 .. Len(q) - 1
      PROVE  (s \o t)[j] = q[IF j < k THEN j ELSE j + 1]
  <2>1. CASE j < k
    <3>1. j \in 1 .. k - 1 /\ j <= Len(s) /\ j \in 1 .. Len(s) + Len(t)
      BY <1>1, <1>2, <1>3, <2>1
    <3> QED
      BY <1>2, <1>5, <2>1, <3>1
  <2>2. CASE ~(j < k)
    <3>1. /\ j - Len(s) \in 1 .. Len(q) - k /\ ~(j <= Len(s))
          /\ j \in 1 .. Len(s) + Len(t) /\ k + (j - Len(s)) = j + 1
      BY <1>1, <1>2, <1>3, <2>2
    <3> QED
      BY <1>3, <1>5, <2>2, <3>1
  <2> QED
    BY <2>1, <2>2
<1> QED
  BY <1>1, <1>2, <1>3, <1>4, <1>5, <1>6

\* The entries of a sequence with e put in at k.
LEMMA InsertAtFacts ==
    ASSUME NEW q \in Seq(Entry), NEW k \in 1 .. Len(q) + 1, NEW e \in Entry
    PROVE  /\ InsertAt(q, k, e) \in Seq(Entry) /\ Len(InsertAt(q, k, e)) = Len(q) + 1
           /\ InsertAt(q, k, e)[k] = e
           /\ \A j \in 1 .. Len(q) :
                InsertAt(q, k, e)[IF j < k THEN j ELSE j + 1] = q[j]
<1> DEFINE s == SubSeq(q, 1, k - 1)
           t == SubSeq(q, k, Len(q))
           u == s \o <<e>>
<1>1. Len(q) \in Nat /\ k \in Nat /\ 1 <= k /\ k <= Len(q) + 1
  OBVIOUS
<1>2. /\ s \in Seq(Entry) /\ Len(s) = k - 1
      /\ \A j \in 1 .. k - 1 : s[j] = q[j]
  OBVIOUS
<1>3. /\ t \in Seq(Entry) /\ Len(t) = Len(q) + 1 - k
      /\ \A j \in 1 .. Len(q) + 1 - k : t[j] = q[(k - 1) + j]
  OBVIOUS
<1>4. <<e>> \in Seq(Entry) /\ Len(<<e>>) = 1 /\ <<e>>[1] = e
  OBVIOUS
<1>5. InsertAt(q, k, e) = u \o t
  BY DEF InsertAt
<1> HIDE DEF s, t
<1>6. /\ u \in Seq(Entry) /\ Len(u) = Len(s) + 1
      /\ \A j \in 1 .. Len(s) + 1 :
           u[j] = IF j <= Len(s) THEN s[j] ELSE <<e>>[j - Len(s)]
  BY <1>2, <1>4, ConcatProperties
<1> HIDE DEF u
<1>7. /\ u \o t \in Seq(Entry) /\ Len(u \o t) = Len(u) + Len(t)
      /\ \A j \in 1 .. Len(u) + Len(t) :
           (u \o t)[j] = IF j <= Len(u) THEN u[j] ELSE t[j - Len(u)]
  BY <1>3, <1>6, ConcatProperties
<1>8. Len(u) = k /\ Len(u \o t) = Len(q) + 1
  BY <1>1, <1>2, <1>3, <1>6, <1>7
<1>9. (u \o t)[k] = e
  <2>1. u[k] = <<e>>[1]
    BY <1>1, <1>2, <1>6
  <2> QED
    BY <1>1, <1>3, <1>4, <1>7, <1>8, <2>1
<1>10. ASSUME NEW j \in 1 .. Len(q)
       PROVE  (u \o t)[IF j < k THEN j ELSE j + 1] = q[j]
  <2>1. CASE j < k
    <3>1. j \in 1 .. k - 1 /\ j <= Len(s) /\ j \in 1 .. Len(s) + 1 /\ j <= Len(u)
          /\ j \in 1 .. Len(u) + Len(t)
      BY <1>1, <1>2, <1>3, <1>8, <2>1
    <3> QED
      BY <1>2, <1>6, <1>7, <2>1, <3>1
  <2>2. CASE ~(j < k)
    <3>1. /\ (j + 1) - Len(u) \in 1 .. Len(q) + 1 - k /\ ~(j + 1 <= Len(u))
          /\ j + 1 \in 1 .. Len(u) + Len(t) /\ (k - 1) + ((j + 1) - Len(u)) = j
      BY <1>1, <1>3, <1>8, <2>2
    <3> QED
      BY <1>3, <1>7, <2>2, <3>1
  <2> QED
    BY <2>1, <2>2
<1> QED
  BY <1>5, <1>7, <1>8, <1>9, <1>10

\* o leaves: everyone else is there, in the same order.
LEMMA RemoveSame ==
    ASSUME NEW q \in Seq(Entry), Distinct(q), NEW o, NEW k \in 1 .. Len(q), q[k].orch = o
    PROVE  /\ RemoveAt(q, k) \in Seq(Entry) /\ Len(RemoveAt(q, k)) = Len(q) - 1
           /\ Distinct(RemoveAt(q, k)) /\ Same(q, RemoveAt(q, k), o)
           /\ \A i \in 1 .. Len(q) - 1 : RemoveAt(q, k)[i].orch # o
<1>1. PICK r : r = RemoveAt(q, k)
  OBVIOUS
<1>2. /\ r \in Seq(Entry) /\ Len(r) = Len(q) - 1
      /\ \A j \in 1 .. Len(q) - 1 : r[j] = q[IF j < k THEN j ELSE j + 1]
  BY <1>1, RemoveAtFacts
<1>3. Len(q) \in Nat /\ k \in Nat
  OBVIOUS
<1>4. \A j \in 1 .. Len(r) : \E i \in 1 .. Len(q) :
         i = (IF j < k THEN j ELSE j + 1) /\ i # k /\ r[j] = q[i]
  <2> SUFFICES ASSUME NEW j \in 1 .. Len(r)
               PROVE  \E i \in 1 .. Len(q) :
                        i = (IF j < k THEN j ELSE j + 1) /\ i # k /\ r[j] = q[i]
    OBVIOUS
  <2>1. PICK i : i = IF j < k THEN j ELSE j + 1
    OBVIOUS
  <2>2. i \in 1 .. Len(q) /\ i # k
    BY <1>2, <1>3, <2>1
  <2> QED
    BY <1>2, <2>1, <2>2
<1>5. \A i \in 1 .. Len(q) : i # k => \E j \in 1 .. Len(r) :
         j = (IF i < k THEN i ELSE i - 1) /\ r[j] = q[i]
  <2> SUFFICES ASSUME NEW i \in 1 .. Len(q), i # k
               PROVE  \E j \in 1 .. Len(r) : j = (IF i < k THEN i ELSE i - 1) /\ r[j] = q[i]
    OBVIOUS
  <2>1. PICK j : j = IF i < k THEN i ELSE i - 1
    OBVIOUS
  <2>2. j \in 1 .. Len(r) /\ (IF j < k THEN j ELSE j + 1) = i
    BY <1>2, <1>3, <2>1
  <2> QED
    BY <1>2, <2>1, <2>2
<1>6. Distinct(r)
  <2> SUFFICES ASSUME NEW i \in 1 .. Len(r), NEW j \in 1 .. Len(r), r[i].orch = r[j].orch
               PROVE  i = j
    BY DEF Distinct
  <2>1. PICK a \in 1 .. Len(q) : a = (IF i < k THEN i ELSE i + 1) /\ r[i] = q[a]
    BY <1>4
  <2>2. PICK b \in 1 .. Len(q) : b = (IF j < k THEN j ELSE j + 1) /\ r[j] = q[b]
    BY <1>4
  <2>3. a = b
    BY <2>1, <2>2 DEF Distinct
  <2> QED
    BY <1>3, <2>1, <2>2, <2>3
<1>7. \A i \in 1 .. Len(q) : q[i].orch # o => i # k
  OBVIOUS
<1>8. ASSUME NEW a, NEW b, a # o, b # o
      PROVE  Upto(q, a, b) <=> Upto(r, a, b)
  <2>1. ASSUME Upto(q, a, b) PROVE Upto(r, a, b)
    <3>1. PICK i, j \in 1 .. Len(q) : i <= j /\ q[i].orch = a /\ q[j].orch = b
      BY <2>1 DEF Upto
    <3>2. i # k /\ j # k
      BY <1>8, <3>1
    <3>3. PICK m \in 1 .. Len(r) : m = (IF i < k THEN i ELSE i - 1) /\ r[m] = q[i]
      BY <1>5, <3>2
    <3>4. PICK n \in 1 .. Len(r) : n = (IF j < k THEN j ELSE j - 1) /\ r[n] = q[j]
      BY <1>5, <3>2
    <3>5. m <= n
      BY <1>3, <3>1, <3>2, <3>3, <3>4
    <3> QED
      BY <3>1, <3>3, <3>4, <3>5 DEF Upto
  <2>2. ASSUME Upto(r, a, b) PROVE Upto(q, a, b)
    <3>1. PICK i, j \in 1 .. Len(r) : i <= j /\ r[i].orch = a /\ r[j].orch = b
      BY <2>2 DEF Upto
    <3>2. PICK m \in 1 .. Len(q) : m = (IF i < k THEN i ELSE i + 1) /\ r[i] = q[m]
      BY <1>4
    <3>3. PICK n \in 1 .. Len(q) : n = (IF j < k THEN j ELSE j + 1) /\ r[j] = q[n]
      BY <1>4
    <3>4. m <= n
      BY <1>3, <3>1, <3>2, <3>3
    <3> QED
      BY <3>1, <3>2, <3>3, <3>4 DEF Upto
  <2> QED
    BY <2>1, <2>2
<1>9. ASSUME NEW e, e.orch # o
      PROVE  Has(q, e) <=> Has(r, e)
  <2>1. Has(q, e) => Has(r, e)
    BY <1>5, <1>7, <1>9 DEF Has
  <2>2. Has(r, e) => Has(q, e)
    BY <1>4 DEF Has
  <2> QED
    BY <2>1, <2>2
<1>10. \A i \in 1 .. Len(q) - 1 : r[i].orch # o
  BY <1>2, <1>4 DEF Distinct
<1>11. Same(q, r, o)
  BY <1>8, <1>9 DEF Same
<1> QED
  BY <1>1, <1>2, <1>6, <1>10, <1>11

\* o comes in: everyone else is there, in the same order.
LEMMA InsertSame ==
    ASSUME NEW q \in Seq(Entry), Distinct(q), NEW k \in 1 .. Len(q) + 1, NEW e \in Entry,
           \A i \in 1 .. Len(q) : q[i].orch # e.orch
    PROVE  /\ InsertAt(q, k, e) \in Seq(Entry) /\ Distinct(InsertAt(q, k, e))
           /\ Same(q, InsertAt(q, k, e), e.orch)
<1>1. PICK r, o : r = InsertAt(q, k, e) /\ o = e.orch
  OBVIOUS
<1>2. /\ r \in Seq(Entry) /\ Len(r) = Len(q) + 1 /\ r[k] = e
      /\ \A j \in 1 .. Len(q) : r[IF j < k THEN j ELSE j + 1] = q[j]
  BY <1>1, InsertAtFacts
<1>3. Len(q) \in Nat /\ k \in Nat
  OBVIOUS
<1>4. \A j \in 1 .. Len(q) : \E i \in 1 .. Len(r) :
         i = (IF j < k THEN j ELSE j + 1) /\ i # k /\ r[i] = q[j]
  <2> SUFFICES ASSUME NEW j \in 1 .. Len(q)
               PROVE  \E i \in 1 .. Len(r) :
                        i = (IF j < k THEN j ELSE j + 1) /\ i # k /\ r[i] = q[j]
    OBVIOUS
  <2>1. PICK i : i = IF j < k THEN j ELSE j + 1
    OBVIOUS
  <2>2. i \in 1 .. Len(r) /\ i # k
    BY <1>2, <1>3, <2>1
  <2> QED
    BY <1>2, <2>1, <2>2
<1>5. \A i \in 1 .. Len(r) : i # k => \E j \in 1 .. Len(q) :
         j = (IF i < k THEN i ELSE i - 1) /\ r[i] = q[j]
  <2> SUFFICES ASSUME NEW i \in 1 .. Len(r), i # k
               PROVE  \E j \in 1 .. Len(q) : j = (IF i < k THEN i ELSE i - 1) /\ r[i] = q[j]
    OBVIOUS
  <2>1. PICK j : j = IF i < k THEN i ELSE i - 1
    OBVIOUS
  <2>2. j \in 1 .. Len(q) /\ (IF j < k THEN j ELSE j + 1) = i
    BY <1>2, <1>3, <2>1
  <2> QED
    BY <1>2, <2>1, <2>2
<1>6. \A j \in 1 .. Len(q) : q[j].orch # o
  BY <1>1
<1>7. Distinct(r)
  <2> SUFFICES ASSUME NEW i \in 1 .. Len(r), NEW j \in 1 .. Len(r), r[i].orch = r[j].orch
               PROVE  i = j
    BY DEF Distinct
  <2>1. CASE i = k
    BY <1>1, <1>2, <1>5, <1>6, <2>1
  <2>2. CASE j = k
    BY <1>1, <1>2, <1>5, <1>6, <2>2
  <2>3. CASE i # k /\ j # k
    <3>1. PICK a \in 1 .. Len(q) : a = (IF i < k THEN i ELSE i - 1) /\ r[i] = q[a]
      BY <1>5, <2>3
    <3>2. PICK b \in 1 .. Len(q) : b = (IF j < k THEN j ELSE j - 1) /\ r[j] = q[b]
      BY <1>5, <2>3
    <3>3. a = b
      BY <3>1, <3>2 DEF Distinct
    <3> QED
      BY <1>3, <2>3, <3>1, <3>2, <3>3
  <2> QED
    BY <2>1, <2>2, <2>3
<1>8. ASSUME NEW a, NEW b, a # o, b # o
      PROVE  Upto(q, a, b) <=> Upto(r, a, b)
  <2>1. ASSUME Upto(r, a, b) PROVE Upto(q, a, b)
    <3>1. PICK i, j \in 1 .. Len(r) : i <= j /\ r[i].orch = a /\ r[j].orch = b
      BY <2>1 DEF Upto
    <3>2. i # k /\ j # k
      BY <1>1, <1>2, <1>8, <3>1
    <3>3. PICK m \in 1 .. Len(q) : m = (IF i < k THEN i ELSE i - 1) /\ r[i] = q[m]
      BY <1>5, <3>2
    <3>4. PICK n \in 1 .. Len(q) : n = (IF j < k THEN j ELSE j - 1) /\ r[j] = q[n]
      BY <1>5, <3>2
    <3>5. m <= n
      BY <1>3, <3>1, <3>2, <3>3, <3>4
    <3> QED
      BY <3>1, <3>3, <3>4, <3>5 DEF Upto
  <2>2. ASSUME Upto(q, a, b) PROVE Upto(r, a, b)
    <3>1. PICK i, j \in 1 .. Len(q) : i <= j /\ q[i].orch = a /\ q[j].orch = b
      BY <2>2 DEF Upto
    <3>2. PICK m \in 1 .. Len(r) : m = (IF i < k THEN i ELSE i + 1) /\ r[m] = q[i]
      BY <1>4
    <3>3. PICK n \in 1 .. Len(r) : n = (IF j < k THEN j ELSE j + 1) /\ r[n] = q[j]
      BY <1>4
    <3>4. m <= n
      BY <1>3, <3>1, <3>2, <3>3
    <3> QED
      BY <3>1, <3>2, <3>3, <3>4 DEF Upto
  <2> QED
    BY <2>1, <2>2
<1>9. ASSUME NEW x, x.orch # o
      PROVE  Has(q, x) <=> Has(r, x)
  <2>1. Has(q, x) => Has(r, x)
    BY <1>4 DEF Has
  <2>2. Has(r, x) => Has(q, x)
    BY <1>1, <1>2, <1>5, <1>9 DEF Has
  <2> QED
    BY <2>1, <2>2
<1>10. Same(q, r, o)
  BY <1>8, <1>9 DEF Same
<1> QED
  BY <1>1, <1>2, <1>7, <1>10

----------------------------------------------------------------------------
(* The invariant.                                                          *)

\* What the walk has of o, and whether it is past it.
FoundOf(out, o)  == {i \in 1 .. Len(out) : out[i].orch = o}
Reported(out, o) == {out[i] : i \in FoundOf(out, o)}
Once(out, o)     == \A i, j \in FoundOf(out, o) : i = j
Passed(o) ==
    \/ walk.st = "stake" /\ Upto(pool, o, walk.at) /\ o # walk.at
    \/ walk.st = "next" /\ Upto(pool, o, walk.at)
    \/ walk.st = "done"

\* Of who did not change the walk has those it is past, once, as they are.
Steady ==
    ~torn => \A o \in Orchs \ touched :
      /\ Once(walk.out, o)
      /\ Passed(o) => Reported(walk.out, o) = Of(o)
      /\ ~Passed(o) => Reported(walk.out, o) = {}

\* It stands on a member.
Stands ==
    /\ walk.st \in {"stake", "next"} =>
         /\ walk.at \in Orchs
         /\ ~torn => \E i \in 1 .. Len(pool) : pool[i].orch = walk.at
    /\ walk.st \notin {"stake", "next"} => walk.at = Zero

\* If nobody changed, what it has is the pool so far.
SoFar ==
    touched = {} =>
      /\ ~torn
      /\ Len(walk.out) <= Len(pool)
      /\ \A i \in 1 .. Len(walk.out) : walk.out[i] = pool[i]
      /\ walk.st = "stake" => /\ Len(walk.out) + 1 <= Len(pool)
                              /\ pool[Len(walk.out) + 1].orch = walk.at
      /\ walk.st = "next" => /\ Len(walk.out) >= 1
                             /\ pool[Len(walk.out)].orch = walk.at
      /\ walk.st = "done" => Len(walk.out) = Len(pool)

\* Before it begins, and after a failure, it has nothing.
Empty == /\ walk.st \in {"idle", "failed", "first"} => walk.out = <<>>
         /\ walk.st \in {"idle", "failed"} => touched = {} /\ ~torn
         /\ walk.st = "stake" => Len(walk.out) < WalkLimit

WInv == WalkTypeOK /\ Steady /\ Stands /\ SoFar /\ Empty

\* The pool and the walk's result are sequences of entries.
LEMMA PoolFacts ==
    ASSUME WalkTypeOK
    PROVE  /\ pool \in Seq(Entry) /\ Distinct(pool) /\ Len(pool) \in Nat
           /\ DOMAIN pool = 1 .. Len(pool)
           /\ walk \in Walk /\ walk.out \in Seq(Entry) /\ Len(walk.out) \in Nat
           /\ DOMAIN walk.out = 1 .. Len(walk.out)
           /\ WalkLimit \in Nat /\ Zero \notin Orchs
           /\ \A i \in 1 .. Len(pool) : pool[i] \in Entry
           /\ \A i \in 1 .. Len(walk.out) : walk.out[i] \in Entry
<1>1. pool \in Seq(Entry) /\ walk \in Walk
  BY DEF WalkTypeOK
<1>2. walk.out \in Seq(Entry)
  BY <1>1 DEF Walk
<1>3. Distinct(pool)
  BY <1>1 DEF WalkTypeOK, Distinct
<1> QED
  BY <1>1, <1>2, <1>3, WalkAssumption, ElementOfSeq

\* Who is in the pool, and with what.
LEMMA MemberFacts ==
    ASSUME WalkTypeOK, NEW o
    PROVE  /\ o \in Members <=> \E i \in 1 .. Len(pool) : pool[i].orch = o
           /\ Of(o) = {e \in Entry : Has(pool, e) /\ e.orch = o}
           /\ \A i \in 1 .. Len(pool) : pool[i].orch = o => Of(o) = {pool[i]}
           /\ o \notin Members => Of(o) = {}
<1>1. /\ DOMAIN pool = 1 .. Len(pool) /\ \A i \in 1 .. Len(pool) : pool[i] \in Entry
      /\ Distinct(pool)
  BY PoolFacts
<1>2. Range(pool) = {pool[i] : i \in 1 .. Len(pool)}
  BY <1>1 DEF Range
<1>3. o \in Members <=> \E i \in 1 .. Len(pool) : pool[i].orch = o
  BY <1>2 DEF Members
<1>4. \A e : e \in Of(o) <=> Has(pool, e) /\ e.orch = o
  BY <1>2 DEF Of, Has
<1>5. \A e : Has(pool, e) => e \in Entry
  BY <1>1 DEF Has
<1>6. Of(o) = {e \in Entry : Has(pool, e) /\ e.orch = o}
  BY <1>4, <1>5
<1>7. ASSUME NEW i \in 1 .. Len(pool), pool[i].orch = o
      PROVE  Of(o) = {pool[i]}
  <2>1. pool[i] \in Of(o)
    BY <1>4, <1>7 DEF Has
  <2>2. \A e \in Of(o) : e = pool[i]
    BY <1>1, <1>4, <1>7 DEF Has, Distinct
  <2> QED
    BY <2>1, <2>2
<1>8. o \notin Members => Of(o) = {}
  BY <1>3, <1>4 DEF Has
<1> QED
  BY <1>3, <1>6, <1>7, <1>8

----------------------------------------------------------------------------
(* The chain's steps.                                                      *)

\* What a sequence has of o, as a set.
LEMMA RangeFacts ==
    ASSUME NEW q \in Seq(Entry), NEW o
    PROVE  {e \in Range(q) : e.orch = o} = {e \in Entry : Has(q, e) /\ e.orch = o}
<1>1. DOMAIN q = 1 .. Len(q) /\ \A i \in 1 .. Len(q) : q[i] \in Entry
  BY ElementOfSeq
<1>2. \A e : e \in Range(q) <=> Has(q, e)
  BY <1>1 DEF Range, Has
<1>3. \A e : Has(q, e) => e \in Entry
  BY <1>1 DEF Has
<1> QED
  BY <1>2, <1>3

\* Two changes that keep the order of all but o keep it together.
LEMMA SameTrans ==
    ASSUME NEW q, NEW r, NEW s, NEW o, Same(q, r, o), Same(r, s, o)
    PROVE  Same(q, s, o)
  BY DEF Same

\* The pool without o keeps the order of the others.
LEMMA WithoutFacts ==
    ASSUME WalkTypeOK, NEW o
    PROVE  /\ Without(o) \in Seq(Entry) /\ Distinct(Without(o))
           /\ Same(pool, Without(o), o)
           /\ \A i \in 1 .. Len(Without(o)) : Without(o)[i].orch # o
<1>1. /\ pool \in Seq(Entry) /\ Distinct(pool) /\ DOMAIN pool = 1 .. Len(pool)
  BY PoolFacts
<1>2. CASE o \in Members
  <2>1. \E i \in DOMAIN pool : pool[i].orch = o
    BY <1>1, <1>2, MemberFacts
  <2>2. PICK k : k = CHOOSE i \in DOMAIN pool : pool[i].orch = o
    OBVIOUS
  <2>3. k \in 1 .. Len(pool) /\ pool[k].orch = o
    BY <1>1, <2>1, <2>2
  <2>4. PICK r : r = RemoveAt(pool, k)
    OBVIOUS
  <2>5. /\ r \in Seq(Entry) /\ Len(r) = Len(pool) - 1
        /\ Distinct(r) /\ Same(pool, r, o)
        /\ \A i \in 1 .. Len(pool) - 1 : r[i].orch # o
    BY <1>1, <2>3, <2>4, RemoveSame
  <2>6. Without(o) = r
    BY <1>2, <2>2, <2>4 DEF Without
  <2> QED
    BY <2>5, <2>6
<1>3. CASE o \notin Members
  <2>1. Without(o) = pool
    BY <1>3 DEF Without
  <2>2. Same(pool, pool, o)
    BY DEF Same
  <2>3. \A i \in 1 .. Len(pool) : pool[i].orch # o
    BY <1>3, MemberFacts
  <2> QED
    BY <1>1, <2>1, <2>2, <2>3
<1> QED
  BY <1>2, <1>3

\* A transcoder's change: the others are as they were.
LEMMA ChainFacts ==
    ASSUME WalkTypeOK, NEW o \in Orchs,
           Leave(o) \/ \E i \in 1 .. Len(pool) + 1, s \in Stakes : Place(o, i, s)
    PROVE  /\ pool' \in Seq(Entry) /\ Distinct(pool') /\ Same(pool, pool', o) /\ Touch(o)
<1>1. PICK w : w = Without(o)
  OBVIOUS
<1>2. /\ w \in Seq(Entry) /\ Distinct(w) /\ Same(pool, w, o)
      /\ \A i \in 1 .. Len(w) : w[i].orch # o
  BY <1>1, WithoutFacts
<1>3. CASE Leave(o)
  BY <1>1, <1>2, <1>3 DEF Leave
<1>4. ASSUME NEW i \in 1 .. Len(pool) + 1, NEW s \in Stakes, Place(o, i, s)
      PROVE  pool' \in Seq(Entry) /\ Distinct(pool') /\ Same(pool, pool', o) /\ Touch(o)
  <2>1. PICK e : e = [orch |-> o, stake |-> s]
    OBVIOUS
  <2>2. e \in Entry /\ e.orch = o
    BY <2>1 DEF Entry
  <2>3. i \in 1 .. Len(w) + 1 /\ pool' = InsertAt(w, i, e) /\ Touch(o)
    BY <1>1, <1>4, <2>1 DEF Place
  <2>4. w \in Seq(Entry)
    BY <1>2
  <2>5. PICK r : r = InsertAt(w, i, e)
    OBVIOUS
  <2>6. r \in Seq(Entry) /\ Distinct(r) /\ Same(w, r, o)
    BY <1>2, <2>2, <2>3, <2>4, <2>5, InsertSame
  <2>7. Same(pool, r, o)
    BY <1>2, <2>6, SameTrans
  <2> QED
    BY <2>3, <2>5, <2>6, <2>7
<1> QED
  BY <1>3, <1>4

\* If the walk stands where it stood, it is past the same members.
LEMMA ChainKeepsUpto ==
    ASSUME WInv, NEW o \in Orchs, pool' \in Seq(Entry), Distinct(pool'),
           Same(pool, pool', o), Touch(o), ~torn', walk.st \in {"stake", "next"}
    PROVE  /\ \A a \in Orchs : a # o => (Upto(pool, a, walk.at) <=> Upto(pool', a, walk.at))
           /\ \E i \in 1 .. Len(pool') : pool'[i].orch = walk.at
<1>1. /\ pool \in Seq(Entry) /\ DOMAIN pool = 1 .. Len(pool)
      /\ DOMAIN pool' = 1 .. Len(pool')
  BY PoolFacts DEF WInv
<1>2. ~torn /\ (walk.at = o => StaysPut)
  BY DEF Touch
<1>3. \E i \in 1 .. Len(pool) : pool[i].orch = walk.at
  BY <1>2 DEF WInv, Stands
<1>4. CASE walk.at # o
  <2>1. PICK i \in 1 .. Len(pool) : pool[i].orch = walk.at
    BY <1>3
  <2>2. Has(pool, pool[i]) /\ pool[i].orch # o
    BY <1>4, <2>1 DEF Has
  <2>3. Has(pool', pool[i])
    BY <2>2 DEF Same
  <2> QED
    BY <1>4, <2>1, <2>3 DEF Same, Has
<1>5. CASE walk.at = o
  <2>1. [i \in DOMAIN pool |-> pool[i].orch] = [i \in DOMAIN pool' |-> pool'[i].orch]
    BY <1>2, <1>5 DEF StaysPut
  <2>2. DOMAIN pool = DOMAIN pool' /\ \A i \in DOMAIN pool : pool[i].orch = pool'[i].orch
    BY <2>1
  <2>3. 1 .. Len(pool) = 1 .. Len(pool')
    BY <1>1, <2>2
  <2>4. \A i \in 1 .. Len(pool) : i \in 1 .. Len(pool') /\ pool[i].orch = pool'[i].orch
    BY <1>1, <2>2, <2>3
  <2>5. \A i \in 1 .. Len(pool') : i \in 1 .. Len(pool)
    BY <2>3
  <2>6. \A a, b : Upto(pool, a, b) <=> Upto(pool', a, b)
    BY <2>4, <2>5 DEF Upto
  <2> QED
    BY <1>3, <2>4, <2>6
<1> QED
  BY <1>4, <1>5

\* The pool changes under the walk: what was passed stays passed.
LEMMA ChainStep == WInv /\ Chain => WInv'
<1> SUFFICES ASSUME WInv, Chain PROVE WInv'
  OBVIOUS
<1>1. PICK o \in Orchs :
        Leave(o) \/ \E i \in 1 .. Len(pool) + 1, s \in Stakes : Place(o, i, s)
  BY DEF Chain
<1>2. /\ pool' \in Seq(Entry) /\ Distinct(pool') /\ Same(pool, pool', o) /\ Touch(o)
  BY <1>1, ChainFacts DEF WInv
<1>3. /\ walk' = walk
      /\ touched' = IF walk.st \in {"idle", "failed"} THEN {} ELSE touched \union {o}
      /\ torn' = (torn \/ (walk.at = o /\ ~StaysPut))
  BY <1>2 DEF Touch
<1>4. DOMAIN pool' = 1 .. Len(pool')
  BY <1>2
<1>5. WalkTypeOK'
  BY <1>2, <1>3, <1>4 DEF WInv, WalkTypeOK, Distinct
<1>6. Stands'
  <2>1. ASSUME walk.st \in {"stake", "next"}, ~torn'
        PROVE  \E i \in 1 .. Len(pool') : pool'[i].orch = walk.at
    BY <1>2, <2>1, ChainKeepsUpto
  <2> QED
    BY <1>3, <2>1 DEF WInv, Stands
<1>7. CASE walk.st \in {"idle", "failed"}
  <2>1. touched' = {} /\ walk.out = <<>> /\ walk.at = Zero /\ ~torn
    BY <1>3, <1>7 DEF WInv, Empty, Stands
  <2>2. ~torn'
    BY <1>3, <2>1, WalkAssumption
  <2>3. Len(walk.out) = 0 /\ \A o2 : FoundOf(walk.out, o2) = {}
    BY <2>1 DEF FoundOf
  <2>4. \A a : ~Passed(a)'
    BY <1>3, <1>7 DEF Passed
  <2>5. Steady'
    BY <1>3, <2>3, <2>4 DEF Steady, Reported, Once
  <2>6. Len(pool') \in Nat /\ Len(pool') >= 0
    BY <1>2
  <2>7. SoFar'
    BY <1>3, <1>7, <2>2, <2>3, <2>6 DEF SoFar
  <2>8. Empty'
    BY <1>3, <1>7, <2>1, <2>2 DEF WInv, Empty
  <2> QED
    BY <1>5, <1>6, <2>5, <2>7, <2>8 DEF WInv
<1>8. CASE walk.st \notin {"idle", "failed"}
  <2>1. touched' = touched \union {o} /\ touched' # {}
    BY <1>3, <1>8
  <2>2. SoFar'
    BY <2>1 DEF SoFar
  <2>3. Empty'
    BY <1>3, <1>8 DEF WInv, Empty
  <2>4. Steady'
    <3> SUFFICES ASSUME ~torn', NEW a \in Orchs \ touched'
                 PROVE  /\ Once(walk'.out, a)
                        /\ Passed(a)' => Reported(walk'.out, a) = Of(a)'
                        /\ ~Passed(a)' => Reported(walk'.out, a) = {}
      BY DEF Steady
    <3>1. a # o /\ a \in Orchs \ touched /\ ~torn
      BY <1>3, <2>1
    <3>2. /\ Once(walk.out, a)
          /\ Passed(a) => Reported(walk.out, a) = Of(a)
          /\ ~Passed(a) => Reported(walk.out, a) = {}
      BY <3>1 DEF WInv, Steady
    <3>3. Passed(a)' <=> Passed(a)
      <4>1. CASE walk.st \in {"stake", "next"}
        <5>1. Upto(pool, a, walk.at) <=> Upto(pool', a, walk.at)
          BY <1>2, <3>1, <4>1, ChainKeepsUpto
        <5> QED
          BY <1>3, <5>1 DEF Passed
      <4>2. CASE walk.st \notin {"stake", "next"}
        BY <1>3, <4>2 DEF Passed
      <4> QED
        BY <4>1, <4>2
    <3>4. Of(a)' = Of(a)
      <4>1. PICK r : r = pool'
        OBVIOUS
      <4>2. {e \in Range(r) : e.orch = a} = {e \in Entry : Has(r, e) /\ e.orch = a}
        BY <1>2, <4>1, RangeFacts
      <4>3. Of(a) = {e \in Entry : Has(pool, e) /\ e.orch = a}
        BY MemberFacts DEF WInv
      <4>4. \A e \in Entry : e.orch = a => (Has(pool, e) <=> Has(r, e))
        BY <1>2, <3>1, <4>1 DEF Same
      <4>5. Of(a)' = {e \in Range(r) : e.orch = a}
        BY <4>1 DEF Of
      <4> QED
        BY <4>2, <4>3, <4>4, <4>5
    <3> QED
      BY <1>3, <3>2, <3>3, <3>4
  <2> QED
    BY <1>5, <1>6, <2>2, <2>3, <2>4 DEF WInv
<1> QED
  BY <1>7, <1>8

----------------------------------------------------------------------------
(* The walk's steps.                                                       *)

\* A walk that has nothing and is nowhere.
LEMMA CalmStep ==
    ASSUME WalkTypeOK, pool' = pool, NEW st \in {"idle", "first", "failed"},
           walk' = Calm(st), touched' = {}, torn' = FALSE
    PROVE  WInv'
<1>1. /\ walk'.st = st /\ walk'.at = Zero /\ walk'.out = <<>> /\ Len(walk'.out) = 0
      /\ walk' \in Walk
  BY DEF Calm, Walk, Steps
<1>2. \A a : FoundOf(walk'.out, a) = {} /\ ~Passed(a)'
  BY <1>1 DEF FoundOf, Passed
<1>3. WalkTypeOK'
  <2>1. Len(walk'.out) <= WalkLimit
    BY <1>1, WalkAssumption
  <2>2. touched' \subseteq Orchs /\ torn' \in BOOLEAN
    OBVIOUS
  <2> QED
    BY <1>1, <2>1, <2>2 DEF WalkTypeOK
<1>4. Steady'
  BY <1>2 DEF Steady, Once, Reported
<1>5. Len(pool') \in Nat
  BY PoolFacts
<1>6. SoFar'
  BY <1>1, <1>5 DEF SoFar
<1>7. Stands' /\ Empty'
  BY <1>1 DEF Stands, Empty
<1> QED
  BY <1>3, <1>4, <1>6, <1>7 DEF WInv

\* A read of the walk throws.
LEMMA FailStep == WInv /\ Fail /\ pool' = pool => WInv'
  BY CalmStep DEF WInv, Fail

\* The walk starts.
LEMMA StartStep == WInv /\ StartWalk /\ pool' = pool => WInv'
  BY CalmStep DEF WInv, StartWalk

\* What the step to the next member keeps.
LEMMA GoToKeeps ==
    ASSUME WInv, NEW o \in Orchs \union {Zero}, pool' = pool, walk.st \in {"first", "next"},
           UNCHANGED <<touched, torn>>,
           NEW st \in {"stake", "done"}, walk' = [walk EXCEPT !.st = st, !.at = o],
           st = "done" => o = Zero, st = "stake" => o \in Orchs /\ Len(walk.out) < WalkLimit
    PROVE  /\ WalkTypeOK' /\ Empty' /\ walk'.st = st /\ walk'.at = o /\ walk'.out = walk.out
           /\ \A a : Of(a)' = Of(a)
<1>1. walk \in Walk /\ WalkTypeOK
  BY PoolFacts DEF WInv
<1>2. walk' \in Walk /\ walk'.st = st /\ walk'.at = o /\ walk'.out = walk.out
  BY <1>1 DEF Walk, Steps
<1>3. WalkTypeOK'
  BY <1>1, <1>2 DEF WalkTypeOK
<1>4. Empty'
  BY <1>2 DEF Empty
<1> QED
  BY <1>2, <1>3, <1>4 DEF Of

\* getFirstTranscoderInPool is read.
LEMMA GetFirstStep == WInv /\ GetFirst => WInv'
<1> SUFFICES ASSUME WInv, GetFirst PROVE WInv'
  OBVIOUS
<1>1. walk.st = "first" /\ GoTo(First) /\ pool' = pool
  BY DEF GetFirst
<1>2. /\ pool \in Seq(Entry) /\ Distinct(pool) /\ Len(pool) \in Nat /\ Zero \notin Orchs
      /\ \A i \in 1 .. Len(pool) : pool[i] \in Entry
      /\ walk \in Walk /\ walk.out = <<>> /\ Len(walk.out) = 0
      /\ \A a : FoundOf(walk.out, a) = {}
  BY <1>1, PoolFacts DEF WInv, Empty, FoundOf
<1>3. PICK o : o = First
  OBVIOUS
<1>4. CASE o # Zero /\ Len(walk.out) >= WalkLimit /\ Fail
  BY <1>1, <1>4, FailStep
<1>5. CASE /\ o = Zero /\ walk' = [walk EXCEPT !.st = "done", !.at = Zero]
           /\ UNCHANGED <<touched, torn>>
  <2>1. pool = <<>>
    <3>1. SUFFICES ASSUME pool # <<>> PROVE FALSE
      OBVIOUS
    <3>2. Len(pool) >= 1 /\ Head(pool) = pool[1] /\ 1 \in 1 .. Len(pool)
      BY <1>2, <3>1
    <3>3. o = pool[1].orch /\ pool[1].orch \in Orchs
      BY <1>2, <1>3, <3>1, <3>2 DEF First, Entry
    <3> QED
      BY <1>2, <1>5, <3>3
  <2>2. /\ WalkTypeOK' /\ Empty' /\ walk'.st = "done" /\ walk'.at = Zero
        /\ walk'.out = walk.out /\ \A a : Of(a)' = Of(a)
    BY <1>1, <1>5, GoToKeeps
  <2>3. \A a : Of(a) = {}
    <3>1. Len(pool) = 0
      BY <2>1
    <3> QED
      BY <1>2, <3>1, MemberFacts DEF WInv
  <2>4. Steady'
    BY <1>2, <2>2, <2>3 DEF Steady, Passed, Once, Reported
  <2>5. Stands'
    BY <2>2 DEF Stands
  <2>6. SoFar'
    BY <1>1, <1>2, <1>5, <2>1, <2>2 DEF WInv, SoFar
  <2> QED
    BY <2>2, <2>4, <2>5, <2>6 DEF WInv
<1>6. CASE /\ o # Zero /\ Len(walk.out) < WalkLimit
           /\ walk' = [walk EXCEPT !.st = "stake", !.at = o]
           /\ UNCHANGED <<touched, torn>>
  <2>1. Len(pool) >= 1 /\ o = pool[1].orch /\ o \in Orchs /\ 1 \in 1 .. Len(pool)
    <3>1. pool # <<>>
      BY <1>3, <1>6 DEF First
    <3>2. Len(pool) >= 1 /\ Head(pool) = pool[1] /\ 1 \in 1 .. Len(pool)
      BY <1>2, <3>1
    <3> QED
      BY <1>2, <1>3, <3>1, <3>2 DEF First, Entry
  <2>2. /\ WalkTypeOK' /\ Empty' /\ walk'.st = "stake" /\ walk'.at = o
        /\ walk'.out = walk.out
    BY <1>1, <1>6, <2>1, GoToKeeps
  <2>3. \A a : ~(Upto(pool, a, o) /\ a # o)
    <3> SUFFICES ASSUME NEW a, Upto(pool, a, o) PROVE a = o
      OBVIOUS
    <3>1. PICK i, j \in 1 .. Len(pool) : i <= j /\ pool[i].orch = a /\ pool[j].orch = o
      BY DEF Upto
    <3>2. j = 1
      BY <1>2, <2>1, <3>1 DEF Distinct
    <3>3. i = 1
      BY <3>1, <3>2
    <3> QED
      BY <2>1, <3>1, <3>3
  <2>4. Steady'
    BY <1>1, <1>2, <2>2, <2>3 DEF Steady, Passed, Once, Reported
  <2>5. Stands'
    BY <1>1, <2>1, <2>2 DEF Stands
  <2>6. SoFar'
    BY <1>1, <1>2, <1>6, <2>1, <2>2 DEF WInv, SoFar
  <2> QED
    BY <2>2, <2>4, <2>5, <2>6 DEF WInv
<1> QED
  BY <1>1, <1>3, <1>4, <1>5, <1>6 DEF GoTo

\* The stake of the member it stands on.
LEMMA GetStakeStep == WInv /\ GetStake => WInv'
<1> SUFFICES ASSUME WInv, GetStake PROVE WInv'
  OBVIOUS
<1>1. /\ walk.st = "stake" /\ pool' = pool /\ touched' = touched /\ torn' = torn
  BY DEF GetStake
<1>2. PICK e \in IF walk.at \in Members THEN Of(walk.at)
                 ELSE [orch : {walk.at}, stake : Stakes] :
        walk' = [walk EXCEPT !.st = "next", !.out = Append(walk.out, e)]
  BY DEF GetStake
<1>3. /\ pool \in Seq(Entry) /\ Distinct(pool) /\ Len(pool) \in Nat /\ Zero \notin Orchs
      /\ \A i \in 1 .. Len(pool) : pool[i] \in Entry
      /\ walk \in Walk /\ walk.out \in Seq(Entry) /\ Len(walk.out) \in Nat
      /\ WalkLimit \in Nat /\ WalkTypeOK
  BY PoolFacts DEF WInv
<1>4. walk.at \in Orchs /\ Len(walk.out) < WalkLimit
  BY <1>1 DEF WInv, Stands, Empty
<1>5. e \in Entry /\ e.orch = walk.at
  <2>1. CASE walk.at \in Members
    BY <1>2, <1>3, <2>1, MemberFacts
  <2>2. CASE walk.at \notin Members
    BY <1>2, <1>4, <2>2 DEF Entry
  <2> QED
    BY <2>1, <2>2
<1>6. PICK s, n : s = walk.out /\ n = Len(walk.out)
  OBVIOUS
<1>7. PICK u : u = Append(s, e)
  OBVIOUS
<1>8. /\ s \in Seq(Entry) /\ n = Len(s) /\ n \in Nat
      /\ u \in Seq(Entry) /\ Len(u) = n + 1 /\ u[n + 1] = e
      /\ \A i \in 1 .. n : u[i] = s[i]
  BY <1>3, <1>5, <1>6, <1>7
<1>9. /\ walk' \in Walk /\ walk'.st = "next" /\ walk'.at = walk.at /\ walk'.out = u
  BY <1>2, <1>3, <1>6, <1>7, <1>8 DEF Walk, Steps
<1>10. WalkTypeOK'
  <2>1. Len(u) <= WalkLimit
    BY <1>3, <1>4, <1>6, <1>8
  <2> QED
    BY <1>1, <1>3, <1>9, <2>1 DEF WalkTypeOK
<1>11. Stands' /\ Empty'
  BY <1>1, <1>9 DEF WInv, Stands, Empty
<1>12. Steady'
  <2> SUFFICES ASSUME ~torn, NEW a \in Orchs \ touched
               PROVE  /\ Once(u, a)
                      /\ Passed(a)' => Reported(u, a) = Of(a)
                      /\ ~Passed(a)' => Reported(u, a) = {}
    BY <1>1, <1>9 DEF Steady, Of
  <2>1. /\ Once(s, a)
        /\ Passed(a) => Reported(s, a) = Of(a)
        /\ ~Passed(a) => Reported(s, a) = {}
    BY <1>6 DEF WInv, Steady
  <2>2. /\ Passed(a) <=> Upto(pool, a, walk.at) /\ a # walk.at
        /\ Passed(a)' <=> Upto(pool, a, walk.at)
    BY <1>1, <1>9 DEF Passed
  <2>3. CASE a # walk.at
    <3>1. FoundOf(u, a) = FoundOf(s, a)
      <4>1. \A i \in 1 .. n + 1 : u[i].orch = a => i \in 1 .. n
        BY <1>5, <1>8, <2>3
      <4>2. \A i : i \in FoundOf(u, a) <=> i \in FoundOf(s, a)
        BY <1>8, <4>1 DEF FoundOf
      <4> QED
        BY <4>2
    <3>2. Reported(u, a) = Reported(s, a)
      <4>1. \A i \in FoundOf(s, a) : u[i] = s[i]
        BY <1>8 DEF FoundOf
      <4> QED
        BY <3>1, <4>1 DEF Reported
    <3> QED
      BY <2>1, <2>2, <2>3, <3>1, <3>2 DEF Once
  <2>4. CASE a = walk.at
    <3>1. PICK k \in 1 .. Len(pool) : pool[k].orch = a
      BY <1>1, <2>4 DEF WInv, Stands
    <3>2. Upto(pool, a, a) /\ Of(a) = {pool[k]} /\ a \in Members
      BY <1>3, <3>1, MemberFacts DEF Upto
    <3>3. Of(a) = {e}
      BY <1>2, <2>4, <3>2
    <3>4. FoundOf(s, a) = {}
      <4>1. Reported(s, a) = {}
        BY <2>1, <2>2, <2>4
      <4>2. \A i \in FoundOf(s, a) : s[i] \in Reported(s, a)
        BY DEF Reported
      <4> QED
        BY <4>1, <4>2
    <3>5. FoundOf(u, a) = {n + 1}
      <4>1. \A i \in 1 .. n : s[i].orch # a
        BY <1>8, <3>4 DEF FoundOf
      <4>2. \A i : i \in FoundOf(u, a) <=> i = n + 1
        BY <1>5, <1>8, <2>4, <4>1 DEF FoundOf
      <4> QED
        BY <4>2
    <3>6. Reported(u, a) = {e} /\ Once(u, a)
      BY <1>8, <3>5 DEF Reported, Once
    <3> QED
      BY <2>2, <2>4, <3>2, <3>3, <3>6
  <2> QED
    BY <2>3, <2>4
<1>13. SoFar'
  <2> SUFFICES ASSUME touched = {}
               PROVE  /\ ~torn /\ n + 1 <= Len(pool)
                      /\ \A i \in 1 .. n + 1 : u[i] = pool[i]
                      /\ pool[n + 1].orch = walk.at
    <3>1. n + 1 >= 1
      BY <1>8
    <3> QED
      BY <1>1, <1>8, <1>9, <3>1 DEF SoFar
  <2>1. /\ ~torn /\ n + 1 <= Len(pool) /\ pool[n + 1].orch = walk.at
        /\ \A i \in 1 .. n : s[i] = pool[i]
    BY <1>1, <1>6 DEF WInv, SoFar
  <2>2. n + 1 \in 1 .. Len(pool)
    BY <1>3, <1>8, <2>1
  <2>3. Of(walk.at) = {pool[n + 1]} /\ walk.at \in Members
    BY <1>3, <2>1, <2>2, MemberFacts
  <2>4. e = pool[n + 1]
    BY <1>2, <2>3
  <2>5. ASSUME NEW i \in 1 .. n + 1 PROVE u[i] = pool[i]
    <3>1. CASE i = n + 1
      BY <1>8, <2>4, <3>1
    <3>2. CASE i # n + 1
      <4>1. i \in 1 .. n
        BY <1>8, <3>2
      <4> QED
        BY <1>8, <2>1, <4>1
    <3> QED
      BY <3>1, <3>2
  <2> QED
    BY <2>1, <2>5
<1> QED
  BY <1>10, <1>11, <1>12, <1>13 DEF WInv

\* The member after the one it stands on.
LEMMA AfterFacts ==
    ASSUME WalkTypeOK, NEW p \in 1 .. Len(pool), NEW o, pool[p].orch = o
    PROVE  /\ p = Len(pool) => After(o) = Zero
           /\ p < Len(pool) => After(o) = pool[p + 1].orch /\ After(o) \in Orchs
<1>1. /\ Distinct(pool) /\ Len(pool) \in Nat /\ DOMAIN pool = 1 .. Len(pool)
      /\ \A i \in 1 .. Len(pool) : pool[i] \in Entry
  BY PoolFacts
<1>2. PICK next : next = {i \in DOMAIN pool : i > 1 /\ pool[i - 1].orch = o}
  OBVIOUS
<1>3. After(o) = IF next = {} THEN Zero ELSE pool[CHOOSE i \in next : TRUE].orch
  BY <1>2 DEF After
<1>4. \A i \in next : i = p + 1 /\ i <= Len(pool)
  <2> SUFFICES ASSUME NEW i \in next PROVE i = p + 1 /\ i <= Len(pool)
    OBVIOUS
  <2>1. i \in 1 .. Len(pool) /\ i - 1 \in 1 .. Len(pool) /\ pool[i - 1].orch = o
    BY <1>1, <1>2
  <2>2. i - 1 = p
    BY <2>1 DEF Distinct, WalkTypeOK
  <2> QED
    BY <1>1, <2>1, <2>2
<1>5. ASSUME p = Len(pool) PROVE After(o) = Zero
  <2>1. next = {}
    BY <1>1, <1>4, <1>5
  <2> QED
    BY <1>1, <1>3, <1>5, <2>1
<1>6. ASSUME p < Len(pool)
      PROVE  After(o) = pool[p + 1].orch /\ After(o) \in Orchs
  <2>1. p + 1 \in DOMAIN pool /\ p + 1 > 1 /\ (p + 1) - 1 = p
    BY <1>1, <1>6
  <2>2. p + 1 \in next
    BY <1>2, <2>1
  <2>3. (CHOOSE i \in next : TRUE) = p + 1
    BY <1>4, <2>2
  <2>4. After(o) = pool[p + 1].orch
    BY <1>3, <2>2, <2>3
  <2> QED
    BY <1>1, <1>6, <2>1, <2>4 DEF Entry
<1> QED
  BY <1>5, <1>6

\* getNextTranscoderInPool is read: nobody steady is skipped.
LEMMA GetNextStep == WInv /\ GetNext => WInv'
<1> SUFFICES ASSUME WInv, GetNext PROVE WInv'
  OBVIOUS
<1>1. walk.st = "next" /\ GoTo(After(walk.at)) /\ pool' = pool
  BY DEF GetNext
<1>2. /\ pool \in Seq(Entry) /\ Distinct(pool) /\ Len(pool) \in Nat /\ Zero \notin Orchs
      /\ walk \in Walk /\ Len(walk.out) \in Nat
      /\ WalkTypeOK /\ walk.at \in Orchs
  BY <1>1, PoolFacts DEF WInv, Stands
<1>3. PICK o, n : o = After(walk.at) /\ n = Len(walk.out)
  OBVIOUS
<1>4. ASSUME ~torn
      PROVE  \E p \in 1 .. Len(pool) : pool[p].orch = walk.at
  BY <1>1, <1>4 DEF WInv, Stands
<1>5. CASE o # Zero /\ Len(walk.out) >= WalkLimit /\ Fail
  BY <1>1, <1>5, FailStep
<1>6. CASE /\ o = Zero /\ walk' = [walk EXCEPT !.st = "done", !.at = Zero]
           /\ UNCHANGED <<touched, torn>>
  <2>1. /\ WalkTypeOK' /\ Empty' /\ walk'.st = "done" /\ walk'.at = Zero
        /\ walk'.out = walk.out /\ \A a : Of(a)' = Of(a)
    BY <1>1, <1>6, GoToKeeps
  <2>2. ASSUME NEW p \in 1 .. Len(pool), pool[p].orch = walk.at
        PROVE  p = Len(pool)
    <3>1. p < Len(pool) => o \in Orchs
      BY <1>2, <1>3, <2>2, AfterFacts
    <3> QED
      BY <1>2, <1>6, <3>1
  <2>3. Steady'
    <3> SUFFICES ASSUME ~torn, NEW a \in Orchs \ touched
                 PROVE  Once(walk.out, a) /\ Reported(walk.out, a) = Of(a)
      BY <1>6, <2>1 DEF Steady, Passed
    <3>1. /\ Once(walk.out, a)
          /\ Passed(a) => Reported(walk.out, a) = Of(a)
          /\ ~Passed(a) => Reported(walk.out, a) = {}
      BY DEF WInv, Steady
    <3>2. Passed(a) <=> Upto(pool, a, walk.at)
      BY <1>1 DEF Passed
    <3>3. CASE \E i \in 1 .. Len(pool) : pool[i].orch = a
      <4>1. PICK i \in 1 .. Len(pool) : pool[i].orch = a
        BY <3>3
      <4>2. PICK p \in 1 .. Len(pool) : pool[p].orch = walk.at
        BY <1>4
      <4>3. i <= p
        BY <1>2, <2>2, <4>2
      <4>4. Upto(pool, a, walk.at)
        BY <4>1, <4>2, <4>3 DEF Upto
      <4> QED
        BY <3>1, <3>2, <4>4
    <3>4. CASE ~ \E i \in 1 .. Len(pool) : pool[i].orch = a
      <4>1. Of(a) = {}
        BY <1>2, <3>4, MemberFacts
      <4> QED
        BY <3>1, <4>1
    <3> QED
      BY <3>3, <3>4
  <2>4. Stands'
    BY <2>1 DEF Stands
  <2>5. SoFar'
    <3> SUFFICES ASSUME touched = {}
                 PROVE  /\ ~torn /\ n = Len(pool)
                        /\ \A i \in 1 .. n : walk.out[i] = pool[i]
      BY <1>1, <1>2, <1>3, <1>6, <2>1 DEF SoFar
    <3>1. /\ ~torn /\ n >= 1 /\ n <= Len(pool) /\ pool[n].orch = walk.at
          /\ \A i \in 1 .. n : walk.out[i] = pool[i]
      BY <1>1, <1>3 DEF WInv, SoFar
    <3>2. n \in 1 .. Len(pool)
      BY <1>2, <1>3, <3>1
    <3>3. n = Len(pool)
      BY <2>2, <3>1, <3>2
    <3> QED
      BY <3>1, <3>3
  <2> QED
    BY <2>1, <2>3, <2>4, <2>5 DEF WInv
<1>7. CASE /\ o # Zero /\ Len(walk.out) < WalkLimit
           /\ walk' = [walk EXCEPT !.st = "stake", !.at = o]
           /\ UNCHANGED <<touched, torn>>
  <2>1. ASSUME NEW p \in 1 .. Len(pool), pool[p].orch = walk.at
        PROVE  p + 1 \in 1 .. Len(pool) /\ pool[p + 1].orch = o
    <3>1. /\ p = Len(pool) => o = Zero
          /\ p < Len(pool) => o = pool[p + 1].orch
      BY <1>2, <1>3, <2>1, AfterFacts
    <3> QED
      BY <1>2, <1>7, <3>1
  <2>2. o \in Orchs
    <3>1. \A i \in DOMAIN pool : pool[i].orch \in Orchs
      <4>1. DOMAIN pool = 1 .. Len(pool) /\ \A i \in 1 .. Len(pool) : pool[i] \in Entry
        BY <1>2, PoolFacts
      <4> QED
        BY <4>1 DEF Entry
    <3>2. PICK next : next = {i \in DOMAIN pool : i > 1 /\ pool[i - 1].orch = walk.at}
      OBVIOUS
    <3>3. o = IF next = {} THEN Zero ELSE pool[CHOOSE i \in next : TRUE].orch
      BY <1>3, <3>2 DEF After
    <3>4. next # {} /\ (CHOOSE i \in next : TRUE) \in next
      BY <1>7, <3>3
    <3> QED
      BY <3>1, <3>2, <3>3, <3>4
  <2>3. /\ WalkTypeOK' /\ Empty' /\ walk'.st = "stake" /\ walk'.at = o
        /\ walk'.out = walk.out /\ \A a : Of(a)' = Of(a)
    BY <1>1, <1>7, <2>2, GoToKeeps
  <2>4. Steady'
    <3> SUFFICES \A a \in Orchs \ touched :
                   ~torn => (Upto(pool, a, walk.at) <=> Upto(pool, a, o) /\ a # o)
      <4>1. \A a : Passed(a) <=> Upto(pool, a, walk.at)
        BY <1>1 DEF Passed
      <4>2. \A a : Passed(a)' <=> Upto(pool, a, o) /\ a # o
        BY <1>1, <2>3 DEF Passed
      <4> QED
        BY <1>7, <2>3, <4>1, <4>2 DEF WInv, Steady
    <3> SUFFICES ASSUME NEW a \in Orchs \ touched, ~torn
                 PROVE  Upto(pool, a, walk.at) <=> Upto(pool, a, o) /\ a # o
      OBVIOUS
    <3>1. PICK p \in 1 .. Len(pool) : pool[p].orch = walk.at
      BY <1>4
    <3>2. p + 1 \in 1 .. Len(pool) /\ pool[p + 1].orch = o
      BY <2>1, <3>1
    <3>3. ASSUME Upto(pool, a, walk.at)
          PROVE  Upto(pool, a, o) /\ a # o
      <4>1. PICK i, j \in 1 .. Len(pool) : i <= j /\ pool[i].orch = a /\ pool[j].orch = walk.at
        BY <3>3 DEF Upto
      <4>2. j = p
        BY <1>2, <3>1, <4>1 DEF Distinct
      <4>3. i <= p + 1 /\ i # p + 1
        BY <1>2, <4>1, <4>2
      <4>4. Upto(pool, a, o)
        BY <3>2, <4>1, <4>3 DEF Upto
      <4>5. a # o
        BY <1>2, <3>2, <4>1, <4>3 DEF Distinct
      <4> QED
        BY <4>4, <4>5
    <3>4. ASSUME Upto(pool, a, o), a # o
          PROVE  Upto(pool, a, walk.at)
      <4>1. PICK i, j \in 1 .. Len(pool) : i <= j /\ pool[i].orch = a /\ pool[j].orch = o
        BY <3>4 DEF Upto
      <4>2. j = p + 1
        BY <1>2, <3>2, <4>1 DEF Distinct
      <4>3. i # j
        BY <3>4, <4>1
      <4>4. i <= p
        BY <1>2, <4>1, <4>2, <4>3
      <4> QED
        BY <3>1, <4>1, <4>4 DEF Upto
    <3> QED
      BY <3>3, <3>4
  <2>5. Stands'
    <3>1. ~torn => \E i \in 1 .. Len(pool) : pool[i].orch = o
      <4> SUFFICES ASSUME ~torn PROVE \E i \in 1 .. Len(pool) : pool[i].orch = o
        OBVIOUS
      <4>1. PICK p \in 1 .. Len(pool) : pool[p].orch = walk.at
        BY <1>4
      <4> QED
        BY <2>1, <4>1
    <3> QED
      BY <1>1, <1>7, <2>2, <2>3, <3>1 DEF Stands
  <2>6. SoFar'
    <3> SUFFICES ASSUME touched = {}
                 PROVE  /\ ~torn /\ n + 1 <= Len(pool) /\ pool[n + 1].orch = o
                        /\ \A i \in 1 .. n : walk.out[i] = pool[i]
      BY <1>1, <1>2, <1>3, <1>7, <2>3 DEF SoFar
    <3>1. /\ ~torn /\ n >= 1 /\ n <= Len(pool) /\ pool[n].orch = walk.at
          /\ \A i \in 1 .. n : walk.out[i] = pool[i]
      BY <1>1, <1>3 DEF WInv, SoFar
    <3>2. n \in 1 .. Len(pool)
      BY <1>2, <1>3, <3>1
    <3>3. n + 1 \in 1 .. Len(pool) /\ pool[n + 1].orch = o
      BY <2>1, <3>1, <3>2
    <3>4. n + 1 <= Len(pool)
      BY <1>2, <3>3
    <3> QED
      BY <3>1, <3>3, <3>4
  <2> QED
    BY <2>3, <2>4, <2>5, <2>6 DEF WInv
<1> QED
  BY <1>1, <1>3, <1>5, <1>6, <1>7 DEF GoTo

----------------------------------------------------------------------------
(* What holds of the walk.                                                 *)

\* Every step of the walk keeps its invariant.
LEMMA WalkStepKeeps == WInv /\ WalkStep => WInv'
  BY GetFirstStep, GetStakeStep, GetNextStep, FailStep DEF WalkStep, ReadFails

\* A step of others that touches neither pool nor walk.
LEMMA StillStep == WInv /\ pool' = pool /\ UNCHANGED walkVars => WInv'
<1> SUFFICES ASSUME WInv, pool' = pool, UNCHANGED walkVars PROVE WInv'
  OBVIOUS
<1>1. walk' = walk /\ touched' = touched /\ torn' = torn
  BY DEF walkVars
<1>2. \A a : Of(a)' = Of(a) /\ (Passed(a)' <=> Passed(a))
  BY <1>1 DEF Of, Passed
<1>3. WalkTypeOK'
  BY <1>1 DEF WInv, WalkTypeOK
<1>4. Steady'
  BY <1>1, <1>2 DEF WInv, Steady
<1>5. Stands' /\ SoFar' /\ Empty'
  BY <1>1 DEF WInv, Stands, SoFar, Empty
<1> QED
  BY <1>3, <1>4, <1>5 DEF WInv

\* The invariant holds at the start, over an empty pool.
LEMMA InitWalk == WalkInit => WInv
<1> SUFFICES ASSUME WalkInit PROVE WInv
  OBVIOUS
<1>1. /\ pool = <<>> /\ walk = Calm("idle") /\ touched = {} /\ torn = FALSE
  BY DEF WalkInit
<1>2. /\ walk.st = "idle" /\ walk.at = Zero /\ walk.out = <<>> /\ Len(walk.out) = 0
      /\ walk \in Walk /\ pool \in Seq(Entry) /\ DOMAIN pool = {} /\ Len(pool) = 0
  BY <1>1 DEF Calm, Walk, Steps
<1>3. \A a : FoundOf(walk.out, a) = {} /\ ~Passed(a)
  BY <1>2 DEF FoundOf, Passed
<1>4. WalkTypeOK
  <2>1. Len(walk.out) <= WalkLimit
    BY <1>2, WalkAssumption
  <2>2. \A i, j \in DOMAIN pool : pool[i].orch = pool[j].orch => i = j
    BY <1>2
  <2> QED
    BY <1>1, <1>2, <2>1, <2>2 DEF WalkTypeOK
<1>5. Steady
  BY <1>3 DEF Steady, Once, Reported
<1>6. Stands /\ SoFar /\ Empty
  BY <1>1, <1>2 DEF Stands, SoFar, Empty
<1> QED
  BY <1>4, <1>5, <1>6 DEF WInv

\* A finished walk, of who did not change.
LEMMA DoneFacts ==
    ASSUME WInv, walk.st = "done", ~torn, NEW o \in Orchs \ touched
    PROVE  Once(walk.out, o) /\ Reported(walk.out, o) = Of(o)
  BY DEF WInv, Steady, Passed

\* The finished walk reports who stayed in the pool with one stake.
LEMMA WalkIsSteady == WInv => SteadyReported
<1> SUFFICES ASSUME WInv, walk.st = "done" PROVE SteadyReported
  BY DEF SteadyReported
<1>1. /\ pool \in Seq(Entry) /\ walk.out \in Seq(Entry)
      /\ DOMAIN walk.out = 1 .. Len(walk.out)
  BY PoolFacts DEF WInv
<1>2. touched = {} => walk.out = pool
  <2> SUFFICES ASSUME touched = {} PROVE walk.out = pool
    OBVIOUS
  <2>1. /\ Len(walk.out) = Len(pool)
        /\ \A i \in 1 .. Len(walk.out) : walk.out[i] = pool[i]
    BY DEF WInv, SoFar
  <2> QED
    BY <1>1, <2>1, SeqEqual
<1>3. ASSUME ~torn, NEW o \in Orchs \ touched
      PROVE  LET found == {i \in DOMAIN walk.out : walk.out[i].orch = o} IN
             /\ {walk.out[i] : i \in found} = Of(o)
             /\ \A i, j \in found : i = j
  <2>1. Once(walk.out, o) /\ Reported(walk.out, o) = Of(o)
    BY <1>3, DoneFacts
  <2>2. FoundOf(walk.out, o) = {i \in DOMAIN walk.out : walk.out[i].orch = o}
    BY <1>1 DEF FoundOf
  <2> QED
    BY <2>1, <2>2 DEF Once, Reported
<1> QED
  BY <1>2, <1>3 DEF SteadyReported
----------------------------------------------------------------------------
(* The stakes of a walk.                                                   *)

\* A nonempty set of naturals up to n has a greatest element.
LEMMA GreatestNatural ==
    ASSUME NEW n \in Nat, NEW T \in SUBSET (0 .. n), T # {}
    PROVE  \E m \in T : \A k \in T : m >= k
<1> DEFINE R == OpToRel(<, Nat)
           U == {n - k : k \in T}
<1>1. \A x, y \in Nat : <<y, x>> \in R <=> y < x
  BY DEF OpToRel
<1>2. IsWellFoundedOn(R, Nat)
  BY NatLessThanWellFounded
<1>3. U \in SUBSET Nat /\ U # {}
  <2>1. \A k \in T : n - k \in Nat
    OBVIOUS
  <2> QED
    BY <2>1
<1> HIDE DEF R
<1>4. PICK u \in U : \A v \in U : ~(<<v, u>> \in R)
  <2> HIDE DEF U
  <2> QED
    BY <1>2, <1>3, WFMin
<1>5. PICK m \in T : u = n - m
  OBVIOUS
<1>6. ASSUME NEW k \in T PROVE m >= k
  <2>1. n - k \in U /\ n - k \in Nat /\ u \in Nat
    BY <1>3
  <2>2. ~(n - k < u)
    BY <1>1, <1>4, <2>1
  <2> QED
    BY <1>5, <2>2
<1> QED
  BY <1>6

\* poolEntriesToStakeMap: each orch of the walk, with the stake of one of its
\* entries.
LEMMA StakeMapFacts ==
    ASSUME NEW out \in Seq(Entry)
    PROVE  /\ StakeMap(out) \in UNION {[S -> Stakes] : S \in SUBSET Orchs}
           /\ \A o : o \in DOMAIN StakeMap(out) <=> FoundOf(out, o) # {}
           /\ \A o \in DOMAIN StakeMap(out) :
                \E i \in FoundOf(out, o) : StakeMap(out)[o] = out[i].stake
<1>1. /\ DOMAIN out = 1 .. Len(out) /\ Len(out) \in Nat
      /\ \A i \in 1 .. Len(out) : out[i] \in Entry
  BY ElementOfSeq
<1>2. PICK D : D = {e.orch : e \in Range(out)}
  OBVIOUS
<1>3. \A o : o \in D <=> FoundOf(out, o) # {}
  BY <1>1, <1>2 DEF Range, FoundOf
<1>4. ASSUME NEW o \in D
      PROVE  SelectLastInSeq(out, LAMBDA e : e.orch = o) \in FoundOf(out, o)
  <2>1. FoundOf(out, o) # {} /\ FoundOf(out, o) \in SUBSET (0 .. Len(out))
    BY <1>1, <1>3 DEF FoundOf
  <2>2. \E m \in FoundOf(out, o) : \A k \in FoundOf(out, o) : m >= k
    BY <1>1, <2>1, GreatestNatural
  <2>3. Max(FoundOf(out, o)) \in FoundOf(out, o)
    BY <2>2 DEF Max
  <2>4. SelectLastInSeq(out, LAMBDA e : e.orch = o) = Max(FoundOf(out, o))
    BY <2>1 DEF SelectLastInSeq, FoundOf
  <2> QED
    BY <2>3, <2>4
<1>5. StakeMap(out) = [o \in D |-> out[SelectLastInSeq(out, LAMBDA e : e.orch = o)].stake]
  BY <1>2 DEF StakeMap
<1>6. D \in SUBSET Orchs
  BY <1>1, <1>2 DEF Range, Entry
<1>7. \A o \in D : \E i \in FoundOf(out, o) : StakeMap(out)[o] = out[i].stake
  BY <1>4, <1>5
<1>8. \A o \in D : StakeMap(out)[o] \in Stakes
  BY <1>1, <1>7 DEF FoundOf, Entry
<1>9. DOMAIN StakeMap(out) = D /\ StakeMap(out) = [o \in D |-> StakeMap(out)[o]]
  BY <1>5
<1>10. StakeMap(out) \in [D -> Stakes]
  BY <1>8, <1>9
<1> QED
  BY <1>3, <1>6, <1>7, <1>9, <1>10

----------------------------------------------------------------------------
(* The invariant.                                                          *)

\* A request that no longer waits for the pool has the stakes of the last
\* walk, which is done: only a request can start another.
Given ==
    request.st \in {"open", "answered"} /\ request.waiting \intersect {"known", "pool"} = {} =>
      walk.st = "done" /\ request.map = StakeMap(walk.out)

\* It has the rows its address was asked for with.
HistoryGiven ==
    request.st \in {"open", "answered"} /\ request.addr # NoAddress =>
      request.addr \in Address /\ request.history = RecentForOrch(request.addr, request.had)

\* The resolver is asked about one orch.
Asked == "resolve" \in request.waiting => request.addr \in Address

RInv == WInv /\ TypeOK /\ Given /\ HistoryGiven /\ Asked

\* The empty request, and the addresses there are.
LEMMA RequestFacts ==
    ASSUME TypeOK
    PROVE  /\ NoRequest \in Request /\ NoRequest.st = "none" /\ NoRequest.waiting = {}
           /\ NoRequest.addr = NoAddress
           /\ \A o \in Orchs : Known(o) \in Address
           /\ \A a \in Address : a # NoAddress
           /\ \A a \in Address, n \in Nat : RecentForOrch(a, n) \in SUBSET Nat
           /\ StakeMap(walk.out) \in UNION {[S -> Stakes] : S \in SUBSET Orchs}
<1>1. <<>> \in UNION {[S -> Stakes] : S \in SUBSET Orchs}
  <2>1. <<>> \in [{} -> Stakes]
    OBVIOUS
  <2> QED
    BY <2>1
<1>2. NoRequest \in Request /\ NoRequest.st = "none" /\ NoRequest.waiting = {}
      /\ NoRequest.addr = NoAddress
  BY <1>1 DEF NoRequest, Request
<1>3. /\ \A o \in Orchs : Known(o) \in Address
      /\ \A a \in Address : a # NoAddress
  BY RosterAssumption, WalkAssumption DEF Known, Address, NoAddress
<1>4. \A a \in Address, n \in Nat : RecentForOrch(a, n) \in SUBSET Nat
  BY DEF RecentForOrch
<1>5. walk.out \in Seq(Entry)
  BY PoolFacts DEF TypeOK
<1> QED
  BY <1>2, <1>3, <1>4, <1>5, StakeMapFacts

----------------------------------------------------------------------------
(* The sources change.                                                     *)

\* A step that leaves the request and a finished walk alone.
LEMMA SourceStep ==
    ASSUME RInv, WInv', request' = request, walk.st = "done" => walk' = walk
    PROVE  RInv'
<1>1. TypeOK'
  BY DEF RInv, TypeOK, WInv
<1>2. Given'
  BY DEF RInv, Given
<1>3. HistoryGiven' /\ Asked'
  BY DEF RInv, HistoryGiven, Asked
<1> QED
  BY <1>1, <1>2, <1>3 DEF RInv

\* The walk or the chain moves under the request that waits.
LEMMA WalkOrChain == RInv /\ (WalkStep \/ Chain) /\ request' = request => RInv'
<1> SUFFICES ASSUME RInv, WalkStep \/ Chain, request' = request PROVE RInv'
  OBVIOUS
<1>1. WInv'
  BY ChainStep, WalkStepKeeps DEF RInv
<1>2. walk.st = "done" => walk' = walk
  BY DEF WalkStep, GetFirst, GetStake, GetNext, ReadFails, Walking, Steps,
     Chain, Leave, Place, Touch
<1> QED
  BY <1>1, <1>2, SourceStep

----------------------------------------------------------------------------
(* The requests.                                                           *)

\* The pool is asked for: a walk that runs is shared, or a new one starts.
LEMMA AskPoolFacts ==
    ASSUME WInv, pool' = pool, AskPool
    PROVE  WInv'
  BY StillStep, StartStep DEF AskPool

\* listOrchs begins with the resolver's list.
LEMMA AskListStep == RInv /\ AskList => RInv'
<1> SUFFICES ASSUME RInv, AskList PROVE RInv'
  OBVIOUS
<1>1. /\ request' = [NoRequest EXCEPT !.st = "open", !.waiting = {"known"}]
      /\ pool' = pool /\ UNCHANGED walkVars
  BY DEF AskList
<1>2. WInv'
  BY <1>1, StillStep DEF RInv
<1>3. /\ request' \in Request /\ request'.st = "open" /\ request'.waiting = {"known"}
      /\ request'.addr = NoAddress
  BY <1>1, RequestFacts DEF RInv, Request, Source
<1>4. TypeOK'
  BY <1>2, <1>3 DEF TypeOK, WInv
<1> QED
  BY <1>2, <1>3, <1>4 DEF RInv, Given, HistoryGiven, Asked

\* getOrch asks its four sources at once.
LEMMA AskOneStep ==
    ASSUME RInv, NEW a \in Address, NEW n \in Rows, AskOne(a, n)
    PROVE  RInv'
<1>1. PICK q : q = [NoRequest EXCEPT !.st = "open", !.addr = a, !.had = n,
                                     !.history = RecentForOrch(a, n)]
  OBVIOUS
<1>2. /\ pool' = pool
      /\ \/ /\ Cached /\ UNCHANGED walkVars
            /\ request' = [q EXCEPT !.waiting = {"resolve", "uris"},
                                    !.map = StakeMap(walk.out)]
         \/ /\ AskPool
            /\ request' = [q EXCEPT !.waiting = {"resolve", "uris"} \union {"pool"}]
  BY <1>1 DEF AskOne
<1>3. n \in Nat /\ RecentForOrch(a, n) \in SUBSET Nat /\ a # NoAddress
  BY RosterAssumption, RequestFacts DEF RInv
<1>4. /\ q \in Request /\ q.st = "open" /\ q.addr = a /\ q.had = n
      /\ q.history = RecentForOrch(a, n)
  BY <1>1, <1>3, RequestFacts DEF RInv, Request
<1>5. WInv'
  BY <1>2, StillStep, AskPoolFacts DEF RInv
<1>6. PICK m : m = StakeMap(walk.out)
  OBVIOUS
<1>7. CASE /\ Cached /\ UNCHANGED walkVars
           /\ request' = [q EXCEPT !.waiting = {"resolve", "uris"}, !.map = m]
  <2>1. m \in UNION {[S -> Stakes] : S \in SUBSET Orchs}
    BY <1>6, RequestFacts DEF RInv
  <2>2. /\ request' \in Request /\ request'.st = "open" /\ request'.map = m
        /\ request'.waiting = {"resolve", "uris"}
        /\ request'.addr = a /\ request'.had = n /\ request'.history = q.history
    BY <1>4, <1>7, <2>1 DEF Request, Source
  <2>3. walk' = walk /\ walk.st = "done"
    BY <1>7 DEF walkVars, Cached
  <2>4. TypeOK'
    BY <1>5, <2>2 DEF TypeOK, WInv
  <2>5. Given' /\ HistoryGiven' /\ Asked'
    BY <1>4, <1>6, <2>2, <2>3 DEF Given, HistoryGiven, Asked
  <2> QED
    BY <1>5, <2>4, <2>5 DEF RInv
<1>8. CASE /\ AskPool
           /\ request' = [q EXCEPT !.waiting = {"resolve", "uris"} \union {"pool"}]
  <2>1. /\ request' \in Request /\ request'.st = "open" /\ "pool" \in request'.waiting
        /\ request'.addr = a /\ request'.had = n /\ request'.history = q.history
    BY <1>4, <1>8 DEF Request, Source
  <2>2. TypeOK'
    BY <1>5, <2>1 DEF TypeOK, WInv
  <2>3. Given' /\ HistoryGiven' /\ Asked'
    BY <1>4, <2>1 DEF Given, HistoryGiven, Asked
  <2> QED
    BY <1>5, <2>2, <2>3 DEF RInv
<1> QED
  BY <1>2, <1>6, <1>7, <1>8

\* One of the sources that a request waits for answers, and its answer is put
\* into r.
LEMMA GotFacts ==
    ASSUME NEW r \in Request, NEW s \in r.waiting, r.st = "open"
    PROVE  /\ Got(s, r) \in Request
           /\ Got(s, r).st \in {"open", "answered"}
           /\ Got(s, r).waiting = r.waiting \ {s}
           /\ Got(s, r).waiting # {} <=> Got(s, r).st = "open"
           /\ Got(s, r).addr = r.addr /\ Got(s, r).had = r.had
           /\ Got(s, r).history = r.history /\ Got(s, r).map = r.map
           /\ Got(s, r).found = r.found
<1>1. PICK st : st = IF r.waiting = {s} THEN "answered" ELSE r.st
  OBVIOUS
<1>2. PICK w : w = r.waiting \ {s}
  OBVIOUS
<1>3. Got(s, r) = [r EXCEPT !.waiting = w, !.st = st]
  BY <1>1, <1>2 DEF Got
<1>4. w \in SUBSET Source
  BY <1>2 DEF Request
<1>5. st \in {"open", "answered"} /\ (w # {} <=> st = "open")
  BY <1>1, <1>2
<1>6. PICK q : q = [r EXCEPT !.waiting = w, !.st = st]
  OBVIOUS
<1>7. /\ q \in Request /\ q.st = st /\ q.waiting = w
      /\ q.addr = r.addr /\ q.had = r.had /\ q.history = r.history
      /\ q.map = r.map /\ q.found = r.found
  BY <1>4, <1>5, <1>6 DEF Request
<1> QED
  BY <1>2, <1>3, <1>5, <1>6, <1>7

\* One of the sources answers the request that waits for it.
LEMMA GotStep ==
    ASSUME RInv, UNCHANGED <<pool, walkVars>>, NEW s \in {"resolve", "pool", "uris"},
           Waits(s), NEW r \in Request, request' = Got(s, r), r.st = "open",
           r.waiting = request.waiting, r.addr = request.addr, r.had = request.had,
           r.history = request.history,
           IF s = "pool" THEN walk.st = "done" /\ r.map = StakeMap(walk.out)
                         ELSE r.map = request.map
    PROVE  RInv'
<1>1. request.st = "open" /\ s \in r.waiting
  BY DEF Waits
<1>2. /\ request' \in Request
      /\ request'.st \in {"open", "answered"}
      /\ request'.waiting = request.waiting \ {s}
      /\ request'.waiting # {} <=> request'.st = "open"
      /\ request'.addr = request.addr /\ request'.had = request.had
      /\ request'.history = request.history /\ request'.map = r.map
  BY <1>1, GotFacts
<1>3. WInv' /\ walk' = walk
  BY StillStep DEF RInv, walkVars
<1>4. TypeOK'
  BY <1>2, <1>3 DEF TypeOK, WInv
<1>5. HistoryGiven' /\ Asked'
  BY <1>1, <1>2 DEF RInv, HistoryGiven, Asked
<1>6. Given'
  <2>1. CASE s = "pool"
    BY <1>2, <1>3, <2>1 DEF Given
  <2>2. CASE s # "pool"
    <3>1. request'.waiting \intersect {"known", "pool"} = {} =>
            request.waiting \intersect {"known", "pool"} = {}
      BY <1>2, <2>2
    <3> QED
      BY <1>1, <1>2, <1>3, <2>2, <3>1 DEF RInv, Given
  <2> QED
    BY <2>1, <2>2
<1> QED
  BY <1>3, <1>4, <1>5, <1>6 DEF RInv

\* resolveByAddress answers.
LEMMA ResolveAnsweredStep == RInv /\ ResolveAnswered => RInv'
<1> SUFFICES ASSUME RInv, ResolveAnswered PROVE RInv'
  OBVIOUS
<1>1. request \in Request /\ request.st = "open" /\ Waits("resolve")
  BY DEF ResolveAnswered, Waits, RInv, TypeOK
<1>2. PICK as \in {{}, {Known(request.addr.orch)}} :
        request' = Got("resolve", [request EXCEPT !.found = as])
  BY DEF ResolveAnswered
<1>3. request.addr \in Address
  BY <1>1 DEF RInv, Asked, Waits
<1>4. as \in SUBSET Address
  <2>1. Known(request.addr.orch) \in Address
    BY <1>3, RequestFacts DEF RInv, Address
  <2> QED
    BY <1>2, <2>1
<1>5. PICK r : r = [request EXCEPT !.found = as]
  OBVIOUS
<1>6. /\ r \in Request /\ r.st = "open" /\ r.waiting = request.waiting
      /\ r.addr = request.addr /\ r.had = request.had
      /\ r.history = request.history /\ r.map = request.map
  BY <1>1, <1>4, <1>5 DEF Request
<1>7. request' = Got("resolve", r) /\ UNCHANGED <<pool, walkVars>>
  BY <1>2, <1>5 DEF ResolveAnswered
<1> QED
  BY <1>1, <1>6, <1>7, GotStep

\* The walk's result answers the request.
LEMMA PoolAnsweredStep == RInv /\ PoolAnswered => RInv'
<1> SUFFICES ASSUME RInv, PoolAnswered PROVE RInv'
  OBVIOUS
<1>1. /\ request \in Request /\ request.st = "open" /\ Waits("pool")
      /\ walk.st = "done" /\ UNCHANGED <<pool, walkVars>>
  BY DEF PoolAnswered, Waits, RInv, TypeOK
<1>2. PICK m, r : m = StakeMap(walk.out) /\ r = [request EXCEPT !.map = m]
  OBVIOUS
<1>3. m \in UNION {[S -> Stakes] : S \in SUBSET Orchs}
  BY <1>2, RequestFacts DEF RInv
<1>4. /\ r \in Request /\ r.st = "open" /\ r.waiting = request.waiting
      /\ r.addr = request.addr /\ r.had = request.had
      /\ r.history = request.history /\ r.map = m
  BY <1>1, <1>2, <1>3 DEF Request
<1>5. request' = Got("pool", r)
  BY <1>2 DEF PoolAnswered
<1> QED
  BY <1>1, <1>2, <1>4, <1>5, GotStep

\* The serviceURIs answer the request.
LEMMA UrisAnsweredStep == RInv /\ UrisAnswered => RInv'
<1> SUFFICES ASSUME RInv, UrisAnswered PROVE RInv'
  OBVIOUS
<1>1. /\ request \in Request /\ request.st = "open" /\ Waits("uris")
      /\ UNCHANGED <<pool, walkVars>> /\ request' = Got("uris", request)
  BY DEF UrisAnswered, Waits, RInv, TypeOK
<1>2. PICK r : r = request
  OBVIOUS
<1>3. request' = Got("uris", r)
  BY <1>1, <1>2
<1> QED
  BY <1>1, <1>2, <1>3, GotStep

\* A source throws: the request is rejected.
LEMMA RejectsStep == RInv /\ Rejects => RInv'
<1> SUFFICES ASSUME RInv, Rejects PROVE RInv'
  OBVIOUS
<1>1. /\ request' = [NoRequest EXCEPT !.st = "rejected"]
      /\ pool' = pool /\ UNCHANGED walkVars
  BY DEF Rejects
<1>2. WInv'
  BY <1>1, StillStep DEF RInv
<1>3. request' \in Request /\ request'.st = "rejected" /\ request'.waiting = {}
  BY <1>1, RequestFacts DEF RInv, Request
<1>4. TypeOK'
  BY <1>2, <1>3 DEF TypeOK, WInv
<1> QED
  BY <1>2, <1>3, <1>4 DEF RInv, Given, HistoryGiven, Asked

\* The resolver's list answers, and the other sources are asked.
LEMMA KnownAnsweredStep ==
    ASSUME RInv, NEW os \in SUBSET Orchs, KnownAnswered({Known(o) : o \in os})
    PROVE  RInv'
<1>1. PICK as, more, told :
        /\ as = {Known(o) : o \in os}
        /\ more = IF as = {} THEN {} ELSE {"uris"}
        /\ told = [request EXCEPT !.found = as]
  OBVIOUS
<1>2. /\ pool' = pool /\ request.st = "open"
      /\ \/ /\ Cached /\ UNCHANGED walkVars
            /\ request' = [told EXCEPT !.map = StakeMap(walk.out), !.waiting = more,
                                !.st = IF more = {} THEN "answered" ELSE told.st]
         \/ /\ AskPool
            /\ request' = [told EXCEPT !.waiting = more \union {"pool"}]
  BY <1>1 DEF KnownAnswered, Waits
<1>3. request \in Request /\ as \in SUBSET Address
  <2>1. \A o \in os : Known(o) \in Address
    BY RequestFacts DEF RInv
  <2> QED
    BY <1>1, <2>1 DEF RInv, TypeOK
<1>4. /\ told \in Request /\ told.st = "open" /\ told.addr = request.addr
      /\ told.had = request.had /\ told.history = request.history
      /\ more \in SUBSET {"uris"}
  BY <1>1, <1>2, <1>3 DEF Request
<1>5. WInv'
  BY <1>2, StillStep, AskPoolFacts DEF RInv
<1>6. PICK m, st : m = StakeMap(walk.out) /\ st = IF more = {} THEN "answered" ELSE told.st
  OBVIOUS
<1>7. CASE /\ Cached /\ UNCHANGED walkVars
           /\ request' = [told EXCEPT !.map = m, !.waiting = more, !.st = st]
  <2>1. m \in UNION {[S -> Stakes] : S \in SUBSET Orchs}
    BY <1>6, RequestFacts DEF RInv
  <2>2. st \in {"open", "answered"} /\ (more # {} <=> st = "open")
    BY <1>4, <1>6
  <2>3. more \in SUBSET Source
    BY <1>4 DEF Source
  <2>4. /\ request' \in Request /\ request'.st = st /\ request'.map = m
        /\ request'.waiting = more /\ request'.addr = request.addr
        /\ request'.had = request.had /\ request'.history = request.history
    BY <1>4, <1>7, <2>1, <2>2, <2>3 DEF Request
  <2>5. walk' = walk /\ walk.st = "done"
    BY <1>7 DEF walkVars, Cached
  <2>6. TypeOK'
    BY <1>5, <2>2, <2>4 DEF TypeOK, WInv
  <2>7. Given' /\ HistoryGiven' /\ Asked'
    BY <1>2, <1>4, <1>6, <2>4, <2>5 DEF RInv, Given, HistoryGiven, Asked
  <2> QED
    BY <1>5, <2>6, <2>7 DEF RInv
<1>8. CASE AskPool /\ request' = [told EXCEPT !.waiting = more \union {"pool"}]
  <2>1. PICK w : w = more \union {"pool"}
    OBVIOUS
  <2>2. w \in SUBSET Source /\ "pool" \in w /\ "resolve" \notin w
    BY <1>4, <2>1 DEF Source
  <2>3. /\ request' \in Request /\ request'.st = "open" /\ request'.waiting = w
        /\ request'.addr = request.addr
        /\ request'.had = request.had /\ request'.history = request.history
    BY <1>4, <1>8, <2>1, <2>2 DEF Request
  <2>4. TypeOK'
    BY <1>5, <2>2, <2>3 DEF TypeOK, WInv
  <2>5. Given' /\ HistoryGiven' /\ Asked'
    BY <1>2, <2>2, <2>3 DEF RInv, Given, HistoryGiven, Asked
  <2> QED
    BY <1>5, <2>4, <2>5 DEF RInv
<1> QED
  BY <1>2, <1>6, <1>7, <1>8

\* The invariant holds at the start, without a request.
LEMMA InitRInv == Init => RInv
<1> SUFFICES ASSUME Init PROVE RInv
  OBVIOUS
<1>1. WInv /\ request = NoRequest
  BY InitWalk DEF Init
<1>2. <<>> \in UNION {[S -> Stakes] : S \in SUBSET Orchs}
  <2>1. <<>> \in [{} -> Stakes]
    OBVIOUS
  <2> QED
    BY <2>1
<1>3. request \in Request /\ request.st = "none" /\ request.waiting = {}
  BY <1>1, <1>2 DEF NoRequest, Request
<1>4. TypeOK
  BY <1>1, <1>3 DEF TypeOK, WInv
<1> QED
  BY <1>1, <1>3, <1>4 DEF RInv, Given, HistoryGiven, Asked

\* Every step keeps the invariant.
LEMMA NextRInv == RInv /\ [Next]_vars => RInv'
<1> SUFFICES ASSUME RInv, [Next]_vars PROVE RInv'
  OBVIOUS
<1>1. CASE Ask
  BY <1>1, AskListStep, AskOneStep DEF Ask
<1>2. CASE Progress
  BY <1>2, KnownAnsweredStep, ResolveAnsweredStep, PoolAnsweredStep, UrisAnsweredStep,
     RejectsStep DEF Progress
<1>3. CASE (WalkStep \/ Chain) /\ UNCHANGED request
  BY <1>3, WalkOrChain
<1>4. CASE UNCHANGED vars
  <2>1. pool' = pool /\ UNCHANGED walkVars /\ request' = request /\ walk' = walk
    BY <1>4 DEF vars, walkVars
  <2>2. WInv'
    BY <2>1, StillStep DEF RInv
  <2> QED
    BY <2>1, <2>2, SourceStep
<1> QED
  BY <1>1, <1>2, <1>3, <1>4 DEF Next

----------------------------------------------------------------------------
(* The theorems.                                                           *)

\* What the walk has collected, and what the requests were given.
THEOREM Invariance == Spec => []RInv
<1> QED
  BY InitRInv, NextRInv, PTL DEF Spec

\* Type correctness of the pool, the walk and the request.
THEOREM TypeCorrect == Spec => []TypeOK
<1>1. RInv => TypeOK
  BY DEF RInv
<1> QED
  BY <1>1, Invariance, PTL

\* A finished walk is right about everyone who did not change while it
\* stood, unless the member it stood on left or moved (viem.ts:189-234).
THEOREM WalkReportsTheSteady == Spec => []SteadyReported
<1>1. RInv => SteadyReported
  BY WalkIsSteady DEF RInv
<1> QED
  BY <1>1, Invariance, PTL

\* An answered request shows an orch that did not change as it is
\* (routing/index.ts:86-108, 110-147).
THEOREM AnswersShowTheSteady == Spec => []ShownAsStaked
<1>1. RInv => ShownAsStaked
  <2> SUFFICES ASSUME RInv, request.st = "answered", ~torn, ~Walking,
                      NEW capability \in BOOLEAN, NEW r \in Listed(capability),
                      r.address.orch \notin touched
               PROVE  /\ r.totalStake = {e.stake : e \in Of(r.address.orch)}
                      /\ r.active <=> \E e \in Range(pool) : e.orch = r.address.orch
    BY DEF ShownAsStaked
  <2>1. PICK a \in request.found : r = Row(a)
    BY DEF Listed
  <2>2. a \in Address
    BY DEF RInv, TypeOK, Request
  <2>3. PICK o : o = a.orch
    OBVIOUS
  <2>4. /\ o \in Orchs /\ r.address.orch = o
        /\ r.totalStake = StakeOf(a) /\ (r.active <=> StakeOf(a) # {})
    BY <2>1, <2>2, <2>3 DEF Row, Address
  <2>5. walk.st = "done" /\ request.map = StakeMap(walk.out)
    <3>1. request.waiting = {}
      BY DEF RInv, TypeOK
    <3> QED
      BY <3>1 DEF RInv, Given
  <2>6. Once(walk.out, o) /\ Reported(walk.out, o) = Of(o)
    BY <2>4, <2>5, DoneFacts DEF RInv
  <2>7. PICK m : m = StakeMap(walk.out)
    OBVIOUS
  <2>8. /\ o \in DOMAIN m <=> FoundOf(walk.out, o) # {}
        /\ o \in DOMAIN m => \E i \in FoundOf(walk.out, o) : m[o] = walk.out[i].stake
    <3>1. walk.out \in Seq(Entry)
      BY PoolFacts DEF RInv, WInv
    <3> QED
      BY <2>7, <3>1, StakeMapFacts
  <2>9. StakeOf(a) = {m[x] : x \in {o} \intersect DOMAIN m}
    <3>1. Lower(a).orch = o
      BY <2>2, <2>3 DEF Lower, Address
    <3> QED
      BY <2>5, <2>7, <3>1 DEF StakeOf
  <2>10. Of(o) # {} <=> \E e \in Range(pool) : e.orch = o
    BY DEF Of
  <2>11. CASE FoundOf(walk.out, o) = {}
    <3>1. Of(o) = {} /\ StakeOf(a) = {}
      BY <2>6, <2>8, <2>9, <2>11 DEF Reported
    <3>2. {e.stake : e \in Of(o)} = {}
      BY <3>1
    <3>3. ~r.active /\ r.totalStake = {}
      BY <2>4, <3>1
    <3> QED
      BY <2>4, <2>10, <3>1, <3>2, <3>3
  <2>12. CASE FoundOf(walk.out, o) # {}
    <3>1. PICK i \in FoundOf(walk.out, o) : m[o] = walk.out[i].stake
      BY <2>8, <2>12
    <3>2. Of(o) = {walk.out[i]}
      BY <2>6, <3>1 DEF Once, Reported
    <3>3. StakeOf(a) = {m[o]}
      BY <2>8, <2>9, <2>12
    <3>4. {e.stake : e \in Of(o)} = {walk.out[i].stake}
      BY <3>2
    <3> QED
      <4>1. r.totalStake = {m[o]} /\ r.active
        BY <2>4, <3>3
      <4>2. \E e \in Range(pool) : e.orch = o
        BY <2>10, <3>2
      <4> QED
        BY <2>4, <3>1, <3>4, <4>1, <4>2
  <2> QED
    BY <2>11, <2>12
<1> QED
  BY <1>1, Invariance, PTL

\* Asked for in lower case, an orch is shown with its newest rows
\* (routingObservations.ts:26-39, handleGetOrch.ts:28).
THEOREM NewestRowsShown == Spec => []HistoryShown
<1>1. RInv => HistoryShown
  <2> SUFFICES ASSUME RInv, AnsweredOne, request.addr.case = "lower"
               PROVE  /\ \A i \in (1 .. request.had) \ request.history :
                            /\ Cardinality(request.history) = HistoryLimit
                            /\ \A j \in request.history : i < j
                      /\ NotFound => request.had = 0
    BY DEF HistoryShown
  <2>1. PICK n, h : n = request.had /\ h = request.history
    OBVIOUS
  <2>2. n \in Nat /\ HistoryLimit \in Nat /\ HistoryLimit >= 1
    BY <2>1, RosterAssumption DEF RInv, TypeOK, Request
  <2>3. h = {i \in 1 .. n : n - i < HistoryLimit}
    BY <2>1 DEF RInv, HistoryGiven, AnsweredOne, RecentForOrch
  <2>4. ASSUME NEW i \in (1 .. n) \ h
        PROVE  Cardinality(h) = HistoryLimit /\ \A j \in h : i < j
    <3>1. n - i >= HistoryLimit
      BY <2>2, <2>3, <2>4
    <3>2. PICK a : a = n - HistoryLimit + 1
      OBVIOUS
    <3>3. a \in 1 .. n /\ a \in Int /\ n \in Int
      BY <2>2, <3>1, <3>2
    <3>4. h = a .. n
      <4>1. \A j \in 1 .. n : n - j < HistoryLimit <=> j >= a
        BY <2>2, <3>2
      <4>2. \A j : j \in h <=> j \in a .. n
        BY <2>2, <2>3, <3>3, <4>1
      <4> QED
        BY <4>2
    <3>5. Cardinality(a .. n) = n - a + 1
      BY <3>3, FS_Interval
    <3>6. n - a + 1 = HistoryLimit
      BY <2>2, <3>2
    <3>7. \A j \in h : i < j
      BY <2>2, <2>3, <3>1
    <3> QED
      BY <3>4, <3>5, <3>6, <3>7
  <2>5. NotFound => n = 0
    <3> SUFFICES ASSUME h = {}, n # 0 PROVE FALSE
      BY <2>1 DEF NotFound
    <3>1. n \in 1 .. n /\ n - n < HistoryLimit
      BY <2>2
    <3> QED
      BY <2>3, <3>1
  <2> QED
    BY <2>1, <2>4, <2>5
<1> QED
  BY <1>1, Invariance, PTL
\* When an address is answered with 404: the resolver does not know the orch,
\* and the mirror has nothing of it or is asked in other than lower case
\* (routing/index.ts:114, handleGetOrch.ts:28).
NotFoundExactly ==
    AnsweredOne =>
      (NotFound <=> /\ request.found = {}
                    /\ request.addr.case = "mixed" \/ request.had = 0)

\* Capitals in the address hide what the mirror has of an orch, always: what
\* handleGetOrch.ts:4-5 says of 404 holds for lower case only.
THEOREM CapitalsHideHistory == Spec => []NotFoundExactly
<1>1. RInv => NotFoundExactly
  <2> SUFFICES ASSUME RInv, AnsweredOne
               PROVE  request.history = {}
                        <=> request.addr.case = "mixed" \/ request.had = 0
    BY DEF NotFoundExactly, NotFound
  <2>1. PICK n, a, h : n = request.had /\ a = request.addr /\ h = request.history
    OBVIOUS
  <2>2. n \in Nat /\ HistoryLimit \in Nat /\ HistoryLimit >= 1
    BY <2>1, RosterAssumption DEF RInv, TypeOK, Request
  <2>3. a \in Address /\ h = RecentForOrch(a, n)
    BY <2>1 DEF RInv, HistoryGiven, AnsweredOne
  <2>4. a.case = "lower" \/ a.case = "mixed"
    BY <2>3 DEF Address, Spelling
  <2>5. CASE a.case = "mixed"
    BY <2>1, <2>3, <2>5 DEF RecentForOrch
  <2>6. CASE a.case = "lower"
    <3>1. h = {i \in 1 .. n : n - i < HistoryLimit}
      BY <2>3, <2>6 DEF RecentForOrch
    <3>2. n = 0 => h = {}
      BY <3>1
    <3>3. n # 0 => n \in h
      <4>1. n # 0 => n \in 1 .. n /\ n - n < HistoryLimit
        BY <2>2
      <4> QED
        BY <3>1, <4>1
    <3> QED
      BY <2>1, <2>6, <3>2, <3>3
  <2> QED
    BY <2>4, <2>5, <2>6
<1> QED
  BY <1>1, Invariance, PTL
=============================================================================
