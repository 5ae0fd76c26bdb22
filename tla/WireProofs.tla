------------------------------ MODULE WireProofs ------------------------------
(***************************************************************************)
(* Proofs about the generated codecs: what one side encodes is to the      *)
(* other what Meaning says, whatever the message and its value, and        *)
(* whichever version either side is built from.                            *)
(*                                                                         *)
(* The argument: the entries of a message are those of its fields, one     *)
(* after the other, and the reader's loop over the entries of a field puts *)
(* that field together and leaves the others alone.  Both are inductions   *)
(* over a length, for which Induction gives the means.  A message has      *)
(* messages in it four deep: a definition or a lemma whose name ends in a  *)
(* digit is about that many levels, and follows from the level below.      *)
(***************************************************************************)
EXTENDS Wire, WellFoundedInduction, TLAPS

----------------------------------------------------------------------------
(* Induction over the natural numbers, for a set of them.                  *)

\* A nonempty set of naturals has a least element.
LEMMA LeastNatural ==
    ASSUME NEW T \in SUBSET Nat, T # {}
    PROVE  \E n \in T : \A m \in T : n <= m
<1> DEFINE R == OpToRel(<, Nat)
<1>1. \A x, y \in Nat : <<y, x>> \in R <=> y < x
  BY DEF OpToRel
<1>2. IsWellFoundedOn(R, Nat)
  BY NatLessThanWellFounded
<1>3. PICK n \in T : \A y \in Nat : <<y, n>> \in R => ~(y \in T)
  BY <1>2, WFMin
<1>4. \A m \in T : ~(m < n)
  BY <1>1, <1>3
<1> QED
  BY <1>4

\* A set of naturals with zero and with the successors of its members is all
\* of them.
LEMMA Induction ==
    ASSUME NEW S \in SUBSET Nat, 0 \in S, \A n \in S : n + 1 \in S
    PROVE  S = Nat
<1> SUFFICES ASSUME Nat \ S # {} PROVE FALSE
  OBVIOUS
<1>1. PICK n \in Nat \ S : \A m \in Nat \ S : n <= m
  BY LeastNatural
<1>2. n - 1 \in Nat /\ n - 1 \in S
  BY <1>1
<1>3. n - 1 + 1 = n
  BY <1>1
<1> QED
  BY <1>1, <1>2, <1>3

----------------------------------------------------------------------------
(* The bytes of a message: those of its fields, one after the other.       *)

\* What FlattenSeq computes on its way, the first i pieces joined.
Joins(F, c, n) == F = [i \in 1 .. n |-> IF i = 1 THEN c[i] ELSE F[i - 1] \o c[i]]
Joined(c) ==
    LET flatten[i \in 1 .. Len(c)] == IF i = 1 THEN c[i] ELSE flatten[i - 1] \o c[i]
    IN  flatten

\* There is such a function for every number of pieces.
LEMMA JoinsExists ==
    ASSUME NEW c, NEW N \in Nat
    PROVE  \E F : Joins(F, c, N)
<1> DEFINE S == {n \in Nat : \E F : Joins(F, c, n)}
<1>1. 0 \in S
  <2>1. PICK F : F = [i \in 1 .. 0 |-> c[i]]
    OBVIOUS
  <2>2. Joins(F, c, 0)
    BY <2>1 DEF Joins
  <2> QED
    BY <2>2
<1>2. ASSUME NEW n \in S PROVE n + 1 \in S
  <2>1. PICK F : Joins(F, c, n)
    OBVIOUS
  <2>2. PICK x : x = IF n = 0 THEN c[1] ELSE F[n] \o c[n + 1]
    OBVIOUS
  <2>3. PICK G : G = [i \in 1 .. n + 1 |-> IF i = n + 1 THEN x ELSE F[i]]
    OBVIOUS
  <2>4. \A i \in 1 .. n + 1 : G[i] = IF i = 1 THEN c[i] ELSE G[i - 1] \o c[i]
    <3> SUFFICES ASSUME NEW i \in 1 .. n + 1
                 PROVE  G[i] = IF i = 1 THEN c[i] ELSE G[i - 1] \o c[i]
      OBVIOUS
    <3>1. CASE i = n + 1
      BY <2>2, <2>3, <3>1
    <3>2. CASE i # n + 1
      <4>1. i \in 1 .. n /\ (i # 1 => i - 1 \in 1 .. n)
        BY <3>2
      <4>2. F[i] = IF i = 1 THEN c[i] ELSE F[i - 1] \o c[i]
        BY <2>1, <4>1 DEF Joins
      <4>3. G[i] = F[i] /\ (i # 1 => G[i - 1] = F[i - 1])
        BY <2>3, <4>1
      <4> QED
        BY <4>2, <4>3
    <3> QED
      BY <3>1, <3>2
  <2>5. G = [i \in 1 .. n + 1 |-> G[i]]
    BY <2>3
  <2>6. Joins(G, c, n + 1)
    BY <2>4, <2>5 DEF Joins
  <2> QED
    BY <2>6
<1>3. S = Nat
  BY <1>1, <1>2, Induction
<1> QED
  BY <1>3

\* FlattenSeq is the last value of that function.
LEMMA FlattenJoins ==
    ASSUME NEW c, Len(c) \in Nat, Len(c) # 0
    PROVE  Joins(Joined(c), c, Len(c)) /\ FlattenSeq(c) = Joined(c)[Len(c)]
<1>1. \E F : Joins(F, c, Len(c))
  BY JoinsExists
<1>2. Joins(Joined(c), c, Len(c))
  BY <1>1 DEF Joins, Joined
<1>3. FlattenSeq(c) = Joined(c)[Len(c)]
  BY DEF FlattenSeq, Joined
<1> QED
  BY <1>2, <1>3

\* The first n pieces, one after the other: where each one stands in E.
Laid(c, n, E, off) ==
    /\ \A i \in 1 .. n : off[i] \in Nat /\ off[i] + Len(c[i]) <= Len(E)
    /\ \A i \in 1 .. n : \A k \in 1 .. Len(c[i]) : E[off[i] + k] = c[i][k]
    /\ \A j \in 1 .. Len(E) : \E i \in 1 .. n : \E k \in 1 .. Len(c[i]) : j = off[i] + k
    /\ \A i, h \in 1 .. n : i < h => off[i] + Len(c[i]) <= off[h]

\* One more piece goes after those before it.
LEMMA LaidStep ==
    ASSUME NEW X, NEW n \in Nat, NEW c, \A i \in 1 .. n + 1 : c[i] \in Seq(X),
           NEW E \in Seq(X), NEW off, off[n + 1] = Len(E), Laid(c, n, E, off)
    PROVE  Laid(c, n + 1, E \o c[n + 1], off)
<1>1. PICK t : t = c[n + 1]
  OBVIOUS
<1>2. t \in Seq(X)
  <2>1. n + 1 \in 1 .. n + 1
    OBVIOUS
  <2> QED
    BY ONLY <1>1, <2>1, \A i \in 1 .. n + 1 : c[i] \in Seq(X)
<1>3. PICK G : G = E \o t
  OBVIOUS
<1>4. /\ Len(E) \in Nat /\ Len(t) \in Nat /\ Len(G) = Len(E) + Len(t)
      /\ \A j \in 1 .. Len(E) : G[j] = E[j]
      /\ \A k \in 1 .. Len(t) : G[Len(E) + k] = t[k]
  BY ONLY <1>2, <1>3, E \in Seq(X)
<1>5. \A i \in 1 .. n + 1 : i \in 1 .. n \/ i = n + 1
  BY ONLY n \in Nat
<1>6. \A i \in 1 .. n : i \in 1 .. n + 1 /\ Len(c[i]) \in Nat
  <2>1. \A i \in 1 .. n : i \in 1 .. n + 1
    BY ONLY n \in Nat
  <2>2. \A i \in 1 .. n : c[i] \in Seq(X)
    BY ONLY <2>1, \A i \in 1 .. n + 1 : c[i] \in Seq(X)
  <2> QED
    BY ONLY <2>1, <2>2
<1>7. ASSUME NEW i \in 1 .. n + 1
      PROVE  off[i] \in Nat /\ off[i] + Len(c[i]) <= Len(G)
  <2>1. CASE i = n + 1
    BY ONLY <1>1, <1>4, <2>1, off[n + 1] = Len(E)
  <2>2. CASE i \in 1 .. n
    <3>1. off[i] \in Nat /\ off[i] + Len(c[i]) <= Len(E) /\ Len(c[i]) \in Nat
      BY ONLY <1>6, <2>2, Laid(c, n, E, off) DEF Laid
    <3> QED
      BY ONLY <1>4, <3>1
  <2> QED
    BY <1>5, <2>1, <2>2
<1>8. ASSUME NEW i \in 1 .. n + 1, NEW k \in 1 .. Len(c[i])
      PROVE  G[off[i] + k] = c[i][k]
  <2>1. CASE i = n + 1
    BY ONLY <1>1, <1>4, <2>1, off[n + 1] = Len(E), k \in 1 .. Len(c[i])
  <2>2. CASE i \in 1 .. n
    <3>1. off[i] \in Nat /\ off[i] + Len(c[i]) <= Len(E) /\ Len(c[i]) \in Nat
      BY ONLY <1>6, <2>2, Laid(c, n, E, off) DEF Laid
    <3>2. off[i] + k \in 1 .. Len(E)
      BY ONLY <1>4, <3>1, k \in 1 .. Len(c[i])
    <3>3. E[off[i] + k] = c[i][k]
      BY ONLY <2>2, k \in 1 .. Len(c[i]), Laid(c, n, E, off) DEF Laid
    <3> QED
      BY ONLY <1>4, <3>2, <3>3
  <2> QED
    BY <1>5, <2>1, <2>2
<1>9. ASSUME NEW j \in 1 .. Len(G)
      PROVE  \E i \in 1 .. n + 1 : \E k \in 1 .. Len(c[i]) : j = off[i] + k
  <2>1. CASE j <= Len(E)
    <3>1. j \in 1 .. Len(E)
      BY ONLY <1>4, <2>1, j \in 1 .. Len(G)
    <3>2. PICK i \in 1 .. n : \E k \in 1 .. Len(c[i]) : j = off[i] + k
      BY ONLY <3>1, Laid(c, n, E, off) DEF Laid
    <3> QED
      BY ONLY <1>6, <3>2
  <2>2. CASE ~(j <= Len(E))
    <3>1. PICK k : k = j - Len(E)
      OBVIOUS
    <3>2. k \in 1 .. Len(t) /\ j = Len(E) + k
      BY ONLY <1>4, <2>2, <3>1, j \in 1 .. Len(G)
    <3>3. n + 1 \in 1 .. n + 1
      BY ONLY n \in Nat
    <3> QED
      BY ONLY <1>1, <3>2, <3>3, off[n + 1] = Len(E)
  <2> QED
    BY <2>1, <2>2
<1>10. ASSUME NEW i \in 1 .. n + 1, NEW h \in 1 .. n + 1, i < h
       PROVE  off[i] + Len(c[i]) <= off[h]
  <2>1. i \in 1 .. n
    BY ONLY <1>10, n \in Nat, i \in 1 .. n + 1, h \in 1 .. n + 1
  <2>2. CASE h = n + 1
    BY ONLY <2>1, <2>2, off[n + 1] = Len(E), Laid(c, n, E, off) DEF Laid
  <2>3. CASE h \in 1 .. n
    BY ONLY <1>10, <2>1, <2>3, Laid(c, n, E, off) DEF Laid
  <2> QED
    BY <1>5, <2>2, <2>3
<1>11. Laid(c, n + 1, G, off)
  BY ONLY <1>7, <1>8, <1>9, <1>10 DEF Laid
<1> QED
  BY ONLY <1>1, <1>3, <1>11

\* The whole is its pieces, in their order.
LEMMA FlattenLays ==
    ASSUME NEW X, NEW c \in Seq(Seq(X))
    PROVE  /\ FlattenSeq(c) \in Seq(X)
           /\ \E off : Laid(c, Len(c), FlattenSeq(c), off)
<1>0. Len(c) \in Nat /\ \A i \in 1 .. Len(c) : c[i] \in Seq(X)
  OBVIOUS
<1>1. CASE Len(c) = 0
  <2>1. FlattenSeq(c) = c /\ c = <<>>
    BY <1>1 DEF FlattenSeq
  <2>2. Laid(c, Len(c), <<>>, <<>>)
    BY ONLY <1>1 DEF Laid
  <2> QED
    BY <2>1, <2>2
<1>2. CASE Len(c) # 0
  <2>1. PICK N : N = Len(c)
    OBVIOUS
  <2>2. N \in Nat /\ N # 0 /\ \A i \in 1 .. N : c[i] \in Seq(X)
    BY ONLY <1>0, <1>2, <2>1
  <2>3. PICK F : Joins(F, c, N) /\ FlattenSeq(c) = F[N]
    BY ONLY <1>0, <1>2, <2>1, FlattenJoins
  <2>4. PICK off : off = [i \in 1 .. N |-> IF i = 1 THEN 0 ELSE Len(F[i - 1])]
    OBVIOUS
  <2> DEFINE S == {n \in Nat : n + 1 \in 1 .. N =>
                     F[n + 1] \in Seq(X) /\ Laid(c, n + 1, F[n + 1], off)}
  <2>5. 0 \in S
    <3>1. 1 \in 1 .. N /\ c[1] \in Seq(X)
      BY ONLY <2>2
    <3>2. F[1] = c[1] /\ off[1] = 0
      BY ONLY <2>3, <2>4, <3>1 DEF Joins
    <3>3. Laid(c, 0, <<>>, off)
      BY ONLY TRUE DEF Laid
    <3>4. <<>> \in Seq(X) /\ Len(<<>>) = 0 /\ <<>> \o c[1] = c[1]
      BY ONLY <3>1
    <3>5. 0 \in Nat /\ 0 + 1 = 1 /\ \A i \in 1 .. 0 + 1 : c[i] \in Seq(X)
      BY ONLY <3>1
    <3>6. Laid(c, 0 + 1, <<>> \o c[0 + 1], off)
      BY ONLY <3>2, <3>3, <3>4, <3>5, LaidStep
    <3> QED
      BY <3>1, <3>2, <3>4, <3>5, <3>6
  <2>6. ASSUME NEW n \in S PROVE n + 1 \in S
    <3> SUFFICES ASSUME n + 1 + 1 \in 1 .. N
                 PROVE  F[n + 1 + 1] \in Seq(X) /\ Laid(c, n + 1 + 1, F[n + 1 + 1], off)
      OBVIOUS
    <3>1. PICK m : m = n + 1
      OBVIOUS
    <3>0. n \in Nat
      OBVIOUS
    <3>2. m \in Nat /\ m \in 1 .. N /\ m + 1 \in 1 .. N /\ m + 1 # 1 /\ m + 1 - 1 = m
      BY ONLY <2>2, <3>0, <3>1, n + 1 + 1 \in 1 .. N
    <3>3. F[m] \in Seq(X) /\ Laid(c, m, F[m], off)
      BY <3>1, <3>2
    <3>4. F[m + 1] = F[m] \o c[m + 1] /\ off[m + 1] = Len(F[m])
      <4>1. PICK h : h = m + 1
        OBVIOUS
      <4>2. h \in 1 .. N /\ h # 1 /\ h - 1 = m
        BY ONLY <3>2, <4>1
      <4>3. F[h] = F[h - 1] \o c[h]
        BY ONLY <2>3, <4>2 DEF Joins
      <4>4. off[h] = Len(F[h - 1])
        BY ONLY <2>4, <4>2
      <4> QED
        BY ONLY <4>1, <4>2, <4>3, <4>4
    <3>5. \A i \in 1 .. m + 1 : c[i] \in Seq(X)
      <4>1. \A i \in 1 .. m + 1 : i \in 1 .. N
        BY ONLY <2>2, <3>2
      <4> QED
        BY ONLY <2>2, <4>1
    <3>6. Laid(c, m + 1, F[m] \o c[m + 1], off)
      BY ONLY <3>2, <3>3, <3>4, <3>5, LaidStep
    <3>7. F[m] \o c[m + 1] \in Seq(X)
      BY ONLY <2>2, <3>2, <3>3
    <3> QED
      BY ONLY <3>1, <3>4, <3>6, <3>7
  <2>7. S = Nat
    <3> HIDE DEF S
    <3>1. S \in SUBSET Nat
      BY DEF S
    <3> QED
      BY ONLY <2>5, <2>6, <3>1, Induction
  <2>8. PICK n \in Nat : n + 1 = N
    <3>1. N - 1 \in Nat /\ N - 1 + 1 = N
      BY ONLY <2>2
    <3> QED
      BY ONLY <3>1
  <2>9. n + 1 \in 1 .. N
    BY ONLY <2>2, <2>8
  <2>10. n \in S
    BY ONLY <2>7, <2>8
  <2>11. F[N] \in Seq(X) /\ Laid(c, N, F[N], off)
    BY <2>8, <2>9, <2>10
  <2> QED
    BY ONLY <2>1, <2>3, <2>11
<1> QED
  BY <1>1, <1>2
----------------------------------------------------------------------------
(* The decoder's loop: the message as it is after each of the entries.     *)

\* What Assemble computes on its way, the message after the first n entries.
Assembles(R, m, w, read, n) ==
    R = [j \in 0 .. n |->
           IF j = 0 THEN CreateBase(m)
           ELSE IF j \in DOMAIN read THEN Put(R[j - 1], FieldOf(m, w[j]), read[j])
           ELSE R[j - 1]]
Assembled(m, w, read) ==
    LET r[j \in 0 .. Len(w)] ==
          IF j = 0 THEN CreateBase(m)
          ELSE IF j \in DOMAIN read THEN Put(r[j - 1], FieldOf(m, w[j]), read[j])
          ELSE r[j - 1]
    IN  r

\* There is such a function for every number of entries.
LEMMA AssemblesExists ==
    ASSUME NEW m, NEW w, NEW read, NEW N \in Nat
    PROVE  \E R : Assembles(R, m, w, read, N)
<1> DEFINE S == {n \in Nat : \E R : Assembles(R, m, w, read, n)}
<1>1. 0 \in S
  <2>1. PICK R : R = [j \in 0 .. 0 |-> CreateBase(m)]
    OBVIOUS
  <2>2. \A j \in 0 .. 0 : j = 0
    OBVIOUS
  <2>3. Assembles(R, m, w, read, 0)
    BY ONLY <2>1, <2>2 DEF Assembles
  <2> QED
    BY <2>3
<1>2. ASSUME NEW n \in S PROVE n + 1 \in S
  <2>0. n \in Nat
    OBVIOUS
  <2>1. PICK R : Assembles(R, m, w, read, n)
    OBVIOUS
  <2>2. PICK x : x = IF n + 1 \in DOMAIN read
                     THEN Put(R[n], FieldOf(m, w[n + 1]), read[n + 1]) ELSE R[n]
    OBVIOUS
  <2>3. PICK G : G = [j \in 0 .. n + 1 |-> IF j = n + 1 THEN x ELSE R[j]]
    OBVIOUS
  <2>4. ASSUME NEW j \in 0 .. n + 1
        PROVE  G[j] = IF j = 0 THEN CreateBase(m)
                      ELSE IF j \in DOMAIN read
                           THEN Put(G[j - 1], FieldOf(m, w[j]), read[j])
                      ELSE G[j - 1]
    <3>1. CASE j = n + 1
      <4>1. j # 0 /\ j - 1 = n /\ n \in 0 .. n + 1 /\ n # n + 1
        BY ONLY <2>0, <3>1
      <4>2. G[j] = x /\ G[j - 1] = R[n]
        BY ONLY <2>3, <3>1, <4>1
      <4> QED
        BY ONLY <2>2, <3>1, <4>1, <4>2
    <3>2. CASE j # n + 1
      <4>1. j \in 0 .. n /\ (j # 0 => j - 1 \in 0 .. n + 1 /\ j - 1 # n + 1)
        BY ONLY <2>0, <3>2, j \in 0 .. n + 1
      <4>2. R[j] = IF j = 0 THEN CreateBase(m)
                   ELSE IF j \in DOMAIN read THEN Put(R[j - 1], FieldOf(m, w[j]), read[j])
                   ELSE R[j - 1]
        BY ONLY <2>1, <4>1 DEF Assembles
      <4>3. G[j] = R[j] /\ (j # 0 => G[j - 1] = R[j - 1])
        BY ONLY <2>3, <3>2, <4>1, j \in 0 .. n + 1
      <4> QED
        BY ONLY <4>2, <4>3
    <3> QED
      BY <3>1, <3>2
  <2>5. G = [j \in 0 .. n + 1 |-> G[j]]
    BY ONLY <2>3
  <2>6. Assembles(G, m, w, read, n + 1)
    BY ONLY <2>4, <2>5 DEF Assembles
  <2> QED
    BY <2>0, <2>6
<1>3. S = Nat
  <2> HIDE DEF S
  <2>1. S \in SUBSET Nat
    BY DEF S
  <2> QED
    BY ONLY <1>1, <1>2, <2>1, Induction
<1> QED
  BY <1>3

\* Assemble is the last value of that function.
LEMMA AssembleLast ==
    ASSUME NEW m, NEW w, NEW read, Len(w) \in Nat
    PROVE  \E R : Assembles(R, m, w, read, Len(w)) /\ Assemble(m, w, read) = R[Len(w)]
<1>1. \E R : Assembles(R, m, w, read, Len(w))
  BY AssemblesExists
<1>2. Assembles(Assembled(m, w, read), m, w, read, Len(w))
  BY <1>1 DEF Assembles, Assembled
<1>3. Assemble(m, w, read) = Assembled(m, w, read)[Len(w)]
  BY DEF Assemble, Assembled
<1> QED
  BY ONLY <1>2, <1>3

\* No two fields of a message have the same name, or the same tag.
IsMessage(m) ==
    /\ Len(m) \in Nat /\ DOMAIN m = 1 .. Len(m)
    /\ \A h, i \in DOMAIN m : h # i => m[h].name # m[i].name /\ Tag(m[h]) # Tag(m[i])

\* How much of piece i is among the first j entries.
Taken(c, off, i, j) ==
    IF j <= off[i] THEN 0
    ELSE IF j >= off[i] + Len(c[i]) THEN Len(c[i])
    ELSE j - off[i]

\* None of a piece is among the entries up to it, and all of it among those past it.
LEMMA TakenEnds ==
    ASSUME NEW c, NEW off, NEW i, NEW j \in Nat, off[i] \in Nat, Len(c[i]) \in Nat
    PROVE  /\ j <= off[i] => Taken(c, off, i, j) = 0
           /\ off[i] + Len(c[i]) <= j => Taken(c, off, i, j) = Len(c[i])
<1>1. PICK a, b : a = off[i] /\ b = Len(c[i])
  OBVIOUS
<1>2. a \in Nat /\ b \in Nat
  BY <1>1
<1>3. Taken(c, off, i, j) = IF j <= a THEN 0 ELSE IF j >= a + b THEN b ELSE j - a
  BY ONLY <1>1 DEF Taken
<1>4. /\ j <= a => Taken(c, off, i, j) = 0
      /\ a + b <= j => Taken(c, off, i, j) = b
  BY ONLY <1>2, <1>3, j \in Nat
<1> QED
  BY ONLY <1>1, <1>4

\* The next entry is one more of its piece, and of no other.
LEMMA TakenStep ==
    ASSUME NEW N \in Nat, NEW c, \A i \in 1 .. N : Len(c[i]) \in Nat,
           NEW E, NEW off, Laid(c, N, E, off),
           NEW i \in 1 .. N, NEW k \in 1 .. Len(c[i]), NEW j \in Nat, j + 1 = off[i] + k
    PROVE  /\ Taken(c, off, i, j) = k - 1 /\ Taken(c, off, i, j + 1) = k
           /\ \A h \in 1 .. N : h # i => Taken(c, off, h, j + 1) = Taken(c, off, h, j)
<1>1. off[i] \in Nat /\ Len(c[i]) \in Nat /\ k \in Nat /\ 1 <= k /\ k <= Len(c[i])
  <2>1. off[i] \in Nat
    BY ONLY i \in 1 .. N, Laid(c, N, E, off) DEF Laid
  <2>2. Len(c[i]) \in Nat
    BY ONLY i \in 1 .. N, \A h \in 1 .. N : Len(c[h]) \in Nat
  <2> QED
    BY ONLY <2>1, <2>2, k \in 1 .. Len(c[i])
<1>2. Taken(c, off, i, j) = k - 1
  BY ONLY <1>1, j \in Nat, j + 1 = off[i] + k DEF Taken
<1>3. Taken(c, off, i, j + 1) = k
  BY ONLY <1>1, j \in Nat, j + 1 = off[i] + k DEF Taken
<1>4. ASSUME NEW h \in 1 .. N, h # i
      PROVE  Taken(c, off, h, j + 1) = Taken(c, off, h, j)
  <2>1. off[h] \in Nat /\ Len(c[h]) \in Nat
    BY ONLY h \in 1 .. N, Laid(c, N, E, off), \A g \in 1 .. N : Len(c[g]) \in Nat DEF Laid
  <2>2. h < i \/ i < h
    BY ONLY h \in 1 .. N, i \in 1 .. N, h # i
  <2>3. CASE h < i
    <3>1. off[h] + Len(c[h]) <= off[i]
      BY ONLY <2>3, h \in 1 .. N, i \in 1 .. N, Laid(c, N, E, off) DEF Laid
    <3>2. PICK a, b, d : a = off[i] /\ b = off[h] /\ d = Len(c[h])
      OBVIOUS
    <3>3. b + d <= j /\ b + d <= j + 1
      <4>1. /\ a \in Nat /\ b \in Nat /\ d \in Nat /\ b + d <= a
            /\ j + 1 = a + k /\ k \in Nat /\ 1 <= k
        BY ONLY <1>1, <2>1, <3>1, <3>2, j + 1 = off[i] + k
      <4> QED
        BY ONLY <4>1, j \in Nat
    <3>4. off[h] + Len(c[h]) <= j /\ off[h] + Len(c[h]) <= j + 1
      BY ONLY <3>2, <3>3
    <3>5. Taken(c, off, h, j) = Len(c[h])
      BY ONLY <2>1, <3>4, j \in Nat, TakenEnds
    <3>6. Taken(c, off, h, j + 1) = Len(c[h])
      BY ONLY <2>1, <3>4, j + 1 \in Nat, TakenEnds
    <3> QED
      BY ONLY <3>5, <3>6
  <2>4. CASE i < h
    <3>1. off[i] + Len(c[i]) <= off[h]
      BY ONLY <2>4, h \in 1 .. N, i \in 1 .. N, Laid(c, N, E, off) DEF Laid
    <3>2. PICK a, b, d : a = off[i] /\ b = off[h] /\ d = Len(c[i])
      OBVIOUS
    <3>3. j <= b /\ j + 1 <= b
      <4>1. /\ a \in Nat /\ b \in Nat /\ d \in Nat /\ a + d <= b
            /\ j + 1 = a + k /\ k \in Nat /\ k <= d
        BY ONLY <1>1, <2>1, <3>1, <3>2, j + 1 = off[i] + k
      <4> QED
        BY ONLY <4>1, j \in Nat
    <3>4. j <= off[h] /\ j + 1 <= off[h]
      BY ONLY <3>2, <3>3
    <3>5. Taken(c, off, h, j) = 0
      BY ONLY <2>1, <3>4, j \in Nat, TakenEnds
    <3>6. Taken(c, off, h, j + 1) = 0
      BY ONLY <2>1, <3>4, j + 1 \in Nat, TakenEnds
    <3> QED
      BY ONLY <3>5, <3>6
  <2> QED
    BY ONLY <2>2, <2>3, <2>4
<1> QED
  BY ONLY <1>2, <1>3, <1>4

\* The value of a field after the first k entries of it.
Upto(f, g, k) ==
    IF f.label = "many" THEN [x \in 1 .. k |-> g[x]]
    ELSE IF k = 0 THEN Base(f) ELSE g[k]

\* One more entry is one more element.
LEMMA UptoAppend ==
    ASSUME NEW g, NEW k \in Nat
    PROVE  Append([x \in 1 .. k |-> g[x]], g[k + 1]) = [x \in 1 .. k + 1 |-> g[x]]
<1>1. PICK s : s = [x \in 1 .. k |-> g[x]]
  OBVIOUS
<1>2. PICK T : T = {g[x] : x \in 1 .. k + 1}
  OBVIOUS
<1>3. s \in Seq(T) /\ Len(s) = k /\ g[k + 1] \in T
  <2>1. \A x \in 1 .. k : x \in 1 .. k + 1
    OBVIOUS
  <2>2. s \in [1 .. k -> T]
    BY ONLY <1>1, <1>2, <2>1
  <2>3. s \in Seq(T) /\ Len(s) = k
    BY ONLY <2>2, k \in Nat
  <2>4. k + 1 \in 1 .. k + 1
    OBVIOUS
  <2> QED
    BY ONLY <1>2, <2>3, <2>4
<1>4. PICK a : a = Append(s, g[k + 1])
  OBVIOUS
<1>5. /\ a \in Seq(T) /\ Len(a) = k + 1
      /\ \A x \in 1 .. k + 1 : a[x] = IF x = k + 1 THEN g[k + 1] ELSE s[x]
  BY ONLY <1>3, <1>4
<1>6. \A x \in 1 .. k + 1 : a[x] = g[x]
  <2>1. \A x \in 1 .. k + 1 : x = k + 1 \/ x \in 1 .. k
    OBVIOUS
  <2> QED
    BY ONLY <1>1, <1>5, <2>1
<1>7. a = [x \in 1 .. k + 1 |-> a[x]]
  BY ONLY <1>5
<1> QED
  BY ONLY <1>1, <1>4, <1>6, <1>7

\* The entries u of a message with the fields n, piece i of which are those of
\* its field i, and what a reader with the fields m makes of them.
Stream(m, n, c, u, off, read, got) ==
    /\ IsMessage(m) /\ IsMessage(n)
    /\ \A i \in DOMAIN n : Len(c[i]) \in Nat
    /\ \A i \in DOMAIN n : \A k \in 1 .. Len(c[i]) : c[i][k].tag = Tag(n[i])
    /\ Len(u) \in Nat /\ DOMAIN u = 1 .. Len(u) /\ Laid(c, Len(n), u, off)
    /\ DOMAIN read = Known(m, u)
    /\ \A h \in DOMAIN m, i \in DOMAIN n : Tag(m[h]) = Tag(n[i]) =>
         \A k \in 1 .. Len(c[i]) : read[off[i] + k] = got[i][k]

\* The reader's message after j entries.
Loop(m, n, c, off, got, r, j) ==
    /\ r = [x \in Names(m) |-> r[x]]
    /\ \A h \in DOMAIN m, i \in DOMAIN n : Tag(m[h]) = Tag(n[i]) =>
         r[m[h].name] = Upto(m[h], got[i], Taken(c, off, i, j))
    /\ \A h \in DOMAIN m : (\A i \in DOMAIN n : Tag(m[h]) # Tag(n[i])) =>
         r[m[h].name] = Base(m[h])

\* The field with a tag is the one field that has it.
LEMMA FieldOfIs ==
    ASSUME NEW m, IsMessage(m), NEW h \in DOMAIN m, NEW e, e.tag = Tag(m[h])
    PROVE  FieldOf(m, e) = m[h]
<1>1. \A i \in DOMAIN m : Tag(m[i]) = e.tag => i = h
  BY DEF IsMessage
<1>2. (CHOOSE i \in DOMAIN m : Tag(m[i]) = e.tag) = h
  BY <1>1
<1> QED
  BY <1>2 DEF FieldOf

\* The field with a name is the one field that has it.
LEMMA NamedIs ==
    ASSUME NEW m, IsMessage(m), NEW h \in DOMAIN m
    PROVE  Named(m, m[h].name) = m[h]
<1>1. \A i \in DOMAIN m : m[i].name = m[h].name => i = h
  BY DEF IsMessage
<1>2. (CHOOSE i \in DOMAIN m : m[i].name = m[h].name) = h
  BY <1>1
<1> QED
  BY <1>2 DEF Named

\* An entry of a field the reader knows is read into that field.
LEMMA LoopPut ==
    ASSUME NEW m, NEW n, NEW c, NEW u, NEW off, NEW read, NEW got,
           Stream(m, n, c, u, off, read, got),
           NEW j \in Nat, NEW r, Loop(m, n, c, off, got, r, j),
           NEW i \in DOMAIN n, NEW k \in 1 .. Len(c[i]), j + 1 = off[i] + k,
           Taken(c, off, i, j) = k - 1, Taken(c, off, i, j + 1) = k,
           \A g \in DOMAIN n : g # i => Taken(c, off, g, j + 1) = Taken(c, off, g, j),
           NEW h \in DOMAIN m, Tag(m[h]) = Tag(n[i])
    PROVE  Loop(m, n, c, off, got, Put(r, m[h], read[j + 1]), j + 1)
<1>1. read[j + 1] = got[i][k] /\ IsMessage(m) /\ IsMessage(n)
  BY DEF Stream
<1>2. PICK x : x = IF m[h].label = "many" THEN Append(r[m[h].name], got[i][k]) ELSE got[i][k]
  OBVIOUS
<1>3. PICK q : q = [r EXCEPT ![m[h].name] = x]
  OBVIOUS
<1>4. q = Put(r, m[h], read[j + 1])
  BY ONLY <1>1, <1>2, <1>3 DEF Put
<1>5. m[h].name \in Names(m) /\ r = [y \in Names(m) |-> r[y]]
  BY DEF Names, Loop
<1>6. /\ q = [y \in Names(m) |-> q[y]] /\ q[m[h].name] = x
      /\ \A y \in Names(m) : y # m[h].name => q[y] = r[y]
  BY ONLY <1>3, <1>5
<1>7. \A g \in DOMAIN m : g # h =>
        m[g].name \in Names(m) /\ m[g].name # m[h].name /\ Tag(m[g]) # Tag(n[i])
  BY <1>1 DEF IsMessage, Names
<1>8. \A g \in DOMAIN m : g # h => q[m[g].name] = r[m[g].name]
  BY ONLY <1>6, <1>7
<1>9. x = Upto(m[h], got[i], k)
  <2>1. r[m[h].name] = Upto(m[h], got[i], k - 1)
    BY DEF Loop
  <2>2. k \in 1 .. Len(c[i]) /\ Len(c[i]) \in Nat
    BY DEF Stream
  <2>3. PICK p \in Nat : k = p + 1 /\ k - 1 = p /\ k # 0
    <3>1. k - 1 \in Nat /\ k = k - 1 + 1 /\ k # 0
      BY ONLY <2>2
    <3> QED
      BY ONLY <3>1
  <2>4. CASE m[h].label = "many"
    <3>1. r[m[h].name] = [y \in 1 .. p |-> got[i][y]]
      BY ONLY <2>1, <2>3, <2>4 DEF Upto
    <3>2. Append([y \in 1 .. p |-> got[i][y]], got[i][p + 1]) = [y \in 1 .. p + 1 |-> got[i][y]]
      <4>1. PICK f : f = got[i]
        OBVIOUS
      <4>2. Append([y \in 1 .. p |-> f[y]], f[p + 1]) = [y \in 1 .. p + 1 |-> f[y]]
        BY ONLY p \in Nat, UptoAppend
      <4> QED
        BY ONLY <4>1, <4>2
    <3> QED
      BY ONLY <1>2, <2>3, <2>4, <3>1, <3>2 DEF Upto
  <2>5. CASE m[h].label # "many"
    BY ONLY <1>2, <2>3, <2>5 DEF Upto
  <2> QED
    BY ONLY <2>4, <2>5
<1>10. ASSUME NEW g \in DOMAIN m, NEW f \in DOMAIN n, Tag(m[g]) = Tag(n[f])
       PROVE  q[m[g].name] = Upto(m[g], got[f], Taken(c, off, f, j + 1))
  <2>1. CASE g = h
    <3>1. f = i
      BY <1>1, <1>10, <2>1 DEF IsMessage
    <3> QED
      BY <1>6, <1>9, <2>1, <3>1
  <2>2. CASE g # h
    <3>1. f # i
      BY <1>7, <1>10, <2>2
    <3>2. Taken(c, off, f, j + 1) = Taken(c, off, f, j)
      BY <3>1
    <3>3. r[m[g].name] = Upto(m[g], got[f], Taken(c, off, f, j))
      BY <1>10 DEF Loop
    <3> QED
      BY ONLY <1>8, <2>2, <3>2, <3>3
  <2> QED
    BY <2>1, <2>2
<1>11. ASSUME NEW g \in DOMAIN m, \A f \in DOMAIN n : Tag(m[g]) # Tag(n[f])
       PROVE  q[m[g].name] = Base(m[g])
  <2>1. g # h
    BY <1>11
  <2>2. r[m[g].name] = Base(m[g])
    BY <1>11 DEF Loop
  <2> QED
    BY ONLY <1>8, <2>1, <2>2
<1>12. Loop(m, n, c, off, got, q, j + 1)
  BY ONLY <1>6, <1>10, <1>11 DEF Loop
<1> QED
  BY ONLY <1>4, <1>12

\* One turn of the loop.
LEMMA LoopStep ==
    ASSUME NEW m, NEW n, NEW c, NEW u, NEW off, NEW read, NEW got,
           Stream(m, n, c, u, off, read, got),
           NEW j \in Nat, j + 1 \in 1 .. Len(u), NEW r, Loop(m, n, c, off, got, r, j)
    PROVE  Loop(m, n, c, off, got,
                IF j + 1 \in DOMAIN read THEN Put(r, FieldOf(m, u[j + 1]), read[j + 1]) ELSE r,
                j + 1)
<1>1. /\ IsMessage(m) /\ IsMessage(n) /\ Len(n) \in Nat /\ DOMAIN n = 1 .. Len(n)
      /\ DOMAIN u = 1 .. Len(u) /\ Laid(c, Len(n), u, off)
  BY DEF Stream, IsMessage
<1>2. PICK i \in 1 .. Len(n) : \E k \in 1 .. Len(c[i]) : j + 1 = off[i] + k
  BY ONLY <1>1, j + 1 \in 1 .. Len(u) DEF Laid
<1>3. PICK k \in 1 .. Len(c[i]) : j + 1 = off[i] + k
  BY ONLY <1>2
<1>4. i \in DOMAIN n /\ u[j + 1] = c[i][k]
  <2>1. u[off[i] + k] = c[i][k]
    BY ONLY <1>1, <1>2, <1>3 DEF Laid
  <2> QED
    BY ONLY <1>1, <1>2, <1>3, <2>1
<1>5. u[j + 1].tag = Tag(n[i])
  BY <1>3, <1>4 DEF Stream
<1>6. /\ Taken(c, off, i, j) = k - 1 /\ Taken(c, off, i, j + 1) = k
      /\ \A g \in 1 .. Len(n) : g # i => Taken(c, off, g, j + 1) = Taken(c, off, g, j)
  <2>1. \A g \in 1 .. Len(n) : Len(c[g]) \in Nat
    BY <1>1 DEF Stream
  <2> QED
    BY <1>1, <1>2, <1>3, <2>1, TakenStep, SMTT(30)
<1>7. CASE \E h \in DOMAIN m : Tag(m[h]) = Tag(n[i])
  <2>1. PICK h \in DOMAIN m : Tag(m[h]) = Tag(n[i])
    BY ONLY <1>7
  <2>2. j + 1 \in DOMAIN read
    BY ONLY <1>1, <1>5, <2>1, j + 1 \in 1 .. Len(u), Stream(m, n, c, u, off, read, got)
       DEF Stream, Known
  <2>3. FieldOf(m, u[j + 1]) = m[h]
    BY ONLY <1>1, <1>5, <2>1, FieldOfIs
  <2>4. Loop(m, n, c, off, got, Put(r, m[h], read[j + 1]), j + 1)
    BY <1>1, <1>3, <1>4, <1>6, <2>1, LoopPut
  <2> QED
    BY ONLY <2>2, <2>3, <2>4
<1>8. CASE ~\E h \in DOMAIN m : Tag(m[h]) = Tag(n[i])
  <2>1. j + 1 \notin DOMAIN read
    BY ONLY <1>5, <1>8, Stream(m, n, c, u, off, read, got) DEF Stream, Known
  <2>2. ASSUME NEW g \in DOMAIN m, NEW f \in DOMAIN n, Tag(m[g]) = Tag(n[f])
        PROVE  r[m[g].name] = Upto(m[g], got[f], Taken(c, off, f, j + 1))
    <3>1. f # i /\ f \in 1 .. Len(n)
      BY ONLY <1>1, <1>8, <2>2
    <3>2. Taken(c, off, f, j + 1) = Taken(c, off, f, j)
      BY ONLY <1>6, <3>1
    <3>3. r[m[g].name] = Upto(m[g], got[f], Taken(c, off, f, j))
      BY <2>2 DEF Loop
    <3> QED
      BY ONLY <3>2, <3>3
  <2>3. Loop(m, n, c, off, got, r, j + 1)
    BY ONLY <2>2, Loop(m, n, c, off, got, r, j) DEF Loop
  <2> QED
    BY ONLY <2>1, <2>3
<1> QED
  BY ONLY <1>7, <1>8

\* The reader starts from the defaults.
LEMMA LoopStart ==
    ASSUME NEW m, NEW n, NEW c, NEW u, NEW off, NEW read, NEW got,
           Stream(m, n, c, u, off, read, got)
    PROVE  Loop(m, n, c, off, got, CreateBase(m), 0)
<1>1. IsMessage(m) /\ IsMessage(n) /\ DOMAIN n = 1 .. Len(n) /\ Laid(c, Len(n), u, off)
  BY DEF Stream, IsMessage
<1>2. CreateBase(m) = [x \in Names(m) |-> CreateBase(m)[x]]
  BY ONLY TRUE DEF CreateBase
<1>3. ASSUME NEW h \in DOMAIN m
      PROVE  CreateBase(m)[m[h].name] = Base(m[h])
  <2>1. m[h].name \in Names(m)
    BY DEF Names
  <2>2. Named(m, m[h].name) = m[h]
    BY <1>1, NamedIs
  <2> QED
    BY ONLY <2>1, <2>2 DEF CreateBase
<1>4. ASSUME NEW h \in DOMAIN m, NEW i \in DOMAIN n
      PROVE  Base(m[h]) = Upto(m[h], got[i], Taken(c, off, i, 0))
  <2>1. off[i] \in Nat
    BY ONLY <1>1, i \in DOMAIN n DEF Laid
  <2>2. Taken(c, off, i, 0) = 0
    BY ONLY <2>1 DEF Taken
  <2>3. Base(m[h]) = Upto(m[h], got[i], 0)
    <3>1. CASE m[h].label = "many"
      <4>1. [x \in 1 .. 0 |-> got[i][x]] = <<>>
        OBVIOUS
      <4>2. Base(m[h]) = <<>>
        BY ONLY <3>1 DEF Base
      <4>3. Upto(m[h], got[i], 0) = [x \in 1 .. 0 |-> got[i][x]]
        BY ONLY <3>1 DEF Upto
      <4> QED
        BY ONLY <4>1, <4>2, <4>3
    <3>2. CASE m[h].label # "many"
      BY ONLY <3>2 DEF Upto
    <3> QED
      BY ONLY <3>1, <3>2
  <2> QED
    BY ONLY <2>2, <2>3
<1> QED
  BY ONLY <1>2, <1>3, <1>4 DEF Loop

\* What the reader has in the end: of a field the writer knows too, what came
\* of it; of any other, the default.
LEMMA AssembleReads ==
    ASSUME NEW m, NEW n, NEW c, NEW u, NEW off, NEW read, NEW got,
           Stream(m, n, c, u, off, read, got)
    PROVE  /\ Assemble(m, u, read) = [x \in Names(m) |-> Assemble(m, u, read)[x]]
           /\ \A h \in DOMAIN m, i \in DOMAIN n : Tag(m[h]) = Tag(n[i]) =>
                Assemble(m, u, read)[m[h].name] = Upto(m[h], got[i], Len(c[i]))
           /\ \A h \in DOMAIN m : (\A i \in DOMAIN n : Tag(m[h]) # Tag(n[i])) =>
                Assemble(m, u, read)[m[h].name] = Base(m[h])
<1>1. Len(u) \in Nat
  BY DEF Stream
<1>2. PICK R : Assembles(R, m, u, read, Len(u)) /\ Assemble(m, u, read) = R[Len(u)]
  BY <1>1, AssembleLast
<1>3. PICK N : N = Len(u)
  OBVIOUS
<1> DEFINE S == {j \in Nat : j \in 0 .. N => Loop(m, n, c, off, got, R[j], j)}
<1>4. 0 \in S
  <2>1. 0 \in 0 .. N
    BY ONLY <1>1, <1>3
  <2>2. R[0] = CreateBase(m)
    BY ONLY <1>2, <1>3, <2>1 DEF Assembles
  <2>3. Loop(m, n, c, off, got, CreateBase(m), 0)
    BY LoopStart
  <2> QED
    BY ONLY <2>2, <2>3
<1>5. ASSUME NEW j \in S PROVE j + 1 \in S
  <2>0. j \in Nat
    OBVIOUS
  <2> SUFFICES ASSUME j + 1 \in 0 .. N
               PROVE  Loop(m, n, c, off, got, R[j + 1], j + 1)
    BY <2>0
  <2>1. j \in 0 .. N /\ j + 1 \in 1 .. Len(u) /\ j + 1 # 0 /\ j + 1 - 1 = j
    BY ONLY <1>1, <1>3, <2>0, j + 1 \in 0 .. N
  <2>2. Loop(m, n, c, off, got, R[j], j)
    BY <2>1
  <2>3. R[j + 1] = IF j + 1 \in DOMAIN read
                   THEN Put(R[j], FieldOf(m, u[j + 1]), read[j + 1]) ELSE R[j]
    <3>1. PICK g : g = j + 1
      OBVIOUS
    <3>2. g \in 0 .. Len(u) /\ g # 0 /\ g - 1 = j
      BY ONLY <1>3, <2>1, <3>1, j + 1 \in 0 .. N
    <3>3. R[g] = IF g \in DOMAIN read THEN Put(R[g - 1], FieldOf(m, u[g]), read[g])
                 ELSE R[g - 1]
      BY ONLY <1>2, <3>2 DEF Assembles
    <3> QED
      BY ONLY <3>1, <3>2, <3>3
  <2>4. PICK r : r = R[j]
    OBVIOUS
  <2>5. Loop(m, n, c, off, got,
             IF j + 1 \in DOMAIN read THEN Put(r, FieldOf(m, u[j + 1]), read[j + 1]) ELSE r,
             j + 1)
    BY ONLY <2>0, <2>1, <2>2, <2>4, LoopStep, Stream(m, n, c, u, off, read, got)
  <2> QED
    BY ONLY <2>3, <2>4, <2>5
<1>6. S = Nat
  <2> HIDE DEF S
  <2>1. S \in SUBSET Nat
    BY DEF S
  <2> QED
    BY ONLY <1>4, <1>5, <2>1, Induction
<1>7. N \in S /\ N \in 0 .. N /\ N \in Nat
  BY ONLY <1>1, <1>3, <1>6
<1>8. PICK A : A = Assemble(m, u, read)
  OBVIOUS
<1>9. Loop(m, n, c, off, got, A, N)
  BY <1>2, <1>3, <1>7, <1>8
<1>10. ASSUME NEW i \in DOMAIN n
       PROVE  Taken(c, off, i, N) = Len(c[i])
  <2>1. off[i] \in Nat /\ off[i] + Len(c[i]) <= N
    BY ONLY <1>3, i \in DOMAIN n, Stream(m, n, c, u, off, read, got)
       DEF Stream, IsMessage, Laid
  <2>2. Len(c[i]) \in Nat
    BY DEF Stream
  <2> QED
    BY ONLY <1>7, <2>1, <2>2 DEF Taken
<1>11. \A h \in DOMAIN m, i \in DOMAIN n : Tag(m[h]) = Tag(n[i]) =>
         A[m[h].name] = Upto(m[h], got[i], Len(c[i]))
  BY ONLY <1>9, <1>10 DEF Loop
<1> QED
  BY ONLY <1>8, <1>9, <1>11 DEF Loop
----------------------------------------------------------------------------
(* The codec of a message and those of the messages in it, level by level. *)

Code1(g, x) == IF IsNested(g) THEN None ELSE x
Coded1(g, xs) == [k \in DOMAIN xs |-> [tag |-> Tag(g), data |-> Code1(g, xs[k])]]
E1(n, r) == FlattenSeq([i \in DOMAIN n |-> Coded1(n[i], Sent(n[i], r[n[i].name]))])
Code2(g, x) == IF IsNested(g) THEN E1(Inner(g), ToInner(g, x)) ELSE x
Coded2(g, xs) == [k \in DOMAIN xs |-> [tag |-> Tag(g), data |-> Code2(g, xs[k])]]
E2(n, r) == FlattenSeq([i \in DOMAIN n |-> Coded2(n[i], Sent(n[i], r[n[i].name]))])
Code3(g, x) == IF IsNested(g) THEN E2(Inner(g), ToInner(g, x)) ELSE x
Coded3(g, xs) == [k \in DOMAIN xs |-> [tag |-> Tag(g), data |-> Code3(g, xs[k])]]
E3(n, r) == FlattenSeq([i \in DOMAIN n |-> Coded3(n[i], Sent(n[i], r[n[i].name]))])
Code4(g, x) == IF IsNested(g) THEN E3(Inner(g), ToInner(g, x)) ELSE x
Coded4(g, xs) == [k \in DOMAIN xs |-> [tag |-> Tag(g), data |-> Code4(g, xs[k])]]
E4(n, r) == FlattenSeq([i \in DOMAIN n |-> Coded4(n[i], Sent(n[i], r[n[i].name]))])

\* The encoder is its four levels.
LEMMA EncodeIs == ASSUME NEW n, NEW r PROVE Encode(n, r) = E4(n, r)
BY DEF Encode, E4, E3, E2, E1, Coded4, Coded3, Coded2, Coded1, Code4, Code3, Code2, Code1

Read1(f, d) == IF IsNested(f) THEN FromInner(f, None) ELSE d
D1(m, u) == Assemble(m, u, [j \in Known(m, u) |-> Read1(FieldOf(m, u[j]), u[j].data)])
Read2(f, d) == IF IsNested(f) THEN FromInner(f, D1(Inner(f), d)) ELSE d
D2(m, u) == Assemble(m, u, [j \in Known(m, u) |-> Read2(FieldOf(m, u[j]), u[j].data)])
Read3(f, d) == IF IsNested(f) THEN FromInner(f, D2(Inner(f), d)) ELSE d
D3(m, u) == Assemble(m, u, [j \in Known(m, u) |-> Read3(FieldOf(m, u[j]), u[j].data)])
Read4(f, d) == IF IsNested(f) THEN FromInner(f, D3(Inner(f), d)) ELSE d
D4(m, u) == Assemble(m, u, [j \in Known(m, u) |-> Read4(FieldOf(m, u[j]), u[j].data)])

\* The decoder is its four levels.
LEMMA DecodeIs == ASSUME NEW m, NEW u PROVE Decode(m, u) = D4(m, u)
BY DEF Decode, D4, D3, D2, D1, Read4, Read3, Read2, Read1

DateOf(x) == [seconds |-> x \div 1000, nanos |-> 1000000 * (x % 1000)]
Of1(f, g, x) ==
    CASE f.type = "date" /\ x # None -> FromTimestamp(x)
      [] g.type = "date" /\ x # None -> DateOf(x)
      [] f.type = "message" /\ f.label = "many" ->
           [i \in DOMAIN x |-> x[i]]
      [] f.type = "message" /\ f.label # "many" /\ g.type = "message" /\ x # None ->
           x
      [] OTHER -> x
M1(m, n, z) ==
    [x \in Names(m) |->
       IF x \in Names(n) /\ WireType(Named(n, x)) = WireType(Named(m, x))
       THEN Of1(Named(m, x), Named(n, x), z[x])
       ELSE Base(Named(m, x))]
Of2(f, g, x) ==
    CASE f.type = "date" /\ x # None -> FromTimestamp(x)
      [] g.type = "date" /\ x # None -> DateOf(x)
      [] f.type = "message" /\ f.label = "many" ->
           [i \in DOMAIN x |-> M1(f.of, g.of, x[i])]
      [] f.type = "message" /\ f.label # "many" /\ g.type = "message" /\ x # None ->
           M1(f.of, g.of, x)
      [] OTHER -> x
M2(m, n, z) ==
    [x \in Names(m) |->
       IF x \in Names(n) /\ WireType(Named(n, x)) = WireType(Named(m, x))
       THEN Of2(Named(m, x), Named(n, x), z[x])
       ELSE Base(Named(m, x))]
Of3(f, g, x) ==
    CASE f.type = "date" /\ x # None -> FromTimestamp(x)
      [] g.type = "date" /\ x # None -> DateOf(x)
      [] f.type = "message" /\ f.label = "many" ->
           [i \in DOMAIN x |-> M2(f.of, g.of, x[i])]
      [] f.type = "message" /\ f.label # "many" /\ g.type = "message" /\ x # None ->
           M2(f.of, g.of, x)
      [] OTHER -> x
M3(m, n, z) ==
    [x \in Names(m) |->
       IF x \in Names(n) /\ WireType(Named(n, x)) = WireType(Named(m, x))
       THEN Of3(Named(m, x), Named(n, x), z[x])
       ELSE Base(Named(m, x))]
Of4(f, g, x) ==
    CASE f.type = "date" /\ x # None -> FromTimestamp(x)
      [] g.type = "date" /\ x # None -> DateOf(x)
      [] f.type = "message" /\ f.label = "many" ->
           [i \in DOMAIN x |-> M3(f.of, g.of, x[i])]
      [] f.type = "message" /\ f.label # "many" /\ g.type = "message" /\ x # None ->
           M3(f.of, g.of, x)
      [] OTHER -> x
M4(m, n, z) ==
    [x \in Names(m) |->
       IF x \in Names(n) /\ WireType(Named(n, x)) = WireType(Named(m, x))
       THEN Of4(Named(m, x), Named(n, x), z[x])
       ELSE Base(Named(m, x))]

\* What a message means is its four levels.
LEMMA MeaningIs ==
    ASSUME NEW m, NEW n, NEW z PROVE Meaning(m, n, z) = M4(m, n, z)
BY DEF Meaning, M4, M3, M2, M1, Of4, Of3, Of2, Of1, DateOf
----------------------------------------------------------------------------
(* One level: the messages in a message are taken as read.                 *)

IsSeq(x) == Len(x) \in Nat /\ x = [k \in 1 .. Len(x) |-> x[k]]

\* A reader and a writer that may be of different versions: a field has the
\* same tag on both sides just when it has the same name and wire type.
Related(m, n) ==
    /\ IsMessage(m) /\ IsMessage(n)
    /\ \A h \in DOMAIN m, i \in DOMAIN n :
         Tag(m[h]) = Tag(n[i]) <=>
           m[h].name = n[i].name /\ WireType(m[h]) = WireType(n[i])

\* A field that both sides know: neither is a message, or both are, or one of
\* them keeps a Timestamp as a date.
Alike(f, g) ==
    /\ f.label = g.label
    /\ \/ ~IsNested(f) /\ ~IsNested(g) /\ Base(f) = Base(g)
       \/ /\ f.type = "date" /\ g.type = "message" /\ g.of = Timestamp
          /\ g.label = "optional"
       \/ /\ f.type = "message" /\ f.of = Timestamp /\ g.type = "date"
          /\ g.label = "optional"
       \/ f.type = "message" /\ g.type = "message" /\ g.label \in {"optional", "many"}

\* A function on S.
IsFun(v, S) == v = [x \in S |-> v[x]]

\* The pieces c of a message with the fields n, its entries u, what a reader
\* with the fields m reads each of them as, and the value v it is to have then.
Reading(m, n, c, u, read, sub, v) ==
    /\ IsMessage(m) /\ IsMessage(n)
    /\ IsFun(c, DOMAIN n) /\ \A i \in DOMAIN n : IsSeq(c[i])
    /\ \A i \in DOMAIN n : \A k \in 1 .. Len(c[i]) : c[i][k].tag = Tag(n[i])
    /\ u = FlattenSeq(c) /\ DOMAIN read = Known(m, u)
    /\ \A j \in Known(m, u), h \in DOMAIN m, i \in DOMAIN n : Tag(m[h]) = Tag(n[i]) =>
         \A k \in 1 .. Len(c[i]) : u[j] = c[i][k] => read[j] = sub[i][k]
    /\ IsFun(v, Names(m))
    /\ \A h \in DOMAIN m, i \in DOMAIN n : Tag(m[h]) = Tag(n[i]) =>
         v[m[h].name] = Upto(m[h], sub[i], Len(c[i]))
    /\ \A h \in DOMAIN m : (\A i \in DOMAIN n : Tag(m[h]) # Tag(n[i])) =>
         v[m[h].name] = Base(m[h])

\* The decoder puts together what the encoder took apart.
LEMMA Level ==
    ASSUME NEW m, NEW n, NEW c, NEW u, NEW read, NEW sub, NEW v,
           Reading(m, n, c, u, read, sub, v)
    PROVE  Assemble(m, u, read) = v
<1>0. /\ IsMessage(m) /\ IsMessage(n)
      /\ IsFun(c, DOMAIN n) /\ \A i \in DOMAIN n : IsSeq(c[i])
      /\ \A i \in DOMAIN n : \A k \in 1 .. Len(c[i]) : c[i][k].tag = Tag(n[i])
      /\ u = FlattenSeq(c) /\ DOMAIN read = Known(m, u)
      /\ \A j \in Known(m, u), h \in DOMAIN m, i \in DOMAIN n : Tag(m[h]) = Tag(n[i]) =>
           \A k \in 1 .. Len(c[i]) : u[j] = c[i][k] => read[j] = sub[i][k]
      /\ IsFun(v, Names(m))
      /\ \A h \in DOMAIN m, i \in DOMAIN n : Tag(m[h]) = Tag(n[i]) =>
           v[m[h].name] = Upto(m[h], sub[i], Len(c[i]))
      /\ \A h \in DOMAIN m : (\A i \in DOMAIN n : Tag(m[h]) # Tag(n[i])) =>
           v[m[h].name] = Base(m[h])
  BY DEF Reading
<1>1. Len(n) \in Nat /\ DOMAIN n = 1 .. Len(n)
  BY <1>0 DEF IsMessage
<1>2. PICK X : X = UNION {{c[i][k] : k \in 1 .. Len(c[i])} : i \in DOMAIN n}
  OBVIOUS
<1>3. \A i \in DOMAIN n : c[i] \in Seq(X)
  <2> SUFFICES ASSUME NEW i \in DOMAIN n PROVE c[i] \in Seq(X)
    OBVIOUS
  <2>1. Len(c[i]) \in Nat /\ c[i] = [k \in 1 .. Len(c[i]) |-> c[i][k]]
    BY <1>0 DEF IsSeq
  <2>2. \A k \in 1 .. Len(c[i]) : c[i][k] \in X
    BY ONLY <1>2, i \in DOMAIN n
  <2>3. PICK N, e : N = Len(c[i]) /\ e = c[i]
    OBVIOUS
  <2>4. N \in Nat /\ e = [k \in 1 .. N |-> e[k]] /\ \A k \in 1 .. N : e[k] \in X
    BY ONLY <2>1, <2>2, <2>3
  <2>5. e \in [1 .. N -> X]
    BY ONLY <2>4
  <2>6. e \in Seq(X)
    BY ONLY <2>4, <2>5
  <2> QED
    BY ONLY <2>3, <2>6
<1>4. c \in Seq(Seq(X)) /\ Len(c) = Len(n)
  <2>1. PICK N : N = Len(n)
    OBVIOUS
  <2>2. N \in Nat /\ DOMAIN n = 1 .. N
    BY ONLY <1>1, <2>1
  <2>3. c \in [1 .. N -> Seq(X)]
    BY ONLY <1>0, <1>3, <2>2 DEF IsFun
  <2>4. c \in Seq(Seq(X)) /\ Len(c) = N
    BY ONLY <2>2, <2>3
  <2> QED
    BY ONLY <2>1, <2>4
<1>5. u \in Seq(X) /\ \E off : Laid(c, Len(c), u, off)
  BY ONLY <1>0, <1>4, FlattenLays
<1>6. PICK off : Laid(c, Len(n), u, off)
  BY <1>4, <1>5
<1>7. Len(u) \in Nat /\ DOMAIN u = 1 .. Len(u)
  BY ONLY <1>5
<1>8. \A i \in DOMAIN n : Len(c[i]) \in Nat
  BY <1>0 DEF IsSeq
<1>9. ASSUME NEW h \in DOMAIN m, NEW i \in DOMAIN n, Tag(m[h]) = Tag(n[i]),
             NEW k \in 1 .. Len(c[i])
      PROVE  read[off[i] + k] = sub[i][k]
  <2>1. PICK j : j = off[i] + k
    OBVIOUS
  <2>2. u[j] = c[i][k]
    BY ONLY <1>1, <1>6, <2>1, i \in DOMAIN n, k \in 1 .. Len(c[i]) DEF Laid
  <2>3. j \in DOMAIN u
    <3>1. off[i] \in Nat /\ off[i] + Len(c[i]) <= Len(u)
      BY ONLY <1>1, <1>6, i \in DOMAIN n DEF Laid
    <3>2. Len(c[i]) \in Nat
      BY <1>8
    <3> QED
      BY ONLY <1>7, <2>1, <3>1, <3>2, k \in 1 .. Len(c[i])
  <2>4. u[j].tag = Tag(m[h])
    BY <1>0, <1>9, <2>2
  <2>5. j \in Known(m, u)
    BY ONLY <2>3, <2>4, h \in DOMAIN m DEF Known
  <2>6. read[j] = sub[i][k]
    BY <1>0, <1>9, <2>2, <2>5
  <2> QED
    BY ONLY <2>1, <2>6
<1>10. Stream(m, n, c, u, off, read, sub)
  BY ONLY <1>0, <1>6, <1>7, <1>8, <1>9 DEF Stream
<1>11. PICK A : A = Assemble(m, u, read)
  OBVIOUS
<1>12. /\ A = [x \in Names(m) |-> A[x]]
       /\ \A h \in DOMAIN m, i \in DOMAIN n : Tag(m[h]) = Tag(n[i]) =>
            A[m[h].name] = Upto(m[h], sub[i], Len(c[i]))
       /\ \A h \in DOMAIN m : (\A i \in DOMAIN n : Tag(m[h]) # Tag(n[i])) =>
            A[m[h].name] = Base(m[h])
  BY ONLY <1>10, <1>11, AssembleReads
<1>13. ASSUME NEW x \in Names(m) PROVE A[x] = v[x]
  <2>1. PICK h \in DOMAIN m : x = m[h].name
    BY DEF Names
  <2>2. CASE \E i \in DOMAIN n : Tag(m[h]) = Tag(n[i])
    BY <1>0, <1>12, <2>1, <2>2
  <2>3. CASE \A i \in DOMAIN n : Tag(m[h]) # Tag(n[i])
    BY <1>0, <1>12, <2>1, <2>3
  <2> QED
    BY <2>2, <2>3
<1>14. v = [x \in Names(m) |-> v[x]]
  BY <1>0 DEF IsFun
<1> QED
  BY ONLY <1>11, <1>12, <1>13, <1>14

\* What is sent of a field is a sequence.
LEMMA SentIs ==
    ASSUME NEW g, NEW x, g.label = "many" => IsSeq(x)
    PROVE  /\ IsSeq(Sent(g, x)) /\ DOMAIN Sent(g, x) = 1 .. Len(Sent(g, x))
           /\ g.label = "many" => Sent(g, x) = x
           /\ g.label # "many" /\ x = Base(g) => Len(Sent(g, x)) = 0
           /\ g.label # "many" /\ x # Base(g) => Len(Sent(g, x)) = 1 /\ Sent(g, x)[1] = x
<1>1. CASE g.label = "many"
  <2>1. Sent(g, x) = x
    BY ONLY <1>1 DEF Sent
  <2>2. DOMAIN x = 1 .. Len(x)
    <3>1. x = [k \in 1 .. Len(x) |-> x[k]]
      BY <1>1 DEF IsSeq
    <3> QED
      BY ONLY <3>1
  <2> QED
    BY <1>1, <2>1, <2>2
<1>2. CASE g.label # "many" /\ x = Base(g)
  <2>1. Sent(g, x) = <<>>
    BY ONLY <1>2 DEF Sent
  <2>2. Len(<<>>) = 0 /\ DOMAIN <<>> = 1 .. 0 /\ <<>> = [k \in 1 .. 0 |-> <<>>[k]]
    OBVIOUS
  <2> QED
    BY ONLY <1>2, <2>1, <2>2 DEF IsSeq
<1>3. CASE g.label # "many" /\ x # Base(g)
  <2>1. Sent(g, x) = <<x>>
    BY ONLY <1>3 DEF Sent
  <2>2. PICK s : s = <<x>>
    OBVIOUS
  <2>3. Len(s) = 1 /\ DOMAIN s = 1 .. 1 /\ s[1] = x /\ s = [k \in 1 .. 1 |-> s[k]]
    BY ONLY <2>2
  <2> QED
    BY ONLY <1>3, <2>1, <2>2, <2>3 DEF IsSeq
<1> QED
  BY <1>1, <1>2, <1>3

\* What the entries y of a field with the value x, put together, are to be.
FieldReads(f, g, x, y, o) ==
    /\ Alike(f, g)
    /\ g.label = "many" => IsSeq(x)
    /\ ~IsNested(g) => o = x /\ \A k \in DOMAIN Sent(g, x) : y[k] = Sent(g, x)[k]
    /\ IsNested(g) /\ g.label = "many" => o = [k \in DOMAIN x |-> y[k]]
    /\ IsNested(g) /\ g.label # "many" /\ x = None => o = None
    /\ IsNested(g) /\ g.label # "many" /\ x # None => o = y[1]

\* The reader's loop puts them together so.
LEMMA FieldMeans ==
    ASSUME NEW f, NEW g, NEW x, NEW y, NEW o, FieldReads(f, g, x, y, o)
    PROVE  o = Upto(f, y, Len(Sent(g, x)))
<1>0. /\ Alike(f, g)
      /\ g.label = "many" => IsSeq(x)
      /\ ~IsNested(g) => o = x /\ \A k \in DOMAIN Sent(g, x) : y[k] = Sent(g, x)[k]
      /\ IsNested(g) /\ g.label = "many" => o = [k \in DOMAIN x |-> y[k]]
      /\ IsNested(g) /\ g.label # "many" /\ x = None => o = None
      /\ IsNested(g) /\ g.label # "many" /\ x # None => o = y[1]
  BY DEF FieldReads
<1>1. PICK s : s = Sent(g, x)
  OBVIOUS
<1>2. /\ IsSeq(s) /\ DOMAIN s = 1 .. Len(s)
      /\ g.label = "many" => s = x
      /\ g.label # "many" /\ x = Base(g) => Len(s) = 0
      /\ g.label # "many" /\ x # Base(g) => Len(s) = 1 /\ s[1] = x
  BY ONLY <1>0, <1>1, SentIs
<1>3. f.label = g.label
  BY <1>0 DEF Alike
<1>4. CASE g.label = "many"
  <2>1. x = s /\ DOMAIN x = 1 .. Len(s)
    BY <1>2, <1>4
  <2>2. o = [k \in 1 .. Len(s) |-> y[k]]
    <3>1. CASE IsNested(g)
      BY <1>0, <1>4, <2>1, <3>1
    <3>2. CASE ~IsNested(g)
      <4>1. o = s /\ \A k \in 1 .. Len(s) : y[k] = s[k]
        BY <1>0, <1>1, <2>1, <3>2
      <4>2. s = [k \in 1 .. Len(s) |-> s[k]]
        BY <1>2 DEF IsSeq
      <4> QED
        BY ONLY <4>1, <4>2
    <3> QED
      BY <3>1, <3>2
  <2> QED
    BY ONLY <1>1, <1>3, <1>4, <2>2 DEF Upto
<1>5. CASE g.label # "many"
  <2>1. Upto(f, y, Len(s)) = IF Len(s) = 0 THEN Base(f) ELSE y[Len(s)]
    BY ONLY <1>3, <1>5 DEF Upto
  <2>2. CASE IsNested(g)
    <3>1. g.label = "optional"
      BY <1>0, <1>5, <2>2 DEF Alike
    <3>2. Base(f) = None /\ Base(g) = None
      BY ONLY <1>3, <3>1 DEF Base
    <3>3. CASE x = None
      BY <1>0, <1>1, <1>2, <1>5, <2>1, <2>2, <3>2, <3>3
    <3>4. CASE x # None
      BY <1>0, <1>1, <1>2, <1>5, <2>1, <2>2, <3>2, <3>4
    <3> QED
      BY <3>3, <3>4
  <2>3. CASE ~IsNested(g)
    <3>1. Base(f) = Base(g)
      BY <1>0, <2>3 DEF Alike, IsNested
    <3>2. CASE x = Base(g)
      BY <1>0, <1>1, <1>2, <1>5, <2>1, <2>3, <3>1, <3>2
    <3>3. CASE x # Base(g)
      <4>1. Len(s) = 1 /\ s[1] = x
        BY <1>2, <1>5, <3>3
      <4>2. 1 \in DOMAIN s
        BY ONLY <1>2, <4>1
      <4>3. o = x /\ y[1] = s[1]
        BY <1>0, <1>1, <2>3, <4>2
      <4> QED
        BY ONLY <1>1, <2>1, <4>1, <4>3
    <3> QED
      BY <3>2, <3>3
  <2> QED
    BY <2>2, <2>3
<1> QED
  BY <1>4, <1>5

\* The repeated fields of a value are sequences.
Lists(n, r) == \A i \in DOMAIN n : n[i].label = "many" => IsSeq(r[n[i].name])

\* The same of the value r of a message, the data of whose entries is read as y.
LevelReads(m, n, r, c, data, u, read, y, o, v) ==
    /\ Related(m, n) /\ Lists(n, r) /\ IsFun(c, DOMAIN n)
    /\ \A i \in DOMAIN n : c[i] = [k \in DOMAIN Sent(n[i], r[n[i].name]) |->
                                   [tag |-> Tag(n[i]), data |-> data[i][k]]]
    /\ u = FlattenSeq(c) /\ DOMAIN read = Known(m, u)
    /\ \A j \in Known(m, u), h \in DOMAIN m, i \in DOMAIN n : Tag(m[h]) = Tag(n[i]) =>
         \A k \in DOMAIN Sent(n[i], r[n[i].name]) :
           FieldOf(m, u[j]) = m[h] /\ u[j].data = data[i][k] => read[j] = y[i][k]
    /\ v = [x \in Names(m) |->
              IF x \in Names(n) /\ WireType(Named(n, x)) = WireType(Named(m, x))
              THEN o[x] ELSE Base(Named(m, x))]
    /\ \A h \in DOMAIN m, i \in DOMAIN n : Tag(m[h]) = Tag(n[i]) =>
         o[m[h].name] = Upto(m[h], y[i], Len(Sent(n[i], r[n[i].name])))

\* A level, from the values of its fields.
LEMMA LevelMeans ==
    ASSUME NEW m, NEW n, NEW r, NEW c, NEW data, NEW u, NEW read, NEW y, NEW o, NEW v,
           LevelReads(m, n, r, c, data, u, read, y, o, v)
    PROVE  Assemble(m, u, read) = v
<1>0. /\ Related(m, n) /\ Lists(n, r) /\ IsFun(c, DOMAIN n)
      /\ \A i \in DOMAIN n : c[i] = [k \in DOMAIN Sent(n[i], r[n[i].name]) |->
                                     [tag |-> Tag(n[i]), data |-> data[i][k]]]
      /\ u = FlattenSeq(c) /\ DOMAIN read = Known(m, u)
      /\ \A j \in Known(m, u), h \in DOMAIN m, i \in DOMAIN n : Tag(m[h]) = Tag(n[i]) =>
           \A k \in DOMAIN Sent(n[i], r[n[i].name]) :
             FieldOf(m, u[j]) = m[h] /\ u[j].data = data[i][k] => read[j] = y[i][k]
      /\ v = [x \in Names(m) |->
                IF x \in Names(n) /\ WireType(Named(n, x)) = WireType(Named(m, x))
                THEN o[x] ELSE Base(Named(m, x))]
      /\ \A h \in DOMAIN m, i \in DOMAIN n : Tag(m[h]) = Tag(n[i]) =>
           o[m[h].name] = Upto(m[h], y[i], Len(Sent(n[i], r[n[i].name])))
  BY DEF LevelReads
<1>1. IsMessage(m) /\ IsMessage(n)
  BY <1>0 DEF Related
<1>2. ASSUME NEW i \in DOMAIN n
      PROVE  /\ IsSeq(c[i]) /\ Len(c[i]) = Len(Sent(n[i], r[n[i].name]))
             /\ DOMAIN Sent(n[i], r[n[i].name]) = 1 .. Len(c[i])
             /\ \A k \in 1 .. Len(c[i]) : c[i][k] = [tag |-> Tag(n[i]), data |-> data[i][k]]
  <2>1. PICK g, s, d, e : /\ g = n[i] /\ s = Sent(n[i], r[n[i].name])
                          /\ d = data[i] /\ e = c[i]
    OBVIOUS
  <2>2. IsSeq(s) /\ DOMAIN s = 1 .. Len(s)
    BY <1>0, <2>1, SentIs DEF Lists
  <2>3. e = [k \in 1 .. Len(s) |-> [tag |-> Tag(g), data |-> d[k]]]
    BY <1>0, <2>1, <2>2
  <2>4. Len(s) \in Nat
    BY <2>2 DEF IsSeq
  <2>5. Len(e) = Len(s)
    BY ONLY <2>3, <2>4
  <2>6. \A k \in 1 .. Len(e) : e[k] = [tag |-> Tag(g), data |-> d[k]]
    BY ONLY <2>3, <2>5
  <2>7. e = [k \in 1 .. Len(e) |-> e[k]]
    BY ONLY <2>3, <2>5
  <2>8. IsSeq(e)
    BY ONLY <2>4, <2>5, <2>7 DEF IsSeq
  <2> QED
    BY ONLY <2>1, <2>2, <2>5, <2>6, <2>8
<1>3. \A i \in DOMAIN n : IsSeq(c[i])
  BY <1>2
<1>4. ASSUME NEW i \in DOMAIN n, NEW k \in 1 .. Len(c[i])
      PROVE  c[i][k].tag = Tag(n[i])
  <2>1. c[i][k] = [tag |-> Tag(n[i]), data |-> data[i][k]]
    BY ONLY <1>2, i \in DOMAIN n, k \in 1 .. Len(c[i])
  <2> QED
    BY ONLY <2>1
<1>5. ASSUME NEW j \in Known(m, u), NEW h \in DOMAIN m, NEW i \in DOMAIN n,
             Tag(m[h]) = Tag(n[i]), NEW k \in 1 .. Len(c[i]), u[j] = c[i][k]
      PROVE  read[j] = y[i][k]
  <2>1. c[i][k] = [tag |-> Tag(n[i]), data |-> data[i][k]]
    BY ONLY <1>2, i \in DOMAIN n, k \in 1 .. Len(c[i])
  <2>2. u[j].tag = Tag(m[h]) /\ u[j].data = data[i][k]
    BY ONLY <1>5, <2>1
  <2>3. FieldOf(m, u[j]) = m[h]
    BY <1>1, <2>2, FieldOfIs
  <2>4. k \in DOMAIN Sent(n[i], r[n[i].name])
    BY <1>2
  <2> QED
    BY <1>0, <1>5, <2>2, <2>3, <2>4
<1>6. IsFun(v, Names(m))
  BY <1>0 DEF IsFun
<1>7. \A h \in DOMAIN m : m[h].name \in Names(m) /\ Named(m, m[h].name) = m[h]
  BY <1>1, NamedIs DEF Names
<1>8. ASSUME NEW h \in DOMAIN m, NEW i \in DOMAIN n, Tag(m[h]) = Tag(n[i])
      PROVE  v[m[h].name] = Upto(m[h], y[i], Len(c[i]))
  <2>1. m[h].name = n[i].name /\ WireType(m[h]) = WireType(n[i])
    BY <1>0, <1>8 DEF Related
  <2>2. n[i].name \in Names(n) /\ Named(n, n[i].name) = n[i]
    BY <1>1, NamedIs DEF Names
  <2>3. v[m[h].name] = o[m[h].name]
    BY <1>0, <1>7, <2>1, <2>2
  <2> QED
    BY <1>0, <1>2, <1>8, <2>3
<1>9. ASSUME NEW h \in DOMAIN m, \A i \in DOMAIN n : Tag(m[h]) # Tag(n[i])
      PROVE  v[m[h].name] = Base(m[h])
  <2>1. \A x \in Names(n) : x = m[h].name => WireType(Named(n, x)) # WireType(m[h])
    <3> SUFFICES ASSUME NEW i \in DOMAIN n, n[i].name = m[h].name
                 PROVE  WireType(Named(n, m[h].name)) # WireType(m[h])
      BY DEF Names
    <3>1. Named(n, m[h].name) = n[i]
      BY <1>1, NamedIs
    <3>2. WireType(m[h]) # WireType(n[i])
      BY <1>0, <1>9 DEF Related
    <3> QED
      BY ONLY <3>1, <3>2
  <2> QED
    BY <1>0, <1>7, <2>1
<1>10. \A j \in Known(m, u), h \in DOMAIN m, i \in DOMAIN n : Tag(m[h]) = Tag(n[i]) =>
         \A k \in 1 .. Len(c[i]) : u[j] = c[i][k] => read[j] = y[i][k]
  BY ONLY <1>5
<1>11. \A i \in DOMAIN n : \A k \in 1 .. Len(c[i]) : c[i][k].tag = Tag(n[i])
  BY ONLY <1>4
<1>12. \A h \in DOMAIN m, i \in DOMAIN n : Tag(m[h]) = Tag(n[i]) =>
         v[m[h].name] = Upto(m[h], y[i], Len(c[i]))
  BY ONLY <1>8
<1>13. \A h \in DOMAIN m : (\A i \in DOMAIN n : Tag(m[h]) # Tag(n[i])) =>
         v[m[h].name] = Base(m[h])
  BY ONLY <1>9
<1>14. Reading(m, n, c, u, read, y, v)
  BY ONLY <1>0, <1>1, <1>3, <1>6, <1>10, <1>11, <1>12, <1>13 DEF Reading
<1> QED
  BY <1>14, Level
----------------------------------------------------------------------------
(* All the levels.                                                         *)

\* A reader and a writer of versions whose common fields are alike, and so are
\* the messages in them; at the innermost level there are none.
Comp1(m, n) ==
    /\ Related(m, n)
    /\ \A h \in DOMAIN m, i \in DOMAIN n : Tag(m[h]) = Tag(n[i]) =>
         Alike(m[h], n[i]) /\ ~IsNested(m[h]) /\ ~IsNested(n[i])
Comp2(m, n) ==
    /\ Related(m, n)
    /\ \A h \in DOMAIN m, i \in DOMAIN n : Tag(m[h]) = Tag(n[i]) =>
         /\ Alike(m[h], n[i])
         /\ m[h].type = "message" /\ n[i].type = "message" => Comp1(m[h].of, n[i].of)
Comp3(m, n) ==
    /\ Related(m, n)
    /\ \A h \in DOMAIN m, i \in DOMAIN n : Tag(m[h]) = Tag(n[i]) =>
         /\ Alike(m[h], n[i])
         /\ m[h].type = "message" /\ n[i].type = "message" => Comp2(m[h].of, n[i].of)
Comp4(m, n) ==
    /\ Related(m, n)
    /\ \A h \in DOMAIN m, i \in DOMAIN n : Tag(m[h]) = Tag(n[i]) =>
         /\ Alike(m[h], n[i])
         /\ m[h].type = "message" /\ n[i].type = "message" => Comp3(m[h].of, n[i].of)

\* The values a message may have: of a date, a number of milliseconds.
Typed1(n, r) == Lists(n, r)
Value2(g, x) ==
    /\ g.type = "date" => x = None \/ x \in Int
    /\ g.type = "message" /\ g.label = "many" => \A k \in DOMAIN x : Typed1(g.of, x[k])
    /\ g.type = "message" /\ g.label # "many" => x = None \/ Typed1(g.of, x)
Typed2(n, r) == Lists(n, r) /\ \A i \in DOMAIN n : Value2(n[i], r[n[i].name])
Value3(g, x) ==
    /\ g.type = "date" => x = None \/ x \in Int
    /\ g.type = "message" /\ g.label = "many" => \A k \in DOMAIN x : Typed2(g.of, x[k])
    /\ g.type = "message" /\ g.label # "many" => x = None \/ Typed2(g.of, x)
Typed3(n, r) == Lists(n, r) /\ \A i \in DOMAIN n : Value3(n[i], r[n[i].name])
Value4(g, x) ==
    /\ g.type = "date" => x = None \/ x \in Int
    /\ g.type = "message" /\ g.label = "many" => \A k \in DOMAIN x : Typed3(g.of, x[k])
    /\ g.type = "message" /\ g.label # "many" => x = None \/ Typed3(g.of, x)
Typed4(n, r) == Lists(n, r) /\ \A i \in DOMAIN n : Value4(n[i], r[n[i].name])

\* The two fields of a Timestamp.
LEMMA TimestampIs ==
    /\ Related(Timestamp, Timestamp)
    /\ \A i \in DOMAIN Timestamp :
         /\ Timestamp[i].label = "one" /\ Timestamp[i].type = "int"
         /\ ~IsNested(Timestamp[i])
    /\ Names(Timestamp) = {"seconds", "nanos"}
<1>1. PICK a, b : a = Num(1, "seconds") /\ b = Num(2, "nanos")
  OBVIOUS
<1>2. /\ a.name = "seconds" /\ b.name = "nanos" /\ a.label = "one" /\ b.label = "one"
      /\ a.type = "int" /\ b.type = "int" /\ Tag(a) = 8 /\ Tag(b) = 16
      /\ WireType(a) = 0 /\ WireType(b) = 0
  BY <1>1 DEF Num, Field, Tag, WireType
<1>3. PICK m : m = Timestamp
  OBVIOUS
<1>4. m = <<a, b>>
  BY <1>1, <1>3 DEF Timestamp
<1>5. Len(m) = 2 /\ DOMAIN m = {1, 2} /\ m[1] = a /\ m[2] = b
  BY ONLY <1>4
<1>6. IsMessage(m)
  <2>1. DOMAIN m = 1 .. Len(m) /\ Len(m) \in Nat
    BY ONLY <1>5
  <2> QED
    BY ONLY <1>2, <1>5, <2>1 DEF IsMessage
<1>7. Related(m, m)
  BY ONLY <1>2, <1>5, <1>6 DEF Related
<1>8. Names(m) = {"seconds", "nanos"}
  BY ONLY <1>2, <1>5 DEF Names
<1>9. \A i \in DOMAIN m : m[i].label = "one" /\ m[i].type = "int" /\ ~IsNested(m[i])
  BY ONLY <1>2, <1>5 DEF IsNested
<1> QED
  BY ONLY <1>3, <1>7, <1>8, <1>9

\* Two sides agree on a Timestamp.
LEMMA TimestampAlike ==
    ASSUME NEW h \in DOMAIN Timestamp, NEW i \in DOMAIN Timestamp,
           Tag(Timestamp[h]) = Tag(Timestamp[i])
    PROVE  Alike(Timestamp[h], Timestamp[i])
<1>1. h = i
  BY TimestampIs DEF Related, IsMessage
<1>2. ~IsNested(Timestamp[h])
  BY TimestampIs
<1> QED
  BY <1>1, <1>2 DEF Alike

\* A function of the two fields is a record of them.
LEMMA StampRecord ==
    ASSUME NEW f, f = [x \in {"seconds", "nanos"} |-> f[x]]
    PROVE  f = [seconds |-> f["seconds"], nanos |-> f["nanos"]]
OBVIOUS

\* A Timestamp at level 1.
LEMMA Stamp1 ==
    ASSUME NEW z
    PROVE  /\ Comp1(Timestamp, Timestamp) /\ Typed1(Timestamp, z)
           /\ M1(Timestamp, Timestamp, z) = [seconds |-> z["seconds"], nanos |-> z["nanos"]]
<1>1. PICK m : m = Timestamp
  OBVIOUS
<1>2. /\ Related(m, m) /\ IsMessage(m) /\ Names(m) = {"seconds", "nanos"}
      /\ \A i \in DOMAIN m : m[i].label = "one" /\ m[i].type = "int" /\ ~IsNested(m[i])
      /\ \A h, i \in DOMAIN m : Tag(m[h]) = Tag(m[i]) => Alike(m[h], m[i])
  BY <1>1, TimestampIs, TimestampAlike DEF Related
<1>3. Comp1(m, m)
  BY ONLY <1>2 DEF Comp1
<1>4. Typed1(m, z)
  BY ONLY <1>2 DEF Typed1, Lists
<1>5. PICK f : f = M1(m, m, z)
  OBVIOUS
<1>6. f = [x \in {"seconds", "nanos"} |-> f[x]]
  BY ONLY <1>2, <1>5 DEF M1
<1>7. ASSUME NEW x \in {"seconds", "nanos"} PROVE f[x] = z[x]
  <2>1. PICK h \in DOMAIN m : m[h].name = x
    BY ONLY <1>2, x \in {"seconds", "nanos"} DEF Names
  <2>2. Named(m, x) = m[h]
    BY ONLY <1>2, <2>1, NamedIs
  <2>3. f[x] = Of1(m[h], m[h], z[x])
    BY ONLY <1>2, <1>5, <2>2, x \in {"seconds", "nanos"} DEF M1
  <2>4. Of1(m[h], m[h], z[x]) = z[x]
    BY ONLY <1>2, h \in DOMAIN m DEF Of1
  <2> QED
    BY ONLY <2>3, <2>4
<1>8. f = [seconds |-> f["seconds"], nanos |-> f["nanos"]]
  BY ONLY <1>6, StampRecord
<1> QED
  BY ONLY <1>1, <1>3, <1>4, <1>5, <1>7, <1>8

\* A Timestamp at level 2.
LEMMA Stamp2 ==
    ASSUME NEW z
    PROVE  /\ Comp2(Timestamp, Timestamp) /\ Typed2(Timestamp, z)
           /\ M2(Timestamp, Timestamp, z) = [seconds |-> z["seconds"], nanos |-> z["nanos"]]
<1>1. PICK m : m = Timestamp
  OBVIOUS
<1>2. /\ Related(m, m) /\ IsMessage(m) /\ Names(m) = {"seconds", "nanos"}
      /\ \A i \in DOMAIN m : m[i].label = "one" /\ m[i].type = "int" /\ ~IsNested(m[i])
      /\ \A h, i \in DOMAIN m : Tag(m[h]) = Tag(m[i]) => Alike(m[h], m[i])
  BY <1>1, TimestampIs, TimestampAlike DEF Related
<1>3. Comp2(m, m)
  BY ONLY <1>2 DEF Comp2
<1>4. Typed2(m, z)
  BY ONLY <1>2 DEF Typed2, Lists, Value2
<1>5. PICK f : f = M2(m, m, z)
  OBVIOUS
<1>6. f = [x \in {"seconds", "nanos"} |-> f[x]]
  BY ONLY <1>2, <1>5 DEF M2
<1>7. ASSUME NEW x \in {"seconds", "nanos"} PROVE f[x] = z[x]
  <2>1. PICK h \in DOMAIN m : m[h].name = x
    BY ONLY <1>2, x \in {"seconds", "nanos"} DEF Names
  <2>2. Named(m, x) = m[h]
    BY ONLY <1>2, <2>1, NamedIs
  <2>3. f[x] = Of2(m[h], m[h], z[x])
    BY ONLY <1>2, <1>5, <2>2, x \in {"seconds", "nanos"} DEF M2
  <2>4. Of2(m[h], m[h], z[x]) = z[x]
    BY ONLY <1>2, h \in DOMAIN m DEF Of2
  <2> QED
    BY ONLY <2>3, <2>4
<1>8. f = [seconds |-> f["seconds"], nanos |-> f["nanos"]]
  BY ONLY <1>6, StampRecord
<1> QED
  BY ONLY <1>1, <1>3, <1>4, <1>5, <1>7, <1>8

\* A Timestamp at level 3.
LEMMA Stamp3 ==
    ASSUME NEW z
    PROVE  /\ Comp3(Timestamp, Timestamp) /\ Typed3(Timestamp, z)
           /\ M3(Timestamp, Timestamp, z) = [seconds |-> z["seconds"], nanos |-> z["nanos"]]
<1>1. PICK m : m = Timestamp
  OBVIOUS
<1>2. /\ Related(m, m) /\ IsMessage(m) /\ Names(m) = {"seconds", "nanos"}
      /\ \A i \in DOMAIN m : m[i].label = "one" /\ m[i].type = "int" /\ ~IsNested(m[i])
      /\ \A h, i \in DOMAIN m : Tag(m[h]) = Tag(m[i]) => Alike(m[h], m[i])
  BY <1>1, TimestampIs, TimestampAlike DEF Related
<1>3. Comp3(m, m)
  BY ONLY <1>2 DEF Comp3
<1>4. Typed3(m, z)
  BY ONLY <1>2 DEF Typed3, Lists, Value3
<1>5. PICK f : f = M3(m, m, z)
  OBVIOUS
<1>6. f = [x \in {"seconds", "nanos"} |-> f[x]]
  BY ONLY <1>2, <1>5 DEF M3
<1>7. ASSUME NEW x \in {"seconds", "nanos"} PROVE f[x] = z[x]
  <2>1. PICK h \in DOMAIN m : m[h].name = x
    BY ONLY <1>2, x \in {"seconds", "nanos"} DEF Names
  <2>2. Named(m, x) = m[h]
    BY ONLY <1>2, <2>1, NamedIs
  <2>3. f[x] = Of3(m[h], m[h], z[x])
    BY ONLY <1>2, <1>5, <2>2, x \in {"seconds", "nanos"} DEF M3
  <2>4. Of3(m[h], m[h], z[x]) = z[x]
    BY ONLY <1>2, h \in DOMAIN m DEF Of3
  <2> QED
    BY ONLY <2>3, <2>4
<1>8. f = [seconds |-> f["seconds"], nanos |-> f["nanos"]]
  BY ONLY <1>6, StampRecord
<1> QED
  BY ONLY <1>1, <1>3, <1>4, <1>5, <1>7, <1>8

\* A date is the Timestamp it is sent as.
LEMMA DateIs ==
    ASSUME NEW x \in Int
    PROVE  /\ DateOf(x) = ToTimestamp(x)
           /\ [seconds |-> ToTimestamp(x)["seconds"], nanos |-> ToTimestamp(x)["nanos"]]
                = ToTimestamp(x)
<1>1. x % 1000 \in Int
  OBVIOUS
<1>2. (x % 1000) * 1000000 = 1000000 * (x % 1000)
  BY ONLY <1>1
<1>3. PICK a, b : a = x \div 1000 /\ b = 1000000 * (x % 1000)
  OBVIOUS
<1>4. ToTimestamp(x) = [seconds |-> a, nanos |-> b]
  BY ONLY <1>2, <1>3 DEF ToTimestamp
<1>5. DateOf(x) = [seconds |-> a, nanos |-> b]
  BY ONLY <1>3 DEF DateOf
<1> QED
  BY ONLY <1>4, <1>5

\* A field at level 1.
LEMMA Field1 ==
    ASSUME NEW f, NEW g, NEW x, Alike(f, g), g.label = "many" => IsSeq(x),
           ~IsNested(f), ~IsNested(g), NEW y,
           \A k \in DOMAIN Sent(g, x) : y[k] = Read1(f, Code1(g, Sent(g, x)[k]))
    PROVE  Of1(f, g, x) = Upto(f, y, Len(Sent(g, x)))
<1>1. Of1(f, g, x) = x
  BY ONLY ~IsNested(f), ~IsNested(g) DEF Of1, IsNested
<1>2. \A k \in DOMAIN Sent(g, x) : y[k] = Sent(g, x)[k]
  BY DEF Read1, Code1
<1>3. FieldReads(f, g, x, y, Of1(f, g, x))
  BY <1>1, <1>2 DEF FieldReads
<1> QED
  BY <1>3, FieldMeans

\* Level 1: what was encoded is decoded to what it means.
LEMMA Level1 ==
    ASSUME NEW m, NEW n, NEW r, Comp1(m, n), Typed1(n, r)
    PROVE  D1(m, E1(n, r)) = M1(m, n, r)
<1>1. /\ Related(m, n) /\ Lists(n, r) /\ IsMessage(m) /\ IsMessage(n)
      /\ \A h \in DOMAIN m, i \in DOMAIN n : Tag(m[h]) = Tag(n[i]) => Alike(m[h], n[i])
  BY DEF Comp1, Typed1, Related
<1>2. PICK s : s = [i \in DOMAIN n |-> Sent(n[i], r[n[i].name])]
  OBVIOUS
<1>3. PICK c, u : /\ c = [i \in DOMAIN n |-> Coded1(n[i], Sent(n[i], r[n[i].name]))]
                  /\ u = FlattenSeq(c)
  OBVIOUS
<1>4. PICK data : data = [i \in DOMAIN n |-> [k \in DOMAIN s[i] |-> Code1(n[i], s[i][k])]]
  OBVIOUS
<1>5. PICK y : y = [i \in DOMAIN n |-> [k \in DOMAIN s[i] |->
                     Read1(FieldOf(m, [tag |-> Tag(n[i])]), data[i][k])]]
  OBVIOUS
<1>6. PICK read : read = [j \in Known(m, u) |-> Read1(FieldOf(m, u[j]), u[j].data)]
  OBVIOUS
<1>7. PICK o, v : /\ o = [x \in Names(m) |-> Of1(Named(m, x), Named(n, x), r[x])]
                  /\ v = M1(m, n, r)
  OBVIOUS
<1>8. E1(n, r) = u /\ D1(m, u) = Assemble(m, u, read)
  BY ONLY <1>3, <1>6 DEF E1, D1
<1>9. IsFun(c, DOMAIN n)
  BY ONLY <1>3 DEF IsFun
<1>10. \A i \in DOMAIN n : c[i] = [k \in DOMAIN Sent(n[i], r[n[i].name]) |->
                                     [tag |-> Tag(n[i]), data |-> data[i][k]]]
  BY ONLY <1>2, <1>3, <1>4 DEF Coded1
<1>11. \A h \in DOMAIN m, i \in DOMAIN n : Tag(m[h]) = Tag(n[i]) =>
         \A k \in DOMAIN Sent(n[i], r[n[i].name]) :
           y[i][k] = Read1(m[h], data[i][k]) /\ data[i][k] = Code1(n[i], s[i][k])
  <2> SUFFICES ASSUME NEW h \in DOMAIN m, NEW i \in DOMAIN n, Tag(m[h]) = Tag(n[i]),
                      NEW k \in DOMAIN Sent(n[i], r[n[i].name])
               PROVE  y[i][k] = Read1(m[h], data[i][k]) /\ data[i][k] = Code1(n[i], s[i][k])
    OBVIOUS
  <2>1. PICK e : e = [tag |-> Tag(n[i])]
    OBVIOUS
  <2>2. e.tag = Tag(m[h])
    BY <2>1
  <2>3. FieldOf(m, e) = m[h]
    BY ONLY <1>1, <2>2, h \in DOMAIN m, FieldOfIs
  <2> QED
    BY ONLY <1>2, <1>4, <1>5, <2>1, <2>3, i \in DOMAIN n, k \in DOMAIN Sent(n[i], r[n[i].name])
<1>12. \A j \in Known(m, u), h \in DOMAIN m, i \in DOMAIN n : Tag(m[h]) = Tag(n[i]) =>
         \A k \in DOMAIN Sent(n[i], r[n[i].name]) :
           FieldOf(m, u[j]) = m[h] /\ u[j].data = data[i][k] => read[j] = y[i][k]
  BY ONLY <1>6, <1>11
<1>13. v = [x \in Names(m) |->
              IF x \in Names(n) /\ WireType(Named(n, x)) = WireType(Named(m, x))
              THEN o[x] ELSE Base(Named(m, x))]
  BY ONLY <1>7 DEF M1
<1>14. ASSUME NEW h \in DOMAIN m, NEW i \in DOMAIN n, Tag(m[h]) = Tag(n[i])
       PROVE  o[m[h].name] = Upto(m[h], y[i], Len(Sent(n[i], r[n[i].name])))
  <2>1. m[h].name \in Names(m) /\ Named(m, m[h].name) = m[h]
    BY <1>1, NamedIs DEF Names
  <2>2. m[h].name = n[i].name
    BY <1>1, <1>14 DEF Related
  <2>3. Named(n, n[i].name) = n[i]
    BY <1>1, NamedIs
  <2>4. PICK f, g, x, z : f = m[h] /\ g = n[i] /\ x = r[n[i].name] /\ z = y[i]
    OBVIOUS
  <2>5. o[m[h].name] = Of1(f, g, x)
    BY ONLY <1>7, <2>1, <2>2, <2>3, <2>4
  <2>6. \A k \in DOMAIN Sent(g, x) : z[k] = Read1(f, Code1(g, Sent(g, x)[k]))
    BY ONLY <1>2, <1>11, <1>14, <2>4, h \in DOMAIN m, i \in DOMAIN n
  <2>7. Alike(f, g) /\ (g.label = "many" => IsSeq(x))
    BY <1>1, <1>14, <2>4 DEF Lists
  <2>8. ~IsNested(f)
    BY <1>14, <2>4 DEF Comp1
  <2>9. ~IsNested(g)
    BY <1>14, <2>4 DEF Comp1
  <2> QED
    BY ONLY <2>4, <2>5, <2>6, <2>7, <2>8, <2>9, Field1
<1>15. Assemble(m, u, read) = v
  <2>1. DOMAIN read = Known(m, u)
    BY ONLY <1>6
  <2>2. \A h \in DOMAIN m, i \in DOMAIN n : Tag(m[h]) = Tag(n[i]) =>
          o[m[h].name] = Upto(m[h], y[i], Len(Sent(n[i], r[n[i].name])))
    BY ONLY <1>14
  <2>3. LevelReads(m, n, r, c, data, u, read, y, o, v)
    BY ONLY <1>1, <1>3, <1>9, <1>10, <1>12, <1>13, <2>1, <2>2 DEF LevelReads
  <2> QED
    BY ONLY <2>3, LevelMeans
<1> QED
  BY ONLY <1>7, <1>8, <1>15

\* A field at level 2: what its entries are read as makes up its meaning.
LEMMA Field2 ==
    ASSUME NEW f, NEW g, NEW x, Alike(f, g), g.label = "many" => IsSeq(x), Value2(g, x),
           f.type = "message" /\ g.type = "message" => Comp1(f.of, g.of), NEW y,
           \A k \in DOMAIN Sent(g, x) : y[k] = Read2(f, Code2(g, Sent(g, x)[k]))
    PROVE  Of2(f, g, x) = Upto(f, y, Len(Sent(g, x)))
<1>1. PICK s : s = Sent(g, x)
  OBVIOUS
<1>2. /\ IsSeq(s) /\ DOMAIN s = 1 .. Len(s)
      /\ g.label = "many" => s = x
      /\ g.label # "many" /\ x # Base(g) => Len(s) = 1 /\ s[1] = x
  BY <1>1, SentIs
<1>3. \A k \in DOMAIN s : y[k] = Read2(f, Code2(g, s[k]))
  BY <1>1
<1>4. IsNested(g) /\ g.label # "many" => Base(g) = None
  BY DEF Alike, Base
<1>5. g.label # "many" /\ x # Base(g) => y[1] = Read2(f, Code2(g, x))
  BY ONLY <1>2, <1>3
<1>6. CASE ~IsNested(f) /\ ~IsNested(g)
  <2>1. Of2(f, g, x) = x
    BY ONLY <1>6 DEF Of2, IsNested
  <2>2. \A k \in DOMAIN s : y[k] = s[k]
    BY ONLY <1>3, <1>6 DEF Read2, Code2
  <2>9. FieldReads(f, g, x, y, Of2(f, g, x))
    BY <1>1, <1>6, <2>1, <2>2 DEF FieldReads
  <2> QED
    BY <2>9, FieldMeans
<1>7. CASE f.type = "date" /\ g.type = "message" /\ g.of = Timestamp /\ g.label = "optional"
  <2>1. IsNested(f) /\ IsNested(g) /\ g.label # "many" /\ Inner(f) = Timestamp
        /\ Inner(g) = Timestamp
    BY ONLY <1>7 DEF IsNested, Inner
  <2>2. CASE x = None
    <3>1. Of2(f, g, x) = None
      BY ONLY <1>7, <2>2 DEF Of2
    <3>9. FieldReads(f, g, x, y, Of2(f, g, x))
      BY <2>1, <2>2, <3>1 DEF FieldReads
    <3> QED
      BY <3>9, FieldMeans
  <2>3. CASE x # None
    <3>1. Of2(f, g, x) = FromTimestamp(x)
      BY ONLY <1>7, <2>3 DEF Of2
    <3>2. D1(Timestamp, E1(Timestamp, x)) = M1(Timestamp, Timestamp, x)
      BY ONLY Stamp1, Level1
    <3>3. y[1] = FromTimestamp(M1(Timestamp, Timestamp, x))
      BY ONLY <1>4, <1>5, <1>7, <2>1, <2>3, <3>2
         DEF Read2, Code2, ToInner, FromInner
    <3>4. FromTimestamp(M1(Timestamp, Timestamp, x)) = FromTimestamp(x)
      BY ONLY Stamp1 DEF FromTimestamp
    <3>9. FieldReads(f, g, x, y, Of2(f, g, x))
      BY <2>1, <2>3, <3>1, <3>3, <3>4 DEF FieldReads
    <3> QED
      BY <3>9, FieldMeans
  <2> QED
    BY <2>2, <2>3
<1>8. CASE f.type = "message" /\ f.of = Timestamp /\ g.type = "date" /\ g.label = "optional"
  <2>1. IsNested(f) /\ IsNested(g) /\ g.label # "many" /\ Inner(f) = Timestamp
        /\ Inner(g) = Timestamp
    BY ONLY <1>8 DEF IsNested, Inner
  <2>2. CASE x = None
    <3>1. Of2(f, g, x) = None
      BY <1>8, <2>2 DEF Of2, Alike
    <3>9. FieldReads(f, g, x, y, Of2(f, g, x))
      BY <2>1, <2>2, <3>1 DEF FieldReads
    <3> QED
      BY <3>9, FieldMeans
  <2>3. CASE x # None
    <3>1. x \in Int
      BY <1>8, <2>3 DEF Value2
    <3>2. PICK z : z = ToTimestamp(x)
      OBVIOUS
    <3>3. Of2(f, g, x) = DateOf(x)
      <4>1. f.label # "many" /\ f.type # "date" /\ g.type # "message"
        BY <1>8 DEF Alike
      <4> QED
        BY ONLY <1>8, <2>3, <4>1 DEF Of2
    <3>4. D1(Timestamp, E1(Timestamp, z)) = M1(Timestamp, Timestamp, z)
      BY ONLY Stamp1, Level1
    <3>5. y[1] = M1(Timestamp, Timestamp, z)
      BY ONLY <1>4, <1>5, <1>8, <2>1, <2>3, <3>2, <3>4
         DEF Read2, Code2, ToInner, FromInner
    <3>6. Of2(f, g, x) = y[1]
      BY ONLY <3>1, <3>2, <3>3, <3>5, Stamp1, DateIs
    <3>9. FieldReads(f, g, x, y, Of2(f, g, x))
      BY <2>1, <2>3, <3>6 DEF FieldReads
    <3> QED
      BY <3>9, FieldMeans
  <2> QED
    BY <2>2, <2>3
<1>9. CASE f.type = "message" /\ g.type = "message" /\ g.label \in {"optional", "many"}
  <2>1. /\ IsNested(f) /\ IsNested(g) /\ Inner(f) = f.of /\ Inner(g) = g.of
        /\ Comp1(f.of, g.of) /\ f.label = g.label
    BY <1>9 DEF IsNested, Inner, Alike
  <2>2. \A z : Typed1(g.of, z) => D1(f.of, E1(g.of, z)) = M1(f.of, g.of, z)
    BY ONLY <2>1, Level1
  <2>3. \A z : Typed1(g.of, z) => Read2(f, Code2(g, z)) = M1(f.of, g.of, z)
    BY ONLY <1>9, <2>1, <2>2 DEF Read2, Code2, ToInner, FromInner
  <2>4. CASE g.label = "many"
    <3>1. \A k \in DOMAIN x : Typed1(g.of, x[k])
      BY <1>9, <2>4 DEF Value2
    <3>2. \A k \in DOMAIN x : y[k] = M1(f.of, g.of, x[k])
      BY ONLY <1>2, <1>3, <2>3, <2>4, <3>1
    <3>3. Of2(f, g, x) = [k \in DOMAIN x |-> M1(f.of, g.of, x[k])]
      BY ONLY <1>9, <2>1, <2>4 DEF Of2
    <3>4. Of2(f, g, x) = [k \in DOMAIN x |-> y[k]]
      BY ONLY <3>2, <3>3
    <3>9. FieldReads(f, g, x, y, Of2(f, g, x))
      BY <2>1, <2>4, <3>4 DEF FieldReads
    <3> QED
      BY <3>9, FieldMeans
  <2>5. CASE g.label # "many" /\ x = None
    <3>1. Of2(f, g, x) = None
      BY ONLY <1>9, <2>1, <2>5 DEF Of2
    <3>9. FieldReads(f, g, x, y, Of2(f, g, x))
      BY <2>1, <2>5, <3>1 DEF FieldReads
    <3> QED
      BY <3>9, FieldMeans
  <2>6. CASE g.label # "many" /\ x # None
    <3>1. Typed1(g.of, x)
      BY <1>9, <2>6 DEF Value2
    <3>2. Of2(f, g, x) = M1(f.of, g.of, x)
      BY ONLY <1>9, <2>1, <2>6 DEF Of2
    <3>3. Of2(f, g, x) = y[1]
      BY ONLY <1>4, <1>5, <2>1, <2>3, <2>6, <3>1, <3>2
    <3>9. FieldReads(f, g, x, y, Of2(f, g, x))
      BY <2>1, <2>6, <3>3 DEF FieldReads
    <3> QED
      BY <3>9, FieldMeans
  <2> QED
    BY <2>4, <2>5, <2>6
<1> QED
  BY <1>6, <1>7, <1>8, <1>9 DEF Alike

\* Level 2: what was encoded is decoded to what it means.
LEMMA Level2 ==
    ASSUME NEW m, NEW n, NEW r, Comp2(m, n), Typed2(n, r)
    PROVE  D2(m, E2(n, r)) = M2(m, n, r)
<1>1. /\ Related(m, n) /\ Lists(n, r) /\ IsMessage(m) /\ IsMessage(n)
      /\ \A h \in DOMAIN m, i \in DOMAIN n : Tag(m[h]) = Tag(n[i]) => Alike(m[h], n[i])
  BY DEF Comp2, Typed2, Related
<1>2. PICK s : s = [i \in DOMAIN n |-> Sent(n[i], r[n[i].name])]
  OBVIOUS
<1>3. PICK c, u : /\ c = [i \in DOMAIN n |-> Coded2(n[i], Sent(n[i], r[n[i].name]))]
                  /\ u = FlattenSeq(c)
  OBVIOUS
<1>4. PICK data : data = [i \in DOMAIN n |-> [k \in DOMAIN s[i] |-> Code2(n[i], s[i][k])]]
  OBVIOUS
<1>5. PICK y : y = [i \in DOMAIN n |-> [k \in DOMAIN s[i] |->
                     Read2(FieldOf(m, [tag |-> Tag(n[i])]), data[i][k])]]
  OBVIOUS
<1>6. PICK read : read = [j \in Known(m, u) |-> Read2(FieldOf(m, u[j]), u[j].data)]
  OBVIOUS
<1>7. PICK o, v : /\ o = [x \in Names(m) |-> Of2(Named(m, x), Named(n, x), r[x])]
                  /\ v = M2(m, n, r)
  OBVIOUS
<1>8. E2(n, r) = u /\ D2(m, u) = Assemble(m, u, read)
  BY ONLY <1>3, <1>6 DEF E2, D2
<1>9. IsFun(c, DOMAIN n)
  BY ONLY <1>3 DEF IsFun
<1>10. \A i \in DOMAIN n : c[i] = [k \in DOMAIN Sent(n[i], r[n[i].name]) |->
                                     [tag |-> Tag(n[i]), data |-> data[i][k]]]
  BY ONLY <1>2, <1>3, <1>4 DEF Coded2
<1>11. \A h \in DOMAIN m, i \in DOMAIN n : Tag(m[h]) = Tag(n[i]) =>
         \A k \in DOMAIN Sent(n[i], r[n[i].name]) :
           y[i][k] = Read2(m[h], data[i][k]) /\ data[i][k] = Code2(n[i], s[i][k])
  <2> SUFFICES ASSUME NEW h \in DOMAIN m, NEW i \in DOMAIN n, Tag(m[h]) = Tag(n[i]),
                      NEW k \in DOMAIN Sent(n[i], r[n[i].name])
               PROVE  y[i][k] = Read2(m[h], data[i][k]) /\ data[i][k] = Code2(n[i], s[i][k])
    OBVIOUS
  <2>1. PICK e : e = [tag |-> Tag(n[i])]
    OBVIOUS
  <2>2. e.tag = Tag(m[h])
    BY <2>1
  <2>3. FieldOf(m, e) = m[h]
    BY ONLY <1>1, <2>2, h \in DOMAIN m, FieldOfIs
  <2> QED
    BY ONLY <1>2, <1>4, <1>5, <2>1, <2>3, i \in DOMAIN n, k \in DOMAIN Sent(n[i], r[n[i].name])
<1>12. \A j \in Known(m, u), h \in DOMAIN m, i \in DOMAIN n : Tag(m[h]) = Tag(n[i]) =>
         \A k \in DOMAIN Sent(n[i], r[n[i].name]) :
           FieldOf(m, u[j]) = m[h] /\ u[j].data = data[i][k] => read[j] = y[i][k]
  BY ONLY <1>6, <1>11
<1>13. v = [x \in Names(m) |->
              IF x \in Names(n) /\ WireType(Named(n, x)) = WireType(Named(m, x))
              THEN o[x] ELSE Base(Named(m, x))]
  BY ONLY <1>7 DEF M2
<1>14. ASSUME NEW h \in DOMAIN m, NEW i \in DOMAIN n, Tag(m[h]) = Tag(n[i])
       PROVE  o[m[h].name] = Upto(m[h], y[i], Len(Sent(n[i], r[n[i].name])))
  <2>1. m[h].name \in Names(m) /\ Named(m, m[h].name) = m[h]
    BY <1>1, NamedIs DEF Names
  <2>2. m[h].name = n[i].name
    BY <1>1, <1>14 DEF Related
  <2>3. Named(n, n[i].name) = n[i]
    BY <1>1, NamedIs
  <2>4. PICK f, g, x, z : f = m[h] /\ g = n[i] /\ x = r[n[i].name] /\ z = y[i]
    OBVIOUS
  <2>5. o[m[h].name] = Of2(f, g, x)
    BY ONLY <1>7, <2>1, <2>2, <2>3, <2>4
  <2>6. \A k \in DOMAIN Sent(g, x) : z[k] = Read2(f, Code2(g, Sent(g, x)[k]))
    BY ONLY <1>2, <1>11, <1>14, <2>4, h \in DOMAIN m, i \in DOMAIN n
  <2>7. Alike(f, g) /\ (g.label = "many" => IsSeq(x))
    BY <1>1, <1>14, <2>4 DEF Lists
  <2>8. f.type = "message" /\ g.type = "message" => Comp1(f.of, g.of)
    BY <1>14, <2>4 DEF Comp2
  <2>9. Value2(g, x)
    BY <2>4 DEF Typed2
  <2> QED
    BY ONLY <2>4, <2>5, <2>6, <2>7, <2>8, <2>9, Field2
<1>15. Assemble(m, u, read) = v
  <2>1. DOMAIN read = Known(m, u)
    BY ONLY <1>6
  <2>2. \A h \in DOMAIN m, i \in DOMAIN n : Tag(m[h]) = Tag(n[i]) =>
          o[m[h].name] = Upto(m[h], y[i], Len(Sent(n[i], r[n[i].name])))
    BY ONLY <1>14
  <2>3. LevelReads(m, n, r, c, data, u, read, y, o, v)
    BY ONLY <1>1, <1>3, <1>9, <1>10, <1>12, <1>13, <2>1, <2>2 DEF LevelReads
  <2> QED
    BY ONLY <2>3, LevelMeans
<1> QED
  BY ONLY <1>7, <1>8, <1>15

\* A field at level 3: what its entries are read as makes up its meaning.
LEMMA Field3 ==
    ASSUME NEW f, NEW g, NEW x, Alike(f, g), g.label = "many" => IsSeq(x), Value3(g, x),
           f.type = "message" /\ g.type = "message" => Comp2(f.of, g.of), NEW y,
           \A k \in DOMAIN Sent(g, x) : y[k] = Read3(f, Code3(g, Sent(g, x)[k]))
    PROVE  Of3(f, g, x) = Upto(f, y, Len(Sent(g, x)))
<1>1. PICK s : s = Sent(g, x)
  OBVIOUS
<1>2. /\ IsSeq(s) /\ DOMAIN s = 1 .. Len(s)
      /\ g.label = "many" => s = x
      /\ g.label # "many" /\ x # Base(g) => Len(s) = 1 /\ s[1] = x
  BY <1>1, SentIs
<1>3. \A k \in DOMAIN s : y[k] = Read3(f, Code3(g, s[k]))
  BY <1>1
<1>4. IsNested(g) /\ g.label # "many" => Base(g) = None
  BY DEF Alike, Base
<1>5. g.label # "many" /\ x # Base(g) => y[1] = Read3(f, Code3(g, x))
  BY ONLY <1>2, <1>3
<1>6. CASE ~IsNested(f) /\ ~IsNested(g)
  <2>1. Of3(f, g, x) = x
    BY ONLY <1>6 DEF Of3, IsNested
  <2>2. \A k \in DOMAIN s : y[k] = s[k]
    BY ONLY <1>3, <1>6 DEF Read3, Code3
  <2>9. FieldReads(f, g, x, y, Of3(f, g, x))
    BY <1>1, <1>6, <2>1, <2>2 DEF FieldReads
  <2> QED
    BY <2>9, FieldMeans
<1>7. CASE f.type = "date" /\ g.type = "message" /\ g.of = Timestamp /\ g.label = "optional"
  <2>1. IsNested(f) /\ IsNested(g) /\ g.label # "many" /\ Inner(f) = Timestamp
        /\ Inner(g) = Timestamp
    BY ONLY <1>7 DEF IsNested, Inner
  <2>2. CASE x = None
    <3>1. Of3(f, g, x) = None
      BY ONLY <1>7, <2>2 DEF Of3
    <3>9. FieldReads(f, g, x, y, Of3(f, g, x))
      BY <2>1, <2>2, <3>1 DEF FieldReads
    <3> QED
      BY <3>9, FieldMeans
  <2>3. CASE x # None
    <3>1. Of3(f, g, x) = FromTimestamp(x)
      BY ONLY <1>7, <2>3 DEF Of3
    <3>2. D2(Timestamp, E2(Timestamp, x)) = M2(Timestamp, Timestamp, x)
      BY ONLY Stamp2, Level2
    <3>3. y[1] = FromTimestamp(M2(Timestamp, Timestamp, x))
      BY ONLY <1>4, <1>5, <1>7, <2>1, <2>3, <3>2
         DEF Read3, Code3, ToInner, FromInner
    <3>4. FromTimestamp(M2(Timestamp, Timestamp, x)) = FromTimestamp(x)
      BY ONLY Stamp2 DEF FromTimestamp
    <3>9. FieldReads(f, g, x, y, Of3(f, g, x))
      BY <2>1, <2>3, <3>1, <3>3, <3>4 DEF FieldReads
    <3> QED
      BY <3>9, FieldMeans
  <2> QED
    BY <2>2, <2>3
<1>8. CASE f.type = "message" /\ f.of = Timestamp /\ g.type = "date" /\ g.label = "optional"
  <2>1. IsNested(f) /\ IsNested(g) /\ g.label # "many" /\ Inner(f) = Timestamp
        /\ Inner(g) = Timestamp
    BY ONLY <1>8 DEF IsNested, Inner
  <2>2. CASE x = None
    <3>1. Of3(f, g, x) = None
      BY <1>8, <2>2 DEF Of3, Alike
    <3>9. FieldReads(f, g, x, y, Of3(f, g, x))
      BY <2>1, <2>2, <3>1 DEF FieldReads
    <3> QED
      BY <3>9, FieldMeans
  <2>3. CASE x # None
    <3>1. x \in Int
      BY <1>8, <2>3 DEF Value3
    <3>2. PICK z : z = ToTimestamp(x)
      OBVIOUS
    <3>3. Of3(f, g, x) = DateOf(x)
      <4>1. f.label # "many" /\ f.type # "date" /\ g.type # "message"
        BY <1>8 DEF Alike
      <4> QED
        BY ONLY <1>8, <2>3, <4>1 DEF Of3
    <3>4. D2(Timestamp, E2(Timestamp, z)) = M2(Timestamp, Timestamp, z)
      BY ONLY Stamp2, Level2
    <3>5. y[1] = M2(Timestamp, Timestamp, z)
      BY ONLY <1>4, <1>5, <1>8, <2>1, <2>3, <3>2, <3>4
         DEF Read3, Code3, ToInner, FromInner
    <3>6. Of3(f, g, x) = y[1]
      BY ONLY <3>1, <3>2, <3>3, <3>5, Stamp2, DateIs
    <3>9. FieldReads(f, g, x, y, Of3(f, g, x))
      BY <2>1, <2>3, <3>6 DEF FieldReads
    <3> QED
      BY <3>9, FieldMeans
  <2> QED
    BY <2>2, <2>3
<1>9. CASE f.type = "message" /\ g.type = "message" /\ g.label \in {"optional", "many"}
  <2>1. /\ IsNested(f) /\ IsNested(g) /\ Inner(f) = f.of /\ Inner(g) = g.of
        /\ Comp2(f.of, g.of) /\ f.label = g.label
    BY <1>9 DEF IsNested, Inner, Alike
  <2>2. \A z : Typed2(g.of, z) => D2(f.of, E2(g.of, z)) = M2(f.of, g.of, z)
    BY ONLY <2>1, Level2
  <2>3. \A z : Typed2(g.of, z) => Read3(f, Code3(g, z)) = M2(f.of, g.of, z)
    BY ONLY <1>9, <2>1, <2>2 DEF Read3, Code3, ToInner, FromInner
  <2>4. CASE g.label = "many"
    <3>1. \A k \in DOMAIN x : Typed2(g.of, x[k])
      BY <1>9, <2>4 DEF Value3
    <3>2. \A k \in DOMAIN x : y[k] = M2(f.of, g.of, x[k])
      BY ONLY <1>2, <1>3, <2>3, <2>4, <3>1
    <3>3. Of3(f, g, x) = [k \in DOMAIN x |-> M2(f.of, g.of, x[k])]
      BY ONLY <1>9, <2>1, <2>4 DEF Of3
    <3>4. Of3(f, g, x) = [k \in DOMAIN x |-> y[k]]
      BY ONLY <3>2, <3>3
    <3>9. FieldReads(f, g, x, y, Of3(f, g, x))
      BY <2>1, <2>4, <3>4 DEF FieldReads
    <3> QED
      BY <3>9, FieldMeans
  <2>5. CASE g.label # "many" /\ x = None
    <3>1. Of3(f, g, x) = None
      BY ONLY <1>9, <2>1, <2>5 DEF Of3
    <3>9. FieldReads(f, g, x, y, Of3(f, g, x))
      BY <2>1, <2>5, <3>1 DEF FieldReads
    <3> QED
      BY <3>9, FieldMeans
  <2>6. CASE g.label # "many" /\ x # None
    <3>1. Typed2(g.of, x)
      BY <1>9, <2>6 DEF Value3
    <3>2. Of3(f, g, x) = M2(f.of, g.of, x)
      BY ONLY <1>9, <2>1, <2>6 DEF Of3
    <3>3. Of3(f, g, x) = y[1]
      BY ONLY <1>4, <1>5, <2>1, <2>3, <2>6, <3>1, <3>2
    <3>9. FieldReads(f, g, x, y, Of3(f, g, x))
      BY <2>1, <2>6, <3>3 DEF FieldReads
    <3> QED
      BY <3>9, FieldMeans
  <2> QED
    BY <2>4, <2>5, <2>6
<1> QED
  BY <1>6, <1>7, <1>8, <1>9 DEF Alike

\* Level 3: what was encoded is decoded to what it means.
LEMMA Level3 ==
    ASSUME NEW m, NEW n, NEW r, Comp3(m, n), Typed3(n, r)
    PROVE  D3(m, E3(n, r)) = M3(m, n, r)
<1>1. /\ Related(m, n) /\ Lists(n, r) /\ IsMessage(m) /\ IsMessage(n)
      /\ \A h \in DOMAIN m, i \in DOMAIN n : Tag(m[h]) = Tag(n[i]) => Alike(m[h], n[i])
  BY DEF Comp3, Typed3, Related
<1>2. PICK s : s = [i \in DOMAIN n |-> Sent(n[i], r[n[i].name])]
  OBVIOUS
<1>3. PICK c, u : /\ c = [i \in DOMAIN n |-> Coded3(n[i], Sent(n[i], r[n[i].name]))]
                  /\ u = FlattenSeq(c)
  OBVIOUS
<1>4. PICK data : data = [i \in DOMAIN n |-> [k \in DOMAIN s[i] |-> Code3(n[i], s[i][k])]]
  OBVIOUS
<1>5. PICK y : y = [i \in DOMAIN n |-> [k \in DOMAIN s[i] |->
                     Read3(FieldOf(m, [tag |-> Tag(n[i])]), data[i][k])]]
  OBVIOUS
<1>6. PICK read : read = [j \in Known(m, u) |-> Read3(FieldOf(m, u[j]), u[j].data)]
  OBVIOUS
<1>7. PICK o, v : /\ o = [x \in Names(m) |-> Of3(Named(m, x), Named(n, x), r[x])]
                  /\ v = M3(m, n, r)
  OBVIOUS
<1>8. E3(n, r) = u /\ D3(m, u) = Assemble(m, u, read)
  BY ONLY <1>3, <1>6 DEF E3, D3
<1>9. IsFun(c, DOMAIN n)
  BY ONLY <1>3 DEF IsFun
<1>10. \A i \in DOMAIN n : c[i] = [k \in DOMAIN Sent(n[i], r[n[i].name]) |->
                                     [tag |-> Tag(n[i]), data |-> data[i][k]]]
  BY ONLY <1>2, <1>3, <1>4 DEF Coded3
<1>11. \A h \in DOMAIN m, i \in DOMAIN n : Tag(m[h]) = Tag(n[i]) =>
         \A k \in DOMAIN Sent(n[i], r[n[i].name]) :
           y[i][k] = Read3(m[h], data[i][k]) /\ data[i][k] = Code3(n[i], s[i][k])
  <2> SUFFICES ASSUME NEW h \in DOMAIN m, NEW i \in DOMAIN n, Tag(m[h]) = Tag(n[i]),
                      NEW k \in DOMAIN Sent(n[i], r[n[i].name])
               PROVE  y[i][k] = Read3(m[h], data[i][k]) /\ data[i][k] = Code3(n[i], s[i][k])
    OBVIOUS
  <2>1. PICK e : e = [tag |-> Tag(n[i])]
    OBVIOUS
  <2>2. e.tag = Tag(m[h])
    BY <2>1
  <2>3. FieldOf(m, e) = m[h]
    BY ONLY <1>1, <2>2, h \in DOMAIN m, FieldOfIs
  <2> QED
    BY ONLY <1>2, <1>4, <1>5, <2>1, <2>3, i \in DOMAIN n, k \in DOMAIN Sent(n[i], r[n[i].name])
<1>12. \A j \in Known(m, u), h \in DOMAIN m, i \in DOMAIN n : Tag(m[h]) = Tag(n[i]) =>
         \A k \in DOMAIN Sent(n[i], r[n[i].name]) :
           FieldOf(m, u[j]) = m[h] /\ u[j].data = data[i][k] => read[j] = y[i][k]
  BY ONLY <1>6, <1>11
<1>13. v = [x \in Names(m) |->
              IF x \in Names(n) /\ WireType(Named(n, x)) = WireType(Named(m, x))
              THEN o[x] ELSE Base(Named(m, x))]
  BY ONLY <1>7 DEF M3
<1>14. ASSUME NEW h \in DOMAIN m, NEW i \in DOMAIN n, Tag(m[h]) = Tag(n[i])
       PROVE  o[m[h].name] = Upto(m[h], y[i], Len(Sent(n[i], r[n[i].name])))
  <2>1. m[h].name \in Names(m) /\ Named(m, m[h].name) = m[h]
    BY <1>1, NamedIs DEF Names
  <2>2. m[h].name = n[i].name
    BY <1>1, <1>14 DEF Related
  <2>3. Named(n, n[i].name) = n[i]
    BY <1>1, NamedIs
  <2>4. PICK f, g, x, z : f = m[h] /\ g = n[i] /\ x = r[n[i].name] /\ z = y[i]
    OBVIOUS
  <2>5. o[m[h].name] = Of3(f, g, x)
    BY ONLY <1>7, <2>1, <2>2, <2>3, <2>4
  <2>6. \A k \in DOMAIN Sent(g, x) : z[k] = Read3(f, Code3(g, Sent(g, x)[k]))
    BY ONLY <1>2, <1>11, <1>14, <2>4, h \in DOMAIN m, i \in DOMAIN n
  <2>7. Alike(f, g) /\ (g.label = "many" => IsSeq(x))
    BY <1>1, <1>14, <2>4 DEF Lists
  <2>8. f.type = "message" /\ g.type = "message" => Comp2(f.of, g.of)
    BY <1>14, <2>4 DEF Comp3
  <2>9. Value3(g, x)
    BY <2>4 DEF Typed3
  <2> QED
    BY ONLY <2>4, <2>5, <2>6, <2>7, <2>8, <2>9, Field3
<1>15. Assemble(m, u, read) = v
  <2>1. DOMAIN read = Known(m, u)
    BY ONLY <1>6
  <2>2. \A h \in DOMAIN m, i \in DOMAIN n : Tag(m[h]) = Tag(n[i]) =>
          o[m[h].name] = Upto(m[h], y[i], Len(Sent(n[i], r[n[i].name])))
    BY ONLY <1>14
  <2>3. LevelReads(m, n, r, c, data, u, read, y, o, v)
    BY ONLY <1>1, <1>3, <1>9, <1>10, <1>12, <1>13, <2>1, <2>2 DEF LevelReads
  <2> QED
    BY ONLY <2>3, LevelMeans
<1> QED
  BY ONLY <1>7, <1>8, <1>15

\* A field at level 4: what its entries are read as makes up its meaning.
LEMMA Field4 ==
    ASSUME NEW f, NEW g, NEW x, Alike(f, g), g.label = "many" => IsSeq(x), Value4(g, x),
           f.type = "message" /\ g.type = "message" => Comp3(f.of, g.of), NEW y,
           \A k \in DOMAIN Sent(g, x) : y[k] = Read4(f, Code4(g, Sent(g, x)[k]))
    PROVE  Of4(f, g, x) = Upto(f, y, Len(Sent(g, x)))
<1>1. PICK s : s = Sent(g, x)
  OBVIOUS
<1>2. /\ IsSeq(s) /\ DOMAIN s = 1 .. Len(s)
      /\ g.label = "many" => s = x
      /\ g.label # "many" /\ x # Base(g) => Len(s) = 1 /\ s[1] = x
  BY <1>1, SentIs
<1>3. \A k \in DOMAIN s : y[k] = Read4(f, Code4(g, s[k]))
  BY <1>1
<1>4. IsNested(g) /\ g.label # "many" => Base(g) = None
  BY DEF Alike, Base
<1>5. g.label # "many" /\ x # Base(g) => y[1] = Read4(f, Code4(g, x))
  BY ONLY <1>2, <1>3
<1>6. CASE ~IsNested(f) /\ ~IsNested(g)
  <2>1. Of4(f, g, x) = x
    BY ONLY <1>6 DEF Of4, IsNested
  <2>2. \A k \in DOMAIN s : y[k] = s[k]
    BY ONLY <1>3, <1>6 DEF Read4, Code4
  <2>9. FieldReads(f, g, x, y, Of4(f, g, x))
    BY <1>1, <1>6, <2>1, <2>2 DEF FieldReads
  <2> QED
    BY <2>9, FieldMeans
<1>7. CASE f.type = "date" /\ g.type = "message" /\ g.of = Timestamp /\ g.label = "optional"
  <2>1. IsNested(f) /\ IsNested(g) /\ g.label # "many" /\ Inner(f) = Timestamp
        /\ Inner(g) = Timestamp
    BY ONLY <1>7 DEF IsNested, Inner
  <2>2. CASE x = None
    <3>1. Of4(f, g, x) = None
      BY ONLY <1>7, <2>2 DEF Of4
    <3>9. FieldReads(f, g, x, y, Of4(f, g, x))
      BY <2>1, <2>2, <3>1 DEF FieldReads
    <3> QED
      BY <3>9, FieldMeans
  <2>3. CASE x # None
    <3>1. Of4(f, g, x) = FromTimestamp(x)
      BY ONLY <1>7, <2>3 DEF Of4
    <3>2. D3(Timestamp, E3(Timestamp, x)) = M3(Timestamp, Timestamp, x)
      BY ONLY Stamp3, Level3
    <3>3. y[1] = FromTimestamp(M3(Timestamp, Timestamp, x))
      BY ONLY <1>4, <1>5, <1>7, <2>1, <2>3, <3>2
         DEF Read4, Code4, ToInner, FromInner
    <3>4. FromTimestamp(M3(Timestamp, Timestamp, x)) = FromTimestamp(x)
      BY ONLY Stamp3 DEF FromTimestamp
    <3>9. FieldReads(f, g, x, y, Of4(f, g, x))
      BY <2>1, <2>3, <3>1, <3>3, <3>4 DEF FieldReads
    <3> QED
      BY <3>9, FieldMeans
  <2> QED
    BY <2>2, <2>3
<1>8. CASE f.type = "message" /\ f.of = Timestamp /\ g.type = "date" /\ g.label = "optional"
  <2>1. IsNested(f) /\ IsNested(g) /\ g.label # "many" /\ Inner(f) = Timestamp
        /\ Inner(g) = Timestamp
    BY ONLY <1>8 DEF IsNested, Inner
  <2>2. CASE x = None
    <3>1. Of4(f, g, x) = None
      BY <1>8, <2>2 DEF Of4, Alike
    <3>9. FieldReads(f, g, x, y, Of4(f, g, x))
      BY <2>1, <2>2, <3>1 DEF FieldReads
    <3> QED
      BY <3>9, FieldMeans
  <2>3. CASE x # None
    <3>1. x \in Int
      BY <1>8, <2>3 DEF Value4
    <3>2. PICK z : z = ToTimestamp(x)
      OBVIOUS
    <3>3. Of4(f, g, x) = DateOf(x)
      <4>1. f.label # "many" /\ f.type # "date" /\ g.type # "message"
        BY <1>8 DEF Alike
      <4> QED
        BY ONLY <1>8, <2>3, <4>1 DEF Of4
    <3>4. D3(Timestamp, E3(Timestamp, z)) = M3(Timestamp, Timestamp, z)
      BY ONLY Stamp3, Level3
    <3>5. y[1] = M3(Timestamp, Timestamp, z)
      BY ONLY <1>4, <1>5, <1>8, <2>1, <2>3, <3>2, <3>4
         DEF Read4, Code4, ToInner, FromInner
    <3>6. Of4(f, g, x) = y[1]
      BY ONLY <3>1, <3>2, <3>3, <3>5, Stamp3, DateIs
    <3>9. FieldReads(f, g, x, y, Of4(f, g, x))
      BY <2>1, <2>3, <3>6 DEF FieldReads
    <3> QED
      BY <3>9, FieldMeans
  <2> QED
    BY <2>2, <2>3
<1>9. CASE f.type = "message" /\ g.type = "message" /\ g.label \in {"optional", "many"}
  <2>1. /\ IsNested(f) /\ IsNested(g) /\ Inner(f) = f.of /\ Inner(g) = g.of
        /\ Comp3(f.of, g.of) /\ f.label = g.label
    BY <1>9 DEF IsNested, Inner, Alike
  <2>2. \A z : Typed3(g.of, z) => D3(f.of, E3(g.of, z)) = M3(f.of, g.of, z)
    BY ONLY <2>1, Level3
  <2>3. \A z : Typed3(g.of, z) => Read4(f, Code4(g, z)) = M3(f.of, g.of, z)
    BY ONLY <1>9, <2>1, <2>2 DEF Read4, Code4, ToInner, FromInner
  <2>4. CASE g.label = "many"
    <3>1. \A k \in DOMAIN x : Typed3(g.of, x[k])
      BY <1>9, <2>4 DEF Value4
    <3>2. \A k \in DOMAIN x : y[k] = M3(f.of, g.of, x[k])
      BY ONLY <1>2, <1>3, <2>3, <2>4, <3>1
    <3>3. Of4(f, g, x) = [k \in DOMAIN x |-> M3(f.of, g.of, x[k])]
      BY ONLY <1>9, <2>1, <2>4 DEF Of4
    <3>4. Of4(f, g, x) = [k \in DOMAIN x |-> y[k]]
      BY ONLY <3>2, <3>3
    <3>9. FieldReads(f, g, x, y, Of4(f, g, x))
      BY <2>1, <2>4, <3>4 DEF FieldReads
    <3> QED
      BY <3>9, FieldMeans
  <2>5. CASE g.label # "many" /\ x = None
    <3>1. Of4(f, g, x) = None
      BY ONLY <1>9, <2>1, <2>5 DEF Of4
    <3>9. FieldReads(f, g, x, y, Of4(f, g, x))
      BY <2>1, <2>5, <3>1 DEF FieldReads
    <3> QED
      BY <3>9, FieldMeans
  <2>6. CASE g.label # "many" /\ x # None
    <3>1. Typed3(g.of, x)
      BY <1>9, <2>6 DEF Value4
    <3>2. Of4(f, g, x) = M3(f.of, g.of, x)
      BY ONLY <1>9, <2>1, <2>6 DEF Of4
    <3>3. Of4(f, g, x) = y[1]
      BY ONLY <1>4, <1>5, <2>1, <2>3, <2>6, <3>1, <3>2
    <3>9. FieldReads(f, g, x, y, Of4(f, g, x))
      BY <2>1, <2>6, <3>3 DEF FieldReads
    <3> QED
      BY <3>9, FieldMeans
  <2> QED
    BY <2>4, <2>5, <2>6
<1> QED
  BY <1>6, <1>7, <1>8, <1>9 DEF Alike

\* Level 4: what was encoded is decoded to what it means.
LEMMA Level4 ==
    ASSUME NEW m, NEW n, NEW r, Comp4(m, n), Typed4(n, r)
    PROVE  D4(m, E4(n, r)) = M4(m, n, r)
<1>1. /\ Related(m, n) /\ Lists(n, r) /\ IsMessage(m) /\ IsMessage(n)
      /\ \A h \in DOMAIN m, i \in DOMAIN n : Tag(m[h]) = Tag(n[i]) => Alike(m[h], n[i])
  BY DEF Comp4, Typed4, Related
<1>2. PICK s : s = [i \in DOMAIN n |-> Sent(n[i], r[n[i].name])]
  OBVIOUS
<1>3. PICK c, u : /\ c = [i \in DOMAIN n |-> Coded4(n[i], Sent(n[i], r[n[i].name]))]
                  /\ u = FlattenSeq(c)
  OBVIOUS
<1>4. PICK data : data = [i \in DOMAIN n |-> [k \in DOMAIN s[i] |-> Code4(n[i], s[i][k])]]
  OBVIOUS
<1>5. PICK y : y = [i \in DOMAIN n |-> [k \in DOMAIN s[i] |->
                     Read4(FieldOf(m, [tag |-> Tag(n[i])]), data[i][k])]]
  OBVIOUS
<1>6. PICK read : read = [j \in Known(m, u) |-> Read4(FieldOf(m, u[j]), u[j].data)]
  OBVIOUS
<1>7. PICK o, v : /\ o = [x \in Names(m) |-> Of4(Named(m, x), Named(n, x), r[x])]
                  /\ v = M4(m, n, r)
  OBVIOUS
<1>8. E4(n, r) = u /\ D4(m, u) = Assemble(m, u, read)
  BY ONLY <1>3, <1>6 DEF E4, D4
<1>9. IsFun(c, DOMAIN n)
  BY ONLY <1>3 DEF IsFun
<1>10. \A i \in DOMAIN n : c[i] = [k \in DOMAIN Sent(n[i], r[n[i].name]) |->
                                     [tag |-> Tag(n[i]), data |-> data[i][k]]]
  BY ONLY <1>2, <1>3, <1>4 DEF Coded4
<1>11. \A h \in DOMAIN m, i \in DOMAIN n : Tag(m[h]) = Tag(n[i]) =>
         \A k \in DOMAIN Sent(n[i], r[n[i].name]) :
           y[i][k] = Read4(m[h], data[i][k]) /\ data[i][k] = Code4(n[i], s[i][k])
  <2> SUFFICES ASSUME NEW h \in DOMAIN m, NEW i \in DOMAIN n, Tag(m[h]) = Tag(n[i]),
                      NEW k \in DOMAIN Sent(n[i], r[n[i].name])
               PROVE  y[i][k] = Read4(m[h], data[i][k]) /\ data[i][k] = Code4(n[i], s[i][k])
    OBVIOUS
  <2>1. PICK e : e = [tag |-> Tag(n[i])]
    OBVIOUS
  <2>2. e.tag = Tag(m[h])
    BY <2>1
  <2>3. FieldOf(m, e) = m[h]
    BY ONLY <1>1, <2>2, h \in DOMAIN m, FieldOfIs
  <2> QED
    BY ONLY <1>2, <1>4, <1>5, <2>1, <2>3, i \in DOMAIN n, k \in DOMAIN Sent(n[i], r[n[i].name])
<1>12. \A j \in Known(m, u), h \in DOMAIN m, i \in DOMAIN n : Tag(m[h]) = Tag(n[i]) =>
         \A k \in DOMAIN Sent(n[i], r[n[i].name]) :
           FieldOf(m, u[j]) = m[h] /\ u[j].data = data[i][k] => read[j] = y[i][k]
  BY ONLY <1>6, <1>11
<1>13. v = [x \in Names(m) |->
              IF x \in Names(n) /\ WireType(Named(n, x)) = WireType(Named(m, x))
              THEN o[x] ELSE Base(Named(m, x))]
  BY ONLY <1>7 DEF M4
<1>14. ASSUME NEW h \in DOMAIN m, NEW i \in DOMAIN n, Tag(m[h]) = Tag(n[i])
       PROVE  o[m[h].name] = Upto(m[h], y[i], Len(Sent(n[i], r[n[i].name])))
  <2>1. m[h].name \in Names(m) /\ Named(m, m[h].name) = m[h]
    BY <1>1, NamedIs DEF Names
  <2>2. m[h].name = n[i].name
    BY <1>1, <1>14 DEF Related
  <2>3. Named(n, n[i].name) = n[i]
    BY <1>1, NamedIs
  <2>4. PICK f, g, x, z : f = m[h] /\ g = n[i] /\ x = r[n[i].name] /\ z = y[i]
    OBVIOUS
  <2>5. o[m[h].name] = Of4(f, g, x)
    BY ONLY <1>7, <2>1, <2>2, <2>3, <2>4
  <2>6. \A k \in DOMAIN Sent(g, x) : z[k] = Read4(f, Code4(g, Sent(g, x)[k]))
    BY ONLY <1>2, <1>11, <1>14, <2>4, h \in DOMAIN m, i \in DOMAIN n
  <2>7. Alike(f, g) /\ (g.label = "many" => IsSeq(x))
    BY <1>1, <1>14, <2>4 DEF Lists
  <2>8. f.type = "message" /\ g.type = "message" => Comp3(f.of, g.of)
    BY <1>14, <2>4 DEF Comp4
  <2>9. Value4(g, x)
    BY <2>4 DEF Typed4
  <2> QED
    BY ONLY <2>4, <2>5, <2>6, <2>7, <2>8, <2>9, Field4
<1>15. Assemble(m, u, read) = v
  <2>1. DOMAIN read = Known(m, u)
    BY ONLY <1>6
  <2>2. \A h \in DOMAIN m, i \in DOMAIN n : Tag(m[h]) = Tag(n[i]) =>
          o[m[h].name] = Upto(m[h], y[i], Len(Sent(n[i], r[n[i].name])))
    BY ONLY <1>14
  <2>3. LevelReads(m, n, r, c, data, u, read, y, o, v)
    BY ONLY <1>1, <1>3, <1>9, <1>10, <1>12, <1>13, <2>1, <2>2 DEF LevelReads
  <2> QED
    BY ONLY <2>3, LevelMeans
<1> QED
  BY ONLY <1>7, <1>8, <1>15

\* What the encoder of one version sends is to the decoder of another what
\* Meaning says: of the fields that both know the values, of the others the
\* defaults (the encode and decode of every message under providers/*/gen).
THEOREM RoundTrip ==
    ASSUME NEW reader, NEW writer, NEW v, Comp4(reader, writer), Typed4(writer, v)
    PROVE  Decode(reader, Encode(writer, v)) = Meaning(reader, writer, v)
BY EncodeIs, DecodeIs, MeaningIs, Level4
----------------------------------------------------------------------------
(* The versions of a message.                                              *)

\* A message of the .proto files: fields of numbers and names of their own,
\* among them none of those that the newer versions add.
Proto(m) ==
    /\ IsSeq(m) /\ DOMAIN m = 1 .. Len(m)
    /\ \A i \in DOMAIN m :
         /\ m[i] = Field(m[i].no, m[i].name, m[i].label, m[i].type, m[i].of)
         /\ m[i].no \in 1 .. 20 /\ m[i].name \notin {"addedInt", "addedStr"}
         /\ m[i].type = "date" => m[i].label = "optional"
         /\ m[i].type = "message" => m[i].label \in {"optional", "many"}
         /\ m[i].label = "many" => m[i].type \in {"message", "string"}
    /\ \A h, i \in DOMAIN m : h # i => m[h].no # m[i].no /\ m[h].name # m[i].name

\* Such messages, whose nested ones are too, the innermost without any.
Good1(m) == Proto(m) /\ \A i \in DOMAIN m : ~IsNested(m[i])
Good2(m) == Proto(m) /\ \A i \in DOMAIN m : m[i].type = "message" => Good1(m[i].of)
Good3(m) == Proto(m) /\ \A i \in DOMAIN m : m[i].type = "message" => Good2(m[i].of)
Good4(m) == Proto(m) /\ \A i \in DOMAIN m : m[i].type = "message" => Good3(m[i].of)

\* What each level of a version is made of, and the version up to that level.
Theirs1(dialect, n) ==
    [i \in DOMAIN n |-> IF n[i].type = "date" THEN Sub(n[i].no, n[i].name, Timestamp)
                        ELSE [n[i] EXCEPT !.of = @]]
S1(dialect, n) == Version(dialect, n, Theirs1(dialect, n))
Theirs2(dialect, n) ==
    [i \in DOMAIN n |-> IF n[i].type = "date" THEN Sub(n[i].no, n[i].name, Timestamp)
                        ELSE [n[i] EXCEPT !.of = S1(dialect, @)]]
S2(dialect, n) == Version(dialect, n, Theirs2(dialect, n))
Theirs3(dialect, n) ==
    [i \in DOMAIN n |-> IF n[i].type = "date" THEN Sub(n[i].no, n[i].name, Timestamp)
                        ELSE [n[i] EXCEPT !.of = S2(dialect, @)]]
S3(dialect, n) == Version(dialect, n, Theirs3(dialect, n))
Theirs4(dialect, n) ==
    [i \in DOMAIN n |-> IF n[i].type = "date" THEN Sub(n[i].no, n[i].name, Timestamp)
                        ELSE [n[i] EXCEPT !.of = S3(dialect, @)]]
S4(dialect, n) == Version(dialect, n, Theirs4(dialect, n))

\* A version is its four levels.
LEMMA SpeakIs ==
    ASSUME NEW dialect, NEW n PROVE Speak(dialect, n) = S4(dialect, n)
BY DEF Speak, S4, S3, S2, S1, Theirs4, Theirs3, Theirs2, Theirs1

\* Where the fields of a version come from: a field t[i], changed at most in
\* its wire type, or one of the two that are new.
Origin(t, w, src) ==
    /\ IsSeq(w) /\ DOMAIN w = 1 .. Len(w)
    /\ \A h \in DOMAIN w :
         \/ /\ src[h] \in DOMAIN t /\ w[h].no = t[src[h]].no /\ w[h].name = t[src[h]].name
            /\ \/ w[h] = t[src[h]]
               \/ w[h] = Retyped(t[src[h]]) /\ WireType(w[h]) # WireType(t[src[h]])
         \/ src[h] = 0  /\ w[h] = Num(21, "addedInt")
         \/ src[h] = -1 /\ w[h] = Str(22, "addedStr")
    /\ \A h, i \in DOMAIN w : h # i => src[h] # src[i]

\* A sequence is one of its own values, and of any others.
LEMMA ASeqOf ==
    ASSUME NEW x, IsSeq(x), NEW T, \A k \in 1 .. Len(x) : x[k] \in T
    PROVE  x \in Seq(T)
<1>1. PICK N : N = Len(x)
  OBVIOUS
<1>2. N \in Nat /\ x = [k \in 1 .. N |-> x[k]] /\ \A k \in 1 .. N : x[k] \in T
  BY <1>1 DEF IsSeq
<1>3. x \in [1 .. N -> T]
  BY ONLY <1>2
<1> QED
  BY ONLY <1>2, <1>3

\* And the other way around.
LEMMA OfSeq ==
    ASSUME NEW T, NEW x \in Seq(T)
    PROVE  IsSeq(x) /\ DOMAIN x = 1 .. Len(x)
<1>1. Len(x) \in Nat /\ DOMAIN x = 1 .. Len(x)
  OBVIOUS
<1>2. x = [k \in 1 .. Len(x) |-> x[k]]
  OBVIOUS
<1> QED
  BY ONLY <1>1, <1>2 DEF IsSeq

\* A field with another type has another wire type.
LEMMA RetypedIs ==
    ASSUME NEW f
    PROVE  /\ Retyped(f).no = f.no /\ Retyped(f).name = f.name /\ Retyped(f).label = "one"
           /\ Retyped(f).type \in {"string", "int"} /\ WireType(Retyped(f)) # WireType(f)
<1>1. CASE WireType(f) = 0
  <2>1. Retyped(f) = Str(f.no, f.name)
    <3>1. PICK a, b : a = Str(f.no, f.name) /\ b = Num(f.no, f.name)
      OBVIOUS
    <3>2. Retyped(f) = IF WireType(f) = 0 THEN a ELSE b
      BY ONLY <3>1 DEF Retyped
    <3> QED
      BY ONLY <1>1, <3>1, <3>2
  <2>2. WireType(Str(f.no, f.name)) = 2
    BY ONLY TRUE DEF WireType, Str, Field
  <2> QED
    BY ONLY <1>1, <2>1, <2>2 DEF Str, Field
<1>2. CASE WireType(f) # 0
  <2>1. Retyped(f) = Num(f.no, f.name)
    <3>1. PICK a, b : a = Str(f.no, f.name) /\ b = Num(f.no, f.name)
      OBVIOUS
    <3>2. Retyped(f) = IF WireType(f) = 0 THEN a ELSE b
      BY ONLY <3>1 DEF Retyped
    <3> QED
      BY ONLY <1>2, <3>1, <3>2
  <2>2. WireType(Num(f.no, f.name)) = 0
    BY ONLY TRUE DEF WireType, Num, Field
  <2> QED
    BY ONLY <1>2, <2>1, <2>2 DEF Num, Field
<1> QED
  BY ONLY <1>1, <1>2

\* Where the fields of each version come from.
LEMMA VersionOrigin ==
    ASSUME NEW dialect \in Dialects, NEW n, n # <<>>, NEW t, IsSeq(t), Len(t) # 0
    PROVE  \E src : Origin(t, Version(dialect, n, t), src)
<1>1. PICK N : N = Len(t)
  OBVIOUS
<1>2. PICK a, b, c : a = Num(21, "addedInt") /\ b = Str(22, "addedStr") /\ c = Retyped(t[1])
  OBVIOUS
<1>3. PICK T : T = {t[k] : k \in 1 .. N} \union {a, b, c}
  OBVIOUS
<1>4. t \in Seq(T) /\ Len(t) = N /\ N \in Nat /\ N # 0 /\ DOMAIN t = 1 .. N
  <2>1. \A k \in 1 .. Len(t) : t[k] \in T
    BY ONLY <1>1, <1>3
  <2>2. t \in Seq(T)
    BY <2>1, ASeqOf
  <2> QED
    BY ONLY <1>1, <2>2, Len(t) # 0
<1>5. a \in T /\ b \in T /\ c \in T
  BY ONLY <1>3
<1>6. PICK w : w = Version(dialect, n, t)
  OBVIOUS
<1>7. CASE dialect = "same"
  <2>1. w = t
    BY ONLY <1>6, <1>7, n # <<>> DEF Version
  <2>2. PICK src : src = [h \in 1 .. N |-> h]
    OBVIOUS
  <2>3. Origin(t, w, src)
    BY ONLY <1>4, <2>1, <2>2, IsSeq(t) DEF Origin
  <2> QED
    BY ONLY <1>6, <2>3
<1>8. CASE dialect = "newer"
  <2>1. w = <<a>> \o t \o <<b>>
    BY ONLY <1>2, <1>6, <1>8, n # <<>> DEF Version
  <2>2. PICK s : s = <<a>> \o t
    OBVIOUS
  <2>3. /\ s \in Seq(T) /\ Len(s) = N + 1 /\ s[1] = a
        /\ \A k \in 1 .. N : s[k + 1] = t[k]
    BY ONLY <1>4, <1>5, <2>2
  <2>4. /\ w \in Seq(T) /\ Len(w) = N + 2 /\ w[N + 2] = b
        /\ \A k \in 1 .. N + 1 : w[k] = s[k]
    BY ONLY <1>4, <1>5, <2>1, <2>2, <2>3
  <2>5. w[1] = a
    BY ONLY <1>4, <2>3, <2>4
  <2>6. ASSUME NEW h \in 2 .. N + 1
        PROVE  h - 1 \in 1 .. N /\ w[h] = t[h - 1]
    <3>1. h \in 1 .. N + 1 /\ h - 1 \in 1 .. N /\ h - 1 + 1 = h
      BY ONLY <1>4, h \in 2 .. N + 1
    <3>2. s[h - 1 + 1] = t[h - 1]
      BY ONLY <2>3, <3>1
    <3> QED
      BY ONLY <2>4, <3>1, <3>2
  <2>7. PICK src : src = [h \in 1 .. N + 2 |->
                            IF h = 1 THEN 0 ELSE IF h = N + 2 THEN -1 ELSE h - 1]
    OBVIOUS
  <2>8. DOMAIN w = 1 .. N + 2 /\ IsSeq(w) /\ DOMAIN w = 1 .. Len(w)
    BY ONLY <2>4, OfSeq
  <2>9. ASSUME NEW h \in DOMAIN w
        PROVE  \/ src[h] \in DOMAIN t /\ w[h] = t[src[h]]
               \/ src[h] = 0 /\ w[h] = a
               \/ src[h] = -1 /\ w[h] = b
    <3>1. h \in 1 .. N + 2 /\ (h = 1 \/ h = N + 2 \/ h \in 2 .. N + 1)
      BY ONLY <1>4, <2>8, h \in DOMAIN w
    <3>2. CASE h = 1
      BY ONLY <2>5, <2>7, <3>1, <3>2
    <3>3. CASE h = N + 2
      <4>1. h # 1
        BY ONLY <1>4, <3>3
      <4> QED
        BY ONLY <2>4, <2>7, <3>1, <3>3, <4>1
    <3>4. CASE h \in 2 .. N + 1
      <4>1. h # 1 /\ h # N + 2
        BY ONLY <1>4, <3>4
      <4>2. src[h] = h - 1
        BY ONLY <2>7, <3>1, <4>1
      <4> QED
        BY ONLY <1>4, <2>6, <3>4, <4>2
    <3> QED
      BY ONLY <3>1, <3>2, <3>3, <3>4
  <2>10. \A h, i \in 1 .. N + 2 : h # i => src[h] # src[i]
    BY ONLY <1>4, <2>7
  <2>11. Origin(t, w, src)
    BY ONLY <1>2, <2>8, <2>9, <2>10 DEF Origin
  <2> QED
    BY ONLY <1>6, <2>11
<1>9. CASE dialect = "older"
  <2>1. w = SubSeq(t, 1, N - 1)
    BY ONLY <1>1, <1>6, <1>9, n # <<>> DEF Version, Front
  <2>2. w \in Seq(T) /\ Len(w) = N - 1 /\ \A k \in 1 .. N - 1 : w[k] = t[k]
    BY ONLY <1>4, <2>1
  <2>3. IsSeq(w) /\ DOMAIN w = 1 .. Len(w)
    BY ONLY <2>2, OfSeq
  <2>4. PICK src : src = [h \in 1 .. N |-> h]
    OBVIOUS
  <2>5. \A h \in DOMAIN w : h \in 1 .. N - 1 /\ h \in 1 .. N
    BY ONLY <1>4, <2>2, <2>3
  <2>6. Origin(t, w, src)
    BY ONLY <1>4, <2>2, <2>3, <2>4, <2>5 DEF Origin
  <2> QED
    BY ONLY <1>6, <2>6
<1>10. CASE dialect = "retyped"
  <2>1. w = <<c>> \o Tail(t)
    BY ONLY <1>2, <1>6, <1>10, n # <<>> DEF Version
  <2>2. PICK s : s = Tail(t)
    OBVIOUS
  <2>3. s \in Seq(T) /\ Len(s) = N - 1 /\ \A k \in 1 .. N - 1 : s[k] = t[k + 1]
    BY ONLY <1>4, <2>2
  <2>4. /\ w \in Seq(T) /\ Len(w) = N /\ w[1] = c
        /\ \A k \in 1 .. N - 1 : w[k + 1] = s[k]
    BY ONLY <1>4, <1>5, <2>1, <2>2, <2>3
  <2>5. ASSUME NEW h \in 2 .. N PROVE w[h] = t[h]
    <3>1. h - 1 \in 1 .. N - 1 /\ h - 1 + 1 = h
      BY ONLY <1>4, h \in 2 .. N
    <3>2. w[h - 1 + 1] = s[h - 1] /\ s[h - 1] = t[h - 1 + 1]
      BY ONLY <2>3, <2>4, <3>1
    <3> QED
      BY ONLY <3>1, <3>2
  <2>6. IsSeq(w) /\ DOMAIN w = 1 .. Len(w) /\ DOMAIN w = 1 .. N
    BY ONLY <2>4, OfSeq
  <2>7. PICK src : src = [h \in 1 .. N |-> h]
    OBVIOUS
  <2>8. c.no = t[1].no /\ c.name = t[1].name /\ WireType(c) # WireType(t[1])
    BY ONLY <1>2, RetypedIs
  <2>9. ASSUME NEW h \in DOMAIN w
        PROVE  /\ src[h] \in DOMAIN t /\ w[h].no = t[src[h]].no /\ w[h].name = t[src[h]].name
               /\ \/ w[h] = t[src[h]]
                  \/ w[h] = Retyped(t[src[h]]) /\ WireType(w[h]) # WireType(t[src[h]])
    <3>1. h \in 1 .. N /\ (h = 1 \/ h \in 2 .. N)
      BY ONLY <1>4, <2>6, h \in DOMAIN w
    <3>2. src[h] = h /\ h \in DOMAIN t
      BY ONLY <1>4, <2>7, <3>1
    <3>3. CASE h = 1
      <4>1. w[h] = c /\ t[src[h]] = t[1] /\ c = Retyped(t[1])
        BY ONLY <1>2, <2>4, <3>2, <3>3
      <4> QED
        BY ONLY <2>8, <3>2, <4>1
    <3>4. CASE h \in 2 .. N
      <4>1. w[h] = t[src[h]]
        BY ONLY <2>5, <3>2, <3>4
      <4> QED
        BY ONLY <3>2, <4>1
    <3> QED
      BY ONLY <3>1, <3>3, <3>4
  <2>10. \A h, i \in DOMAIN w : h # i => src[h] # src[i]
    BY ONLY <2>6, <2>7
  <2>11. Origin(t, w, src)
    BY ONLY <2>6, <2>9, <2>10 DEF Origin
  <2> QED
    BY ONLY <1>6, <2>11
<1>11. CASE dialect = "reordered"
  <2>1. w = [h \in 1 .. N |-> t[N - h + 1]]
    BY ONLY <1>1, <1>6, <1>11, n # <<>> DEF Version, Reverse
  <2>2. \A h \in 1 .. N : N - h + 1 \in 1 .. N
    BY ONLY <1>4
  <2>3. w \in [1 .. N -> T]
    BY ONLY <1>4, <2>1, <2>2
  <2>4. w \in Seq(T) /\ DOMAIN w = 1 .. N
    BY ONLY <1>4, <2>3
  <2>5. IsSeq(w) /\ DOMAIN w = 1 .. Len(w)
    BY ONLY <2>4, OfSeq
  <2>6. PICK src : src = [h \in 1 .. N |-> N - h + 1]
    OBVIOUS
  <2>7. \A h, i \in 1 .. N : h # i => src[h] # src[i]
    BY ONLY <1>4, <2>6
  <2>8. Origin(t, w, src)
    BY ONLY <1>4, <2>1, <2>2, <2>4, <2>5, <2>6, <2>7 DEF Origin
  <2> QED
    BY ONLY <1>6, <2>8
<1> QED
  BY ONLY <1>7, <1>8, <1>9, <1>10, <1>11, dialect \in Dialects DEF Dialects

\* A tag is a number and a wire type.
LEMMA TagIs ==
    ASSUME NEW f, NEW g, f.no \in Nat, g.no \in Nat
    PROVE  Tag(f) = Tag(g) <=> f.no = g.no /\ WireType(f) = WireType(g)
<1>1. WireType(f) \in {0, 2} /\ WireType(g) \in {0, 2}
  BY DEF WireType
<1>2. PICK a, b, p, q : a = f.no /\ b = g.no /\ p = WireType(f) /\ q = WireType(g)
  OBVIOUS
<1>3. Tag(f) = 8 * a + p /\ Tag(g) = 8 * b + q
  BY ONLY <1>2 DEF Tag
<1>4. a \in Nat /\ b \in Nat /\ p \in {0, 2} /\ q \in {0, 2}
  BY <1>1, <1>2
<1>5. 8 * a + p = 8 * b + q <=> a = b /\ p = q
  BY ONLY <1>4
<1> QED
  BY ONLY <1>2, <1>3, <1>5

\* The fields of the protocol have numbers and names that tell them apart.
LEMMA ProtoIs ==
    ASSUME NEW m, Proto(m)
    PROVE  /\ IsMessage(m) /\ \A i \in DOMAIN m : m[i].no \in Nat
<1>1. \A i \in DOMAIN m : m[i].no \in Nat
  <2>1. \A i \in DOMAIN m : m[i].no \in 1 .. 20
    BY ONLY Proto(m) DEF Proto
  <2>2. \A x \in 1 .. 20 : x \in Nat
    OBVIOUS
  <2> QED
    BY ONLY <2>1, <2>2
<1>2. \A h, i \in DOMAIN m : h # i => m[h].name # m[i].name /\ m[h].no # m[i].no
  BY DEF Proto
<1>3. \A h, i \in DOMAIN m : h # i => m[h].name # m[i].name /\ Tag(m[h]) # Tag(m[i])
  BY <1>1, <1>2, TagIs
<1>4. Len(m) \in Nat /\ DOMAIN m = 1 .. Len(m)
  BY DEF Proto, IsSeq
<1> QED
  BY ONLY <1>1, <1>3, <1>4 DEF IsMessage

\* A version of a message is related to it, and a field they share is where it
\* comes from.
LEMMA VersionRelated ==
    ASSUME NEW n, Proto(n), NEW t, DOMAIN t = DOMAIN n,
           \A i \in DOMAIN n : /\ t[i].no = n[i].no /\ t[i].name = n[i].name
                               /\ WireType(t[i]) = WireType(n[i]),
           NEW w, NEW src, Origin(t, w, src)
    PROVE  /\ Related(w, n) /\ Related(n, w)
           /\ \A h \in DOMAIN w, i \in DOMAIN n : Tag(w[h]) = Tag(n[i]) => w[h] = t[i]
<1> DEFINE No(s)   == IF s = 0 THEN 21 ELSE IF s = -1 THEN 22 ELSE n[s].no
           Name(s) == IF s = 0 THEN "addedInt" ELSE IF s = -1 THEN "addedStr" ELSE n[s].name
<1>1. /\ IsMessage(n) /\ Len(n) \in Nat /\ DOMAIN n = 1 .. Len(n)
      /\ \A i \in DOMAIN n : n[i].no \in 1 .. 20 /\ n[i].name \notin {"addedInt", "addedStr"}
      /\ \A h, i \in DOMAIN n : h # i => n[h].no # n[i].no /\ n[h].name # n[i].name
  BY ProtoIs DEF Proto, IsMessage
<1>2. 0 \notin DOMAIN n /\ -1 \notin DOMAIN n
  BY ONLY <1>1
<1>3. ASSUME NEW h \in DOMAIN w
      PROVE  /\ src[h] \in DOMAIN n \union {0, -1}
             /\ w[h].no = No(src[h]) /\ w[h].name = Name(src[h])
             /\ src[h] \in DOMAIN n =>
                  w[h] = t[src[h]] \/ WireType(w[h]) # WireType(n[src[h]])
  <2>1. CASE src[h] \in DOMAIN n
    <3>1. w[h].no = t[src[h]].no /\ w[h].name = t[src[h]].name
          /\ (w[h] = t[src[h]] \/ WireType(w[h]) # WireType(t[src[h]]))
      BY <1>2, <2>1 DEF Origin
    <3>2. /\ t[src[h]].no = n[src[h]].no /\ t[src[h]].name = n[src[h]].name
          /\ WireType(t[src[h]]) = WireType(n[src[h]])
      BY <2>1
    <3>3. src[h] # 0 /\ src[h] # -1
      BY ONLY <1>2, <2>1
    <3> QED
      BY ONLY <2>1, <3>1, <3>2, <3>3
  <2>2. CASE src[h] = 0
    <3>1. w[h] = Num(21, "addedInt") /\ 0 # -1
      BY <1>2, <2>2 DEF Origin
    <3> QED
      BY ONLY <1>2, <2>2, <3>1 DEF Num, Field
  <2>3. CASE src[h] = -1
    <3>1. w[h] = Str(22, "addedStr") /\ 0 # -1
      BY <1>2, <2>3 DEF Origin
    <3> QED
      BY ONLY <1>2, <2>3, <3>1 DEF Str, Field
  <2> QED
    BY <2>1, <2>2, <2>3 DEF Origin
<1>4. /\ No(0) = 21 /\ No(-1) = 22
      /\ \A s \in DOMAIN n : No(s) \in 1 .. 20 /\ No(s) = n[s].no
  <2>1. 0 # -1
    OBVIOUS
  <2>2. \A s \in DOMAIN n : s # 0 /\ s # -1
    BY ONLY <1>2
  <2> QED
    BY ONLY <1>1, <2>1, <2>2
<1>5. /\ \A s \in DOMAIN n \union {0, -1} : No(s) \in Nat
      /\ \A r, s \in DOMAIN n \union {0, -1} : r # s => No(r) # No(s)
  <2>1. PICK N : N = [s \in DOMAIN n \union {0, -1} |-> No(s)]
    OBVIOUS
  <2> HIDE DEF No
  <2>2. /\ N[0] = 21 /\ N[-1] = 22
        /\ \A s \in DOMAIN n : N[s] \in 1 .. 20 /\ N[s] = n[s].no
    BY ONLY <1>4, <2>1
  <2>3. \A s \in DOMAIN n \union {0, -1} : N[s] \in 1 .. 20 \union {21, 22}
    BY ONLY <2>2
  <2>4. \A s \in DOMAIN n \union {0, -1} : N[s] \in Nat
    BY ONLY <2>3
  <2>5. \A r, s \in DOMAIN n \union {0, -1} : r # s => N[r] # N[s]
    <3> SUFFICES ASSUME NEW r \in DOMAIN n \union {0, -1},
                        NEW s \in DOMAIN n \union {0, -1}, r # s
                 PROVE  N[r] # N[s]
      OBVIOUS
    <3>1. CASE r \in DOMAIN n /\ s \in DOMAIN n
      <4>1. n[r].no # n[s].no
        BY <1>1, <3>1
      <4> QED
        BY ONLY <2>2, <3>1, <4>1
    <3>2. CASE r \in DOMAIN n /\ s \notin DOMAIN n
      <4>1. N[r] \in 1 .. 20 /\ (s = 0 \/ s = -1)
        BY <2>2, <3>2
      <4>2. N[s] = 21 \/ N[s] = 22
        BY ONLY <2>2, <4>1
      <4> QED
        BY ONLY <4>1, <4>2
    <3>3. CASE r \notin DOMAIN n /\ s \in DOMAIN n
      <4>1. N[s] \in 1 .. 20 /\ (r = 0 \/ r = -1)
        BY <2>2, <3>3
      <4>2. N[r] = 21 \/ N[r] = 22
        BY ONLY <2>2, <4>1
      <4> QED
        BY ONLY <4>1, <4>2
    <3>4. CASE r \notin DOMAIN n /\ s \notin DOMAIN n
      <4>1. (r = 0 /\ s = -1) \/ (r = -1 /\ s = 0)
        BY <3>4
      <4> QED
        BY ONLY <2>2, <4>1
    <3> QED
      BY ONLY <3>1, <3>2, <3>3, <3>4
  <2> QED
    BY ONLY <2>1, <2>4, <2>5
<1>6. \A r, s \in DOMAIN n \union {0, -1} : r # s => Name(r) # Name(s)
  BY ONLY <1>1, <1>2
<1>7. \A i \in DOMAIN n : No(i) = n[i].no /\ Name(i) = n[i].name
  BY ONLY <1>2
<1> HIDE DEF No, Name
<1>8. IsMessage(w)
  <2>1. Len(w) \in Nat /\ DOMAIN w = 1 .. Len(w)
    BY DEF Origin, IsSeq
  <2>2. ASSUME NEW h \in DOMAIN w, NEW i \in DOMAIN w, h # i
        PROVE  w[h].name # w[i].name /\ Tag(w[h]) # Tag(w[i])
    <3>1. src[h] # src[i]
      BY <2>2 DEF Origin
    <3>2. w[h].no \in Nat /\ w[i].no \in Nat /\ w[h].no # w[i].no /\ w[h].name # w[i].name
      BY ONLY <1>3, <1>5, <1>6, <3>1, h \in DOMAIN w, i \in DOMAIN w
    <3> QED
      BY ONLY <3>2, TagIs
  <2> QED
    BY ONLY <2>1, <2>2 DEF IsMessage
<1>9. ASSUME NEW h \in DOMAIN w, NEW i \in DOMAIN n
      PROVE  /\ Tag(w[h]) = Tag(n[i]) <=>
                  w[h].name = n[i].name /\ WireType(w[h]) = WireType(n[i])
             /\ Tag(w[h]) = Tag(n[i]) => w[h] = t[i]
  <2>1. w[h].no \in Nat /\ n[i].no \in Nat
    BY ONLY <1>3, <1>5, <1>7, h \in DOMAIN w, i \in DOMAIN n
  <2>2. Tag(w[h]) = Tag(n[i]) <=> w[h].no = n[i].no /\ WireType(w[h]) = WireType(n[i])
    BY ONLY <2>1, TagIs
  <2>3. w[h].no = n[i].no <=> src[h] = i
    BY ONLY <1>3, <1>5, <1>7, h \in DOMAIN w, i \in DOMAIN n
  <2>4. w[h].name = n[i].name <=> src[h] = i
    BY ONLY <1>3, <1>6, <1>7, h \in DOMAIN w, i \in DOMAIN n
  <2>5. src[h] = i => w[h] = t[i] \/ WireType(w[h]) # WireType(n[i])
    BY ONLY <1>3, h \in DOMAIN w, i \in DOMAIN n
  <2> QED
    BY ONLY <2>2, <2>3, <2>4, <2>5
<1>10. Related(w, n)
  BY ONLY <1>1, <1>8, <1>9 DEF Related
<1>11. Related(n, w)
  <2>1. \A i \in DOMAIN n, h \in DOMAIN w :
          Tag(n[i]) = Tag(w[h]) <=> n[i].name = w[h].name /\ WireType(n[i]) = WireType(w[h])
    BY ONLY <1>9
  <2> QED
    BY ONLY <1>1, <1>8, <2>1 DEF Related
<1> QED
  BY ONLY <1>9, <1>10, <1>11

\* A field of a peer: a date is kept as the Timestamp it is sent as, and of any
\* other only the version of the messages in it is its own.
Theirs(f, t) ==
    IF f.type = "date" THEN t = Sub(f.no, f.name, Timestamp)
    ELSE \E o : t = [f EXCEPT !.of = o]

\* Such a field is like ours.
LEMMA TheirsAlike ==
    ASSUME NEW f, NEW t, Theirs(f, t), f = Field(f.no, f.name, f.label, f.type, f.of),
           f.type = "date" => f.label = "optional",
           f.type = "message" => f.label \in {"optional", "many"}
    PROVE  /\ t.no = f.no /\ t.name = f.name /\ WireType(t) = WireType(f)
           /\ t = Field(t.no, t.name, t.label, t.type, t.of)
           /\ t.type # "date" /\ t.label = f.label
           /\ IF f.type = "date" THEN t.type = "message" /\ t.of = Timestamp
              ELSE t.type = f.type
           /\ Alike(t, f) /\ Alike(f, t)
<1>1. CASE f.type = "date"
  <2>1. t = Sub(f.no, f.name, Timestamp) /\ f.label = "optional"
    BY <1>1 DEF Theirs
  <2>2. /\ t.no = f.no /\ t.name = f.name /\ t.label = "optional" /\ t.type = "message"
        /\ t.of = Timestamp /\ t = Field(t.no, t.name, t.label, t.type, t.of)
    BY ONLY <2>1 DEF Sub, Field
  <2>3. WireType(t) = 2 /\ WireType(f) = 2
    BY ONLY <1>1, <2>2 DEF WireType
  <2> QED
    BY ONLY <1>1, <2>1, <2>2, <2>3 DEF Alike
<1>2. CASE f.type # "date"
  <2>1. PICK o : t = [f EXCEPT !.of = o]
    BY <1>2 DEF Theirs
  <2>2. /\ t.no = f.no /\ t.name = f.name /\ t.label = f.label /\ t.type = f.type /\ t.of = o
        /\ t = Field(t.no, t.name, t.label, t.type, t.of)
    BY ONLY <2>1, f = Field(f.no, f.name, f.label, f.type, f.of) DEF Field
  <2>3. WireType(t) = WireType(f)
    BY ONLY <2>2 DEF WireType
  <2>4. Base(t) = Base(f)
    BY ONLY <2>2 DEF Base
  <2>5. CASE f.type = "message"
    <3>1. f.label \in {"optional", "many"}
      BY <2>5
    <3> QED
      BY ONLY <2>2, <2>3, <2>5, <3>1 DEF Alike
  <2>6. CASE f.type # "message"
    <3>1. ~IsNested(f) /\ ~IsNested(t)
      BY ONLY <1>2, <2>2, <2>6 DEF IsNested
    <3> QED
      BY ONLY <1>2, <2>2, <2>3, <2>4, <3>1 DEF Alike
  <2> QED
    BY ONLY <2>5, <2>6
<1> QED
  BY ONLY <1>1, <1>2

\* A version with such fields is related to the message, and a field they
\* share is one of them.
LEMMA VersionIs ==
    ASSUME NEW dialect \in Dialects, NEW n, Proto(n), NEW t, IsFun(t, DOMAIN n),
           \A i \in DOMAIN n : Theirs(n[i], t[i])
    PROVE  /\ \E src : Origin(t, Version(dialect, n, t), src)
           /\ Related(Version(dialect, n, t), n) /\ Related(n, Version(dialect, n, t))
           /\ \A h \in DOMAIN Version(dialect, n, t), i \in DOMAIN n :
                Tag(Version(dialect, n, t)[h]) = Tag(n[i]) => Version(dialect, n, t)[h] = t[i]
<1>1. PICK N, w : N = Len(n) /\ w = Version(dialect, n, t)
  OBVIOUS
<1>2. N \in Nat /\ DOMAIN n = 1 .. N /\ n = [i \in 1 .. N |-> n[i]]
  BY <1>1 DEF Proto, IsSeq
<1>3. t = [i \in 1 .. N |-> t[i]]
  BY <1>2 DEF IsFun
<1>4. DOMAIN t = 1 .. N /\ Len(t) = N /\ IsSeq(t)
  <2>1. DOMAIN t = 1 .. N
    BY ONLY <1>3
  <2>2. Len(t) = N
    BY ONLY <1>2, <1>3
  <2> QED
    BY ONLY <1>2, <1>3, <2>1, <2>2 DEF IsSeq
<1>5. \A i \in DOMAIN n : /\ t[i].no = n[i].no /\ t[i].name = n[i].name
                          /\ WireType(t[i]) = WireType(n[i])
  BY TheirsAlike DEF Proto
<1>6. PICK src : Origin(t, w, src)
  <2>1. CASE n = <<>>
    <3>1. w = <<>>
      BY ONLY <1>1, <2>1 DEF Version
    <3>2. Len(<<>>) = 0 /\ DOMAIN <<>> = {} /\ 1 .. 0 = {} /\ <<>> = [k \in 1 .. 0 |-> <<>>[k]]
      OBVIOUS
    <3>3. Origin(t, w, <<>>)
      BY ONLY <3>1, <3>2 DEF Origin, IsSeq
    <3> QED
      BY ONLY <3>3
  <2>2. CASE n # <<>>
    <3>1. N # 0
      <4> SUFFICES ASSUME N = 0 PROVE FALSE
        OBVIOUS
      <4>1. n = [i \in {} |-> n[i]]
        BY ONLY <1>2, N = 0
      <4>2. n = <<>>
        BY ONLY <4>1
      <4> QED
        BY ONLY <2>2, <4>2
    <3> QED
      BY ONLY <1>1, <1>4, <2>2, <3>1, dialect \in Dialects, VersionOrigin
  <2> QED
    BY ONLY <2>1, <2>2
<1>7. /\ Related(w, n) /\ Related(n, w)
      /\ \A h \in DOMAIN w, i \in DOMAIN n : Tag(w[h]) = Tag(n[i]) => w[h] = t[i]
  BY ONLY <1>2, <1>4, <1>5, <1>6, Proto(n), VersionRelated
<1> QED
  BY ONLY <1>1, <1>6, <1>7

\* The fields of a version at level 1.
LEMMA Theirs1Is ==
    ASSUME NEW dialect, NEW n, Proto(n)
    PROVE  /\ IsFun(Theirs1(dialect, n), DOMAIN n)
           /\ \A i \in DOMAIN n :
                /\ Theirs(n[i], Theirs1(dialect, n)[i])
                /\ n[i].type # "date" => Theirs1(dialect, n)[i].of = n[i].of
<1>1. PICK t : t = Theirs1(dialect, n)
  OBVIOUS
<1>2. IsFun(t, DOMAIN n)
  BY ONLY <1>1 DEF IsFun, Theirs1
<1>3. ASSUME NEW i \in DOMAIN n
      PROVE  Theirs(n[i], t[i]) /\ (n[i].type # "date" => t[i].of = n[i].of)
  <2>1. CASE n[i].type = "date"
    BY ONLY <1>1, <2>1, i \in DOMAIN n DEF Theirs1, Theirs
  <2>2. CASE n[i].type # "date"
    <3>1. t[i] = [n[i] EXCEPT !.of = n[i].of]
      BY ONLY <1>1, <2>2, i \in DOMAIN n DEF Theirs1
    <3>2. n[i] = Field(n[i].no, n[i].name, n[i].label, n[i].type, n[i].of)
      BY DEF Proto
    <3>3. t[i].of = n[i].of
      BY ONLY <3>1, <3>2 DEF Field
    <3> QED
      BY ONLY <2>2, <3>1, <3>3 DEF Theirs
  <2> QED
    BY ONLY <2>1, <2>2
<1> QED
  BY ONLY <1>1, <1>2, <1>3

\* The versions of a message and the message understand each other, level 1.
LEMMA Versions1 ==
    ASSUME NEW dialect \in Dialects, NEW n, Good1(n)
    PROVE  Comp1(S1(dialect, n), n) /\ Comp1(n, S1(dialect, n))
<1>1. PICK t, w : t = Theirs1(dialect, n) /\ w = S1(dialect, n)
  OBVIOUS
<1>2. w = Version(dialect, n, t)
  BY ONLY <1>1 DEF S1
<1>3. Proto(n)
  BY DEF Good1
<1>4. /\ IsFun(t, DOMAIN n) /\ \A i \in DOMAIN n : Theirs(n[i], t[i])
      /\ \A i \in DOMAIN n : n[i].type # "date" => t[i].of = n[i].of
  BY ONLY <1>1, <1>3, Theirs1Is
<1>5. /\ Related(w, n) /\ Related(n, w)
      /\ \A h \in DOMAIN w, i \in DOMAIN n : Tag(w[h]) = Tag(n[i]) => w[h] = t[i]
  BY ONLY <1>2, <1>3, <1>4, dialect \in Dialects, VersionIs
<1>6. ASSUME NEW i \in DOMAIN n
      PROVE  Alike(t[i], n[i]) /\ Alike(n[i], t[i]) /\ ~IsNested(n[i]) /\ ~IsNested(t[i])
  <2>1. ~IsNested(n[i])
    BY DEF Good1
  <2>2. n[i].type # "date" /\ n[i].type # "message"
    BY ONLY <2>1 DEF IsNested
  <2>3. Alike(t[i], n[i]) /\ Alike(n[i], t[i]) /\ t[i].type = n[i].type
    BY <1>3, <1>4, <2>2, TheirsAlike DEF Proto
  <2> QED
    BY ONLY <2>1, <2>2, <2>3 DEF IsNested
<1>7. Comp1(w, n)
  BY ONLY <1>5, <1>6 DEF Comp1
<1>8. Comp1(n, w)
  <2>1. \A i \in DOMAIN n, h \in DOMAIN w : Tag(n[i]) = Tag(w[h]) => w[h] = t[i]
    BY ONLY <1>5
  <2> QED
    BY ONLY <1>5, <1>6, <2>1 DEF Comp1
<1> QED
  BY ONLY <1>1, <1>7, <1>8

\* The fields of a version at level 2.
LEMMA Theirs2Is ==
    ASSUME NEW dialect, NEW n, Proto(n)
    PROVE  /\ IsFun(Theirs2(dialect, n), DOMAIN n)
           /\ \A i \in DOMAIN n :
                /\ Theirs(n[i], Theirs2(dialect, n)[i])
                /\ n[i].type # "date" => Theirs2(dialect, n)[i].of = S1(dialect, n[i].of)
<1>1. PICK t : t = Theirs2(dialect, n)
  OBVIOUS
<1>2. IsFun(t, DOMAIN n)
  BY ONLY <1>1 DEF IsFun, Theirs2
<1>3. ASSUME NEW i \in DOMAIN n
      PROVE  Theirs(n[i], t[i]) /\ (n[i].type # "date" => t[i].of = S1(dialect, n[i].of))
  <2>1. CASE n[i].type = "date"
    BY ONLY <1>1, <2>1, i \in DOMAIN n DEF Theirs2, Theirs
  <2>2. CASE n[i].type # "date"
    <3>1. t[i] = [n[i] EXCEPT !.of = S1(dialect, n[i].of)]
      BY ONLY <1>1, <2>2, i \in DOMAIN n DEF Theirs2
    <3>2. n[i] = Field(n[i].no, n[i].name, n[i].label, n[i].type, n[i].of)
      BY DEF Proto
    <3>3. t[i].of = S1(dialect, n[i].of)
      BY ONLY <3>1, <3>2 DEF Field
    <3> QED
      BY ONLY <2>2, <3>1, <3>3 DEF Theirs
  <2> QED
    BY ONLY <2>1, <2>2
<1> QED
  BY ONLY <1>1, <1>2, <1>3

\* The versions of a message and the message understand each other, level 2.
LEMMA Versions2 ==
    ASSUME NEW dialect \in Dialects, NEW n, Good2(n)
    PROVE  Comp2(S2(dialect, n), n) /\ Comp2(n, S2(dialect, n))
<1>1. PICK t, w : t = Theirs2(dialect, n) /\ w = S2(dialect, n)
  OBVIOUS
<1>2. w = Version(dialect, n, t)
  BY ONLY <1>1 DEF S2
<1>3. Proto(n)
  BY DEF Good2
<1>4. /\ IsFun(t, DOMAIN n) /\ \A i \in DOMAIN n : Theirs(n[i], t[i])
      /\ \A i \in DOMAIN n : n[i].type # "date" => t[i].of = S1(dialect, n[i].of)
  BY ONLY <1>1, <1>3, Theirs2Is
<1>5. /\ Related(w, n) /\ Related(n, w)
      /\ \A h \in DOMAIN w, i \in DOMAIN n : Tag(w[h]) = Tag(n[i]) => w[h] = t[i]
  BY ONLY <1>2, <1>3, <1>4, dialect \in Dialects, VersionIs
<1>6. ASSUME NEW i \in DOMAIN n
      PROVE  /\ Alike(t[i], n[i]) /\ Alike(n[i], t[i])
             /\ t[i].type = "message" /\ n[i].type = "message" =>
                  Comp1(t[i].of, n[i].of) /\ Comp1(n[i].of, t[i].of)
  <2>1. Alike(t[i], n[i]) /\ Alike(n[i], t[i])
    BY <1>3, <1>4, TheirsAlike DEF Proto
  <2>2. ASSUME n[i].type = "message"
        PROVE  Comp1(t[i].of, n[i].of) /\ Comp1(n[i].of, t[i].of)
    <3>1. t[i].of = S1(dialect, n[i].of)
      BY ONLY <1>4, <2>2, i \in DOMAIN n
    <3>2. Good1(n[i].of)
      BY <2>2 DEF Good2
    <3> QED
      BY ONLY <3>1, <3>2, dialect \in Dialects, Versions1
  <2> QED
    BY ONLY <2>1, <2>2
<1>7. Comp2(w, n)
  BY ONLY <1>5, <1>6 DEF Comp2
<1>8. Comp2(n, w)
  <2>1. \A i \in DOMAIN n, h \in DOMAIN w : Tag(n[i]) = Tag(w[h]) => w[h] = t[i]
    BY ONLY <1>5
  <2> QED
    BY ONLY <1>5, <1>6, <2>1 DEF Comp2
<1> QED
  BY ONLY <1>1, <1>7, <1>8

\* The fields of a version at level 3.
LEMMA Theirs3Is ==
    ASSUME NEW dialect, NEW n, Proto(n)
    PROVE  /\ IsFun(Theirs3(dialect, n), DOMAIN n)
           /\ \A i \in DOMAIN n :
                /\ Theirs(n[i], Theirs3(dialect, n)[i])
                /\ n[i].type # "date" => Theirs3(dialect, n)[i].of = S2(dialect, n[i].of)
<1>1. PICK t : t = Theirs3(dialect, n)
  OBVIOUS
<1>2. IsFun(t, DOMAIN n)
  BY ONLY <1>1 DEF IsFun, Theirs3
<1>3. ASSUME NEW i \in DOMAIN n
      PROVE  Theirs(n[i], t[i]) /\ (n[i].type # "date" => t[i].of = S2(dialect, n[i].of))
  <2>1. CASE n[i].type = "date"
    BY ONLY <1>1, <2>1, i \in DOMAIN n DEF Theirs3, Theirs
  <2>2. CASE n[i].type # "date"
    <3>1. t[i] = [n[i] EXCEPT !.of = S2(dialect, n[i].of)]
      BY ONLY <1>1, <2>2, i \in DOMAIN n DEF Theirs3
    <3>2. n[i] = Field(n[i].no, n[i].name, n[i].label, n[i].type, n[i].of)
      BY DEF Proto
    <3>3. t[i].of = S2(dialect, n[i].of)
      BY ONLY <3>1, <3>2 DEF Field
    <3> QED
      BY ONLY <2>2, <3>1, <3>3 DEF Theirs
  <2> QED
    BY ONLY <2>1, <2>2
<1> QED
  BY ONLY <1>1, <1>2, <1>3

\* The versions of a message and the message understand each other, level 3.
LEMMA Versions3 ==
    ASSUME NEW dialect \in Dialects, NEW n, Good3(n)
    PROVE  Comp3(S3(dialect, n), n) /\ Comp3(n, S3(dialect, n))
<1>1. PICK t, w : t = Theirs3(dialect, n) /\ w = S3(dialect, n)
  OBVIOUS
<1>2. w = Version(dialect, n, t)
  BY ONLY <1>1 DEF S3
<1>3. Proto(n)
  BY DEF Good3
<1>4. /\ IsFun(t, DOMAIN n) /\ \A i \in DOMAIN n : Theirs(n[i], t[i])
      /\ \A i \in DOMAIN n : n[i].type # "date" => t[i].of = S2(dialect, n[i].of)
  BY ONLY <1>1, <1>3, Theirs3Is
<1>5. /\ Related(w, n) /\ Related(n, w)
      /\ \A h \in DOMAIN w, i \in DOMAIN n : Tag(w[h]) = Tag(n[i]) => w[h] = t[i]
  BY ONLY <1>2, <1>3, <1>4, dialect \in Dialects, VersionIs
<1>6. ASSUME NEW i \in DOMAIN n
      PROVE  /\ Alike(t[i], n[i]) /\ Alike(n[i], t[i])
             /\ t[i].type = "message" /\ n[i].type = "message" =>
                  Comp2(t[i].of, n[i].of) /\ Comp2(n[i].of, t[i].of)
  <2>1. Alike(t[i], n[i]) /\ Alike(n[i], t[i])
    BY <1>3, <1>4, TheirsAlike DEF Proto
  <2>2. ASSUME n[i].type = "message"
        PROVE  Comp2(t[i].of, n[i].of) /\ Comp2(n[i].of, t[i].of)
    <3>1. t[i].of = S2(dialect, n[i].of)
      BY ONLY <1>4, <2>2, i \in DOMAIN n
    <3>2. Good2(n[i].of)
      BY <2>2 DEF Good3
    <3> QED
      BY ONLY <3>1, <3>2, dialect \in Dialects, Versions2
  <2> QED
    BY ONLY <2>1, <2>2
<1>7. Comp3(w, n)
  BY ONLY <1>5, <1>6 DEF Comp3
<1>8. Comp3(n, w)
  <2>1. \A i \in DOMAIN n, h \in DOMAIN w : Tag(n[i]) = Tag(w[h]) => w[h] = t[i]
    BY ONLY <1>5
  <2> QED
    BY ONLY <1>5, <1>6, <2>1 DEF Comp3
<1> QED
  BY ONLY <1>1, <1>7, <1>8

\* The fields of a version at level 4.
LEMMA Theirs4Is ==
    ASSUME NEW dialect, NEW n, Proto(n)
    PROVE  /\ IsFun(Theirs4(dialect, n), DOMAIN n)
           /\ \A i \in DOMAIN n :
                /\ Theirs(n[i], Theirs4(dialect, n)[i])
                /\ n[i].type # "date" => Theirs4(dialect, n)[i].of = S3(dialect, n[i].of)
<1>1. PICK t : t = Theirs4(dialect, n)
  OBVIOUS
<1>2. IsFun(t, DOMAIN n)
  BY ONLY <1>1 DEF IsFun, Theirs4
<1>3. ASSUME NEW i \in DOMAIN n
      PROVE  Theirs(n[i], t[i]) /\ (n[i].type # "date" => t[i].of = S3(dialect, n[i].of))
  <2>1. CASE n[i].type = "date"
    BY ONLY <1>1, <2>1, i \in DOMAIN n DEF Theirs4, Theirs
  <2>2. CASE n[i].type # "date"
    <3>1. t[i] = [n[i] EXCEPT !.of = S3(dialect, n[i].of)]
      BY ONLY <1>1, <2>2, i \in DOMAIN n DEF Theirs4
    <3>2. n[i] = Field(n[i].no, n[i].name, n[i].label, n[i].type, n[i].of)
      BY DEF Proto
    <3>3. t[i].of = S3(dialect, n[i].of)
      BY ONLY <3>1, <3>2 DEF Field
    <3> QED
      BY ONLY <2>2, <3>1, <3>3 DEF Theirs
  <2> QED
    BY ONLY <2>1, <2>2
<1> QED
  BY ONLY <1>1, <1>2, <1>3

\* The versions of a message and the message understand each other, level 4.
LEMMA Versions4 ==
    ASSUME NEW dialect \in Dialects, NEW n, Good4(n)
    PROVE  Comp4(S4(dialect, n), n) /\ Comp4(n, S4(dialect, n))
<1>1. PICK t, w : t = Theirs4(dialect, n) /\ w = S4(dialect, n)
  OBVIOUS
<1>2. w = Version(dialect, n, t)
  BY ONLY <1>1 DEF S4
<1>3. Proto(n)
  BY DEF Good4
<1>4. /\ IsFun(t, DOMAIN n) /\ \A i \in DOMAIN n : Theirs(n[i], t[i])
      /\ \A i \in DOMAIN n : n[i].type # "date" => t[i].of = S3(dialect, n[i].of)
  BY ONLY <1>1, <1>3, Theirs4Is
<1>5. /\ Related(w, n) /\ Related(n, w)
      /\ \A h \in DOMAIN w, i \in DOMAIN n : Tag(w[h]) = Tag(n[i]) => w[h] = t[i]
  BY ONLY <1>2, <1>3, <1>4, dialect \in Dialects, VersionIs
<1>6. ASSUME NEW i \in DOMAIN n
      PROVE  /\ Alike(t[i], n[i]) /\ Alike(n[i], t[i])
             /\ t[i].type = "message" /\ n[i].type = "message" =>
                  Comp3(t[i].of, n[i].of) /\ Comp3(n[i].of, t[i].of)
  <2>1. Alike(t[i], n[i]) /\ Alike(n[i], t[i])
    BY <1>3, <1>4, TheirsAlike DEF Proto
  <2>2. ASSUME n[i].type = "message"
        PROVE  Comp3(t[i].of, n[i].of) /\ Comp3(n[i].of, t[i].of)
    <3>1. t[i].of = S3(dialect, n[i].of)
      BY ONLY <1>4, <2>2, i \in DOMAIN n
    <3>2. Good3(n[i].of)
      BY <2>2 DEF Good4
    <3> QED
      BY ONLY <3>1, <3>2, dialect \in Dialects, Versions3
  <2> QED
    BY ONLY <2>1, <2>2
<1>7. Comp4(w, n)
  BY ONLY <1>5, <1>6 DEF Comp4
<1>8. Comp4(n, w)
  <2>1. \A i \in DOMAIN n, h \in DOMAIN w : Tag(n[i]) = Tag(w[h]) => w[h] = t[i]
    BY ONLY <1>5
  <2> QED
    BY ONLY <1>5, <1>6, <2>1 DEF Comp4
<1> QED
  BY ONLY <1>1, <1>7, <1>8
----------------------------------------------------------------------------
(* The samples of a message are values it can carry.                       *)

\* A field with a default that fits it, and a message of such fields.
Fits(f) ==
    /\ f.label = "many" => f.type \in {"message", "string"}
    /\ f.type = "date" => f.label = "optional" /\ f.no \in Int
    /\ f.type = "message" => f.label \in {"optional", "many"}
Shape1(n) == IsMessage(n) /\ \A i \in DOMAIN n : Fits(n[i]) /\ ~IsNested(n[i])
Shape2(n) ==
    /\ IsMessage(n)
    /\ \A i \in DOMAIN n : Fits(n[i]) /\ (n[i].type = "message" => Shape1(n[i].of))
Shape3(n) ==
    /\ IsMessage(n)
    /\ \A i \in DOMAIN n : Fits(n[i]) /\ (n[i].type = "message" => Shape2(n[i].of))
Shape4(n) ==
    /\ IsMessage(n)
    /\ \A i \in DOMAIN n : Fits(n[i]) /\ (n[i].type = "message" => Shape3(n[i].of))

\* What has one level has two, and so on.
LEMMA ShapesNest ==
    ASSUME NEW n
    PROVE  /\ Shape1(n) => Shape2(n)
           /\ Shape2(n) => Shape3(n)
           /\ Shape3(n) => Shape4(n)
<1>1. \A m : Shape1(m) => Shape2(m)
  BY DEF Shape1, Shape2, IsNested
<1>2. \A m : Shape2(m) => Shape3(m)
  BY <1>1 DEF Shape2, Shape3
<1>3. \A m : Shape3(m) => Shape4(m)
  BY <1>2 DEF Shape3, Shape4
<1> QED
  BY <1>1, <1>2, <1>3

\* What fits at a level fits at the one below.
LEMMA TypesNest ==
    ASSUME NEW n, NEW r
    PROVE  /\ Typed4(n, r) => Typed3(n, r)
           /\ Typed3(n, r) => Typed2(n, r)
           /\ Typed2(n, r) => Typed1(n, r)
<1>1. \A m, s : Typed2(m, s) => Typed1(m, s)
  BY DEF Typed2, Typed1
<1>2. \A m, s : Typed3(m, s) => Typed2(m, s)
  <2>1. \A g, x : Value3(g, x) => Value2(g, x)
    BY <1>1 DEF Value3, Value2
  <2> QED
    BY <2>1 DEF Typed3, Typed2
<1>3. \A m, s : Typed4(m, s) => Typed3(m, s)
  <2>1. \A g, x : Value4(g, x) => Value3(g, x)
    BY <1>2 DEF Value4, Value3
  <2> QED
    BY <2>1 DEF Typed4, Typed3
<1> QED
  BY <1>1, <1>2, <1>3

\* The protocol has such shapes.
LEMMA GoodShapes ==
    ASSUME NEW n
    PROVE  Good4(n) => Shape4(n)
<1>1. ASSUME NEW m, Proto(m)
      PROVE  IsMessage(m) /\ \A i \in DOMAIN m : Fits(m[i])
  <2>1. IsMessage(m) /\ \A i \in DOMAIN m : m[i].no \in Nat
    BY <1>1, ProtoIs
  <2> QED
    BY <1>1, <2>1 DEF Proto, Fits
<1>2. \A m : Good1(m) => Shape1(m)
  BY <1>1 DEF Good1, Shape1
<1>3. \A m : Good2(m) => Shape2(m)
  BY <1>1, <1>2 DEF Good2, Shape2
<1>4. \A m : Good3(m) => Shape3(m)
  BY <1>1, <1>3 DEF Good3, Shape3
<1> QED
  BY <1>1, <1>4 DEF Good4, Shape4

\* Timestamp is one.
LEMMA TimestampShape == Shape1(Timestamp) /\ Shape2(Timestamp) /\ Shape3(Timestamp)
<1>1. Shape1(Timestamp)
  <2>1. IsMessage(Timestamp)
    BY TimestampIs DEF Related
  <2>2. \A i \in DOMAIN Timestamp :
          /\ Timestamp[i].label = "one" /\ Timestamp[i].type = "int"
          /\ ~IsNested(Timestamp[i])
    BY TimestampIs
  <2>3. \A i \in DOMAIN Timestamp : Fits(Timestamp[i])
    BY ONLY <2>2 DEF Fits
  <2> QED
    BY ONLY <2>1, <2>2, <2>3 DEF Shape1
<1> QED
  BY <1>1, ShapesNest

\* A field of a version fits, and is one of theirs if it holds a message.
LEMMA VersionFits ==
    ASSUME NEW dialect \in Dialects, NEW n, Proto(n), NEW t, IsFun(t, DOMAIN n),
           \A i \in DOMAIN n : Theirs(n[i], t[i])
    PROVE  /\ IsMessage(Version(dialect, n, t))
           /\ \A h \in DOMAIN Version(dialect, n, t) :
                /\ Fits(Version(dialect, n, t)[h])
                /\ IsNested(Version(dialect, n, t)[h]) =>
                     \E i \in DOMAIN n : Version(dialect, n, t)[h] = t[i]
<1>1. PICK w : w = Version(dialect, n, t)
  OBVIOUS
<1>2. PICK src : Origin(t, w, src)
  BY <1>1, VersionIs
<1>3. IsMessage(w)
  BY <1>1, VersionIs DEF Related
<1>4. DOMAIN t = DOMAIN n
  BY DEF IsFun
<1>5. ASSUME NEW i \in DOMAIN n PROVE Fits(t[i])
  <2>1. CASE n[i].type = "date"
    <3>1. t[i] = Sub(n[i].no, n[i].name, Timestamp)
      BY <2>1 DEF Theirs
    <3> QED
      BY ONLY <3>1 DEF Sub, Field, Fits
  <2>2. CASE n[i].type # "date"
    <3>1. PICK o : t[i] = [n[i] EXCEPT !.of = o]
      BY <2>2 DEF Theirs
    <3>2. n[i] = Field(n[i].no, n[i].name, n[i].label, n[i].type, n[i].of)
      BY DEF Proto
    <3>3. t[i].label = n[i].label /\ t[i].type = n[i].type
      BY ONLY <3>1, <3>2 DEF Field
    <3>4. /\ n[i].type = "message" => n[i].label \in {"optional", "many"}
          /\ n[i].label = "many" => n[i].type \in {"message", "string"}
      BY DEF Proto
    <3> QED
      BY ONLY <2>2, <3>3, <3>4 DEF Fits
  <2> QED
    BY ONLY <2>1, <2>2
<1>6. ASSUME NEW h \in DOMAIN w
      PROVE  Fits(w[h]) /\ (IsNested(w[h]) => \E i \in DOMAIN n : w[h] = t[i])
  <2>1. \/ src[h] \in DOMAIN t /\ (w[h] = t[src[h]] \/ w[h] = Retyped(t[src[h]]))
        \/ w[h] = Num(21, "addedInt")
        \/ w[h] = Str(22, "addedStr")
    BY <1>2 DEF Origin
  <2>2. CASE src[h] \in DOMAIN t /\ w[h] = t[src[h]]
    BY ONLY <1>4, <1>5, <2>2
  <2>3. CASE w[h] = Retyped(t[src[h]])
    <3>1. w[h].label = "one" /\ w[h].type \in {"string", "int"}
      BY ONLY <2>3, RetypedIs
    <3> QED
      BY ONLY <3>1 DEF Fits, IsNested
  <2>4. CASE w[h] = Num(21, "addedInt")
    BY ONLY <2>4 DEF Num, Field, Fits, IsNested
  <2>5. CASE w[h] = Str(22, "addedStr")
    BY ONLY <2>5 DEF Str, Field, Fits, IsNested
  <2> QED
    BY ONLY <2>1, <2>2, <2>3, <2>4, <2>5
<1> QED
  BY ONLY <1>1, <1>3, <1>6


\* The shape of a version, level 1.
LEMMA VersionShape1 ==
    ASSUME NEW dialect \in Dialects, NEW n, Good1(n)
    PROVE  Shape1(S1(dialect, n))
<1>1. PICK t, w : t = Theirs1(dialect, n) /\ w = S1(dialect, n)
  OBVIOUS
<1>2. w = Version(dialect, n, t)
  BY ONLY <1>1 DEF S1
<1>3. Proto(n)
  BY DEF Good1
<1>4. /\ IsFun(t, DOMAIN n) /\ \A i \in DOMAIN n : Theirs(n[i], t[i])
      /\ \A i \in DOMAIN n : n[i].type # "date" => t[i].of = n[i].of
  BY ONLY <1>1, <1>3, Theirs1Is
<1>5. /\ IsMessage(w)
      /\ \A h \in DOMAIN w : /\ Fits(w[h])
                             /\ IsNested(w[h]) => \E i \in DOMAIN n : w[h] = t[i]
  BY ONLY <1>2, <1>3, <1>4, dialect \in Dialects, VersionFits
<1>6. ASSUME NEW i \in DOMAIN n PROVE ~IsNested(t[i])
  <2>1. n[i].type # "date" /\ n[i].type # "message"
    BY DEF Good1, IsNested
  <2>2. PICK o : t[i] = [n[i] EXCEPT !.of = o]
    BY <1>4, <2>1 DEF Theirs
  <2>3. n[i] = Field(n[i].no, n[i].name, n[i].label, n[i].type, n[i].of)
    BY <1>3 DEF Proto
  <2>4. t[i].type = n[i].type
    BY ONLY <2>2, <2>3 DEF Field
  <2> QED
    BY ONLY <2>1, <2>4 DEF IsNested
<1>7. Shape1(w)
  BY ONLY <1>5, <1>6 DEF Shape1
<1> QED
  BY ONLY <1>1, <1>7


\* The shape of a version, level 2.
LEMMA VersionShape2 ==
    ASSUME NEW dialect \in Dialects, NEW n, Good2(n)
    PROVE  Shape2(S2(dialect, n))
<1>1. PICK t, w : t = Theirs2(dialect, n) /\ w = S2(dialect, n)
  OBVIOUS
<1>2. w = Version(dialect, n, t)
  BY ONLY <1>1 DEF S2
<1>3. Proto(n)
  BY DEF Good2
<1>4. /\ IsFun(t, DOMAIN n) /\ \A i \in DOMAIN n : Theirs(n[i], t[i])
      /\ \A i \in DOMAIN n : n[i].type # "date" => t[i].of = S1(dialect, n[i].of)
  BY ONLY <1>1, <1>3, Theirs2Is
<1>5. /\ IsMessage(w)
      /\ \A h \in DOMAIN w : /\ Fits(w[h])
                             /\ IsNested(w[h]) => \E i \in DOMAIN n : w[h] = t[i]
  BY ONLY <1>2, <1>3, <1>4, dialect \in Dialects, VersionFits
<1>6. ASSUME NEW i \in DOMAIN n, t[i].type = "message" PROVE Shape1(t[i].of)
  <2>1. CASE n[i].type = "date"
    <3>1. t[i] = Sub(n[i].no, n[i].name, Timestamp)
      BY <1>4, <2>1 DEF Theirs
    <3>2. t[i].of = Timestamp
      BY ONLY <3>1 DEF Sub, Field
    <3> QED
      BY ONLY <3>2, TimestampShape
  <2>2. CASE n[i].type # "date"
    <3>1. PICK o : t[i] = [n[i] EXCEPT !.of = o]
      BY <1>4, <2>2 DEF Theirs
    <3>2. n[i] = Field(n[i].no, n[i].name, n[i].label, n[i].type, n[i].of)
      BY <1>3 DEF Proto
    <3>3. n[i].type = "message"
      BY ONLY <1>6, <3>1, <3>2 DEF Field
    <3>4. Good1(n[i].of)
      BY <3>3 DEF Good2
    <3>5. t[i].of = S1(dialect, n[i].of)
      BY ONLY <1>4, <2>2, i \in DOMAIN n
    <3> QED
      BY ONLY <3>4, <3>5, dialect \in Dialects, VersionShape1
  <2> QED
    BY ONLY <2>1, <2>2
<1>7. \A h \in DOMAIN w : w[h].type = "message" => Shape1(w[h].of)
  BY ONLY <1>5, <1>6 DEF IsNested
<1>8. Shape2(w)
  BY ONLY <1>5, <1>7 DEF Shape2
<1> QED
  BY ONLY <1>1, <1>8


\* The shape of a version, level 3.
LEMMA VersionShape3 ==
    ASSUME NEW dialect \in Dialects, NEW n, Good3(n)
    PROVE  Shape3(S3(dialect, n))
<1>1. PICK t, w : t = Theirs3(dialect, n) /\ w = S3(dialect, n)
  OBVIOUS
<1>2. w = Version(dialect, n, t)
  BY ONLY <1>1 DEF S3
<1>3. Proto(n)
  BY DEF Good3
<1>4. /\ IsFun(t, DOMAIN n) /\ \A i \in DOMAIN n : Theirs(n[i], t[i])
      /\ \A i \in DOMAIN n : n[i].type # "date" => t[i].of = S2(dialect, n[i].of)
  BY ONLY <1>1, <1>3, Theirs3Is
<1>5. /\ IsMessage(w)
      /\ \A h \in DOMAIN w : /\ Fits(w[h])
                             /\ IsNested(w[h]) => \E i \in DOMAIN n : w[h] = t[i]
  BY ONLY <1>2, <1>3, <1>4, dialect \in Dialects, VersionFits
<1>6. ASSUME NEW i \in DOMAIN n, t[i].type = "message" PROVE Shape2(t[i].of)
  <2>1. CASE n[i].type = "date"
    <3>1. t[i] = Sub(n[i].no, n[i].name, Timestamp)
      BY <1>4, <2>1 DEF Theirs
    <3>2. t[i].of = Timestamp
      BY ONLY <3>1 DEF Sub, Field
    <3> QED
      BY ONLY <3>2, TimestampShape
  <2>2. CASE n[i].type # "date"
    <3>1. PICK o : t[i] = [n[i] EXCEPT !.of = o]
      BY <1>4, <2>2 DEF Theirs
    <3>2. n[i] = Field(n[i].no, n[i].name, n[i].label, n[i].type, n[i].of)
      BY <1>3 DEF Proto
    <3>3. n[i].type = "message"
      BY ONLY <1>6, <3>1, <3>2 DEF Field
    <3>4. Good2(n[i].of)
      BY <3>3 DEF Good3
    <3>5. t[i].of = S2(dialect, n[i].of)
      BY ONLY <1>4, <2>2, i \in DOMAIN n
    <3> QED
      BY ONLY <3>4, <3>5, dialect \in Dialects, VersionShape2
  <2> QED
    BY ONLY <2>1, <2>2
<1>7. \A h \in DOMAIN w : w[h].type = "message" => Shape2(w[h].of)
  BY ONLY <1>5, <1>6 DEF IsNested
<1>8. Shape3(w)
  BY ONLY <1>5, <1>7 DEF Shape3
<1> QED
  BY ONLY <1>1, <1>8


\* The shape of a version, level 4.
LEMMA VersionShape4 ==
    ASSUME NEW dialect \in Dialects, NEW n, Good4(n)
    PROVE  Shape4(S4(dialect, n))
<1>1. PICK t, w : t = Theirs4(dialect, n) /\ w = S4(dialect, n)
  OBVIOUS
<1>2. w = Version(dialect, n, t)
  BY ONLY <1>1 DEF S4
<1>3. Proto(n)
  BY DEF Good4
<1>4. /\ IsFun(t, DOMAIN n) /\ \A i \in DOMAIN n : Theirs(n[i], t[i])
      /\ \A i \in DOMAIN n : n[i].type # "date" => t[i].of = S3(dialect, n[i].of)
  BY ONLY <1>1, <1>3, Theirs4Is
<1>5. /\ IsMessage(w)
      /\ \A h \in DOMAIN w : /\ Fits(w[h])
                             /\ IsNested(w[h]) => \E i \in DOMAIN n : w[h] = t[i]
  BY ONLY <1>2, <1>3, <1>4, dialect \in Dialects, VersionFits
<1>6. ASSUME NEW i \in DOMAIN n, t[i].type = "message" PROVE Shape3(t[i].of)
  <2>1. CASE n[i].type = "date"
    <3>1. t[i] = Sub(n[i].no, n[i].name, Timestamp)
      BY <1>4, <2>1 DEF Theirs
    <3>2. t[i].of = Timestamp
      BY ONLY <3>1 DEF Sub, Field
    <3> QED
      BY ONLY <3>2, TimestampShape
  <2>2. CASE n[i].type # "date"
    <3>1. PICK o : t[i] = [n[i] EXCEPT !.of = o]
      BY <1>4, <2>2 DEF Theirs
    <3>2. n[i] = Field(n[i].no, n[i].name, n[i].label, n[i].type, n[i].of)
      BY <1>3 DEF Proto
    <3>3. n[i].type = "message"
      BY ONLY <1>6, <3>1, <3>2 DEF Field
    <3>4. Good3(n[i].of)
      BY <3>3 DEF Good4
    <3>5. t[i].of = S3(dialect, n[i].of)
      BY ONLY <1>4, <2>2, i \in DOMAIN n
    <3> QED
      BY ONLY <3>4, <3>5, dialect \in Dialects, VersionShape3
  <2> QED
    BY ONLY <2>1, <2>2
<1>7. \A h \in DOMAIN w : w[h].type = "message" => Shape3(w[h].of)
  BY ONLY <1>5, <1>6 DEF IsNested
<1>8. Shape4(w)
  BY ONLY <1>5, <1>7 DEF Shape4
<1> QED
  BY ONLY <1>1, <1>8

\* What Full puts into a field, and what it makes, at each level.
Filled1(f) ==
    IF f.label = "many"
    THEN IF f.type = "string" THEN <<"a", "b">> ELSE <<CreateBase(f.of), CreateBase(f.of)>>
    ELSE CASE f.type = "string"  -> f.name
           [] f.type = "bytes"   -> <<f.no, 7>>
           [] f.type = "bool"    -> TRUE
           [] f.type = "enum"    -> 1
           [] f.type = "date"    -> 1000 * f.no + 500
           [] f.type = "message" -> CreateBase(f.of)
           [] OTHER              -> f.no
F1(n) == [name \in Names(n) |-> Filled1(Named(n, name))]
Filled2(f) ==
    IF f.label = "many"
    THEN IF f.type = "string" THEN <<"a", "b">> ELSE <<F1(f.of), CreateBase(f.of)>>
    ELSE CASE f.type = "string"  -> f.name
           [] f.type = "bytes"   -> <<f.no, 7>>
           [] f.type = "bool"    -> TRUE
           [] f.type = "enum"    -> 1
           [] f.type = "date"    -> 1000 * f.no + 500
           [] f.type = "message" -> F1(f.of)
           [] OTHER              -> f.no
F2(n) == [name \in Names(n) |-> Filled2(Named(n, name))]
Filled3(f) ==
    IF f.label = "many"
    THEN IF f.type = "string" THEN <<"a", "b">> ELSE <<F2(f.of), CreateBase(f.of)>>
    ELSE CASE f.type = "string"  -> f.name
           [] f.type = "bytes"   -> <<f.no, 7>>
           [] f.type = "bool"    -> TRUE
           [] f.type = "enum"    -> 1
           [] f.type = "date"    -> 1000 * f.no + 500
           [] f.type = "message" -> F2(f.of)
           [] OTHER              -> f.no
F3(n) == [name \in Names(n) |-> Filled3(Named(n, name))]
Filled4(f) ==
    IF f.label = "many"
    THEN IF f.type = "string" THEN <<"a", "b">> ELSE <<F3(f.of), CreateBase(f.of)>>
    ELSE CASE f.type = "string"  -> f.name
           [] f.type = "bytes"   -> <<f.no, 7>>
           [] f.type = "bool"    -> TRUE
           [] f.type = "enum"    -> 1
           [] f.type = "date"    -> 1000 * f.no + 500
           [] f.type = "message" -> F3(f.of)
           [] OTHER              -> f.no
F4(n) == [name \in Names(n) |-> Filled4(Named(n, name))]

\* Full is its four levels.
LEMMA FullIs ==
    ASSUME NEW n PROVE Full(n) = F4(n)
BY DEF Full, F4, F3, F2, F1, Filled4, Filled3, Filled2, Filled1

\* A default fits its field.
LEMMA BaseFits ==
    ASSUME NEW f, Fits(f)
    PROVE  /\ f.label = "many" => IsSeq(Base(f))
           /\ Value2(f, Base(f)) /\ Value3(f, Base(f)) /\ Value4(f, Base(f))
<1>1. CASE f.label = "many"
  <2>1. Base(f) = <<>>
    BY ONLY <1>1 DEF Base
  <2>2. IsSeq(<<>>) /\ DOMAIN <<>> = {}
    <3>1. Len(<<>>) = 0 /\ 1 .. 0 = {} /\ <<>> = [k \in {} |-> <<>>[k]]
      OBVIOUS
    <3> QED
      BY ONLY <3>1 DEF IsSeq
  <2>3. f.type # "date"
    BY <1>1 DEF Fits
  <2> QED
    BY ONLY <1>1, <2>1, <2>2, <2>3 DEF Value2, Value3, Value4
<1>2. CASE f.label = "optional"
  <2>1. Base(f) = None
    BY ONLY <1>2 DEF Base
  <2> QED
    BY ONLY <1>2, <2>1 DEF Value2, Value3, Value4
<1>3. CASE f.label # "many" /\ f.label # "optional"
  <2>1. f.type # "date" /\ f.type # "message"
    BY <1>3 DEF Fits
  <2> QED
    BY ONLY <1>3, <2>1 DEF Value2, Value3, Value4
<1> QED
  BY ONLY <1>1, <1>2, <1>3

\* The message of all defaults fits.
LEMMA BaseTyped ==
    ASSUME NEW n, IsMessage(n), \A i \in DOMAIN n : Fits(n[i])
    PROVE  /\ Typed1(n, CreateBase(n)) /\ Typed2(n, CreateBase(n))
           /\ Typed3(n, CreateBase(n)) /\ Typed4(n, CreateBase(n))
<1>1. PICK r : r = CreateBase(n)
  OBVIOUS
<1>2. ASSUME NEW i \in DOMAIN n PROVE r[n[i].name] = Base(n[i])
  <2>1. n[i].name \in Names(n)
    BY DEF Names
  <2>2. r[n[i].name] = Base(Named(n, n[i].name))
    BY ONLY <1>1, <2>1 DEF CreateBase
  <2>3. Named(n, n[i].name) = n[i]
    BY NamedIs
  <2> QED
    BY ONLY <2>2, <2>3
<1>3. Lists(n, r)
  BY <1>2, BaseFits DEF Lists
<1>4. \A i \in DOMAIN n :
        Value2(n[i], r[n[i].name]) /\ Value3(n[i], r[n[i].name]) /\ Value4(n[i], r[n[i].name])
  BY <1>2, BaseFits
<1> QED
  BY ONLY <1>1, <1>3, <1>4 DEF Typed1, Typed2, Typed3, Typed4

\* Two of them are a sequence.
LEMMA PairIs ==
    ASSUME NEW x, NEW y
    PROVE  IsSeq(<<x, y>>) /\ DOMAIN <<x, y>> = {1, 2} /\ <<x, y>>[1] = x /\ <<x, y>>[2] = y
<1>1. Len(<<x, y>>) = 2 /\ <<x, y>> = [k \in 1 .. 2 |-> <<x, y>>[k]]
  OBVIOUS
<1>2. IsSeq(<<x, y>>)
  BY ONLY <1>1 DEF IsSeq
<1> QED
  BY <1>2

\* What Full makes at level 1 fits.
LEMMA FullTyped1 ==
    ASSUME NEW n, Shape1(n)
    PROVE  Typed1(n, F1(n))
<1>1. PICK r : r = F1(n)
  OBVIOUS
<1>2. IsMessage(n) /\ \A i \in DOMAIN n : Fits(n[i])
  BY DEF Shape1
<1>3. ASSUME NEW i \in DOMAIN n PROVE r[n[i].name] = Filled1(n[i])
  <2>1. n[i].name \in Names(n)
    BY DEF Names
  <2>2. r[n[i].name] = Filled1(Named(n, n[i].name))
    BY ONLY <1>1, <2>1 DEF F1
  <2>3. Named(n, n[i].name) = n[i]
    BY <1>2, NamedIs
  <2> QED
    BY ONLY <2>2, <2>3
<1>4. ASSUME NEW i \in DOMAIN n, n[i].label = "many" PROVE IsSeq(Filled1(n[i]))
  <2>1. \E x, y : Filled1(n[i]) = <<x, y>>
    BY <1>4 DEF Filled1
  <2> QED
    BY <2>1, PairIs
<1>5. Lists(n, r)
  BY <1>3, <1>4 DEF Lists
<1> QED
  BY ONLY <1>1, <1>5 DEF Typed1

\* What Full makes at level 2 fits.
LEMMA FullTyped2 ==
    ASSUME NEW n, Shape2(n)
    PROVE  Typed2(n, F2(n))
<1>1. PICK r : r = F2(n)
  OBVIOUS
<1>2. IsMessage(n) /\ \A i \in DOMAIN n : Fits(n[i])
  BY DEF Shape2
<1>3. ASSUME NEW i \in DOMAIN n PROVE r[n[i].name] = Filled2(n[i])
  <2>1. n[i].name \in Names(n)
    BY DEF Names
  <2>2. r[n[i].name] = Filled2(Named(n, n[i].name))
    BY ONLY <1>1, <2>1 DEF F2
  <2>3. Named(n, n[i].name) = n[i]
    BY <1>2, NamedIs
  <2> QED
    BY ONLY <2>2, <2>3
<1>4. ASSUME NEW i \in DOMAIN n, n[i].label = "many" PROVE IsSeq(Filled2(n[i]))
  <2>1. \E x, y : Filled2(n[i]) = <<x, y>>
    BY <1>4 DEF Filled2
  <2> QED
    BY <2>1, PairIs
<1>5. Lists(n, r)
  BY <1>3, <1>4 DEF Lists
<1>6. ASSUME NEW i \in DOMAIN n PROVE Value2(n[i], Filled2(n[i]))
  <2>1. ASSUME n[i].type = "message"
        PROVE  Typed1(n[i].of, F1(n[i].of)) /\ Typed1(n[i].of, CreateBase(n[i].of))
    <3>1. Shape1(n[i].of)
      BY <2>1 DEF Shape2
    <3>2. Typed1(n[i].of, F1(n[i].of))
      BY <3>1, FullTyped1
    <3>3. IsMessage(n[i].of) /\ \A h \in DOMAIN n[i].of : Fits(n[i].of[h])
      BY <3>1 DEF Shape1
    <3> QED
      BY ONLY <3>2, <3>3, BaseTyped
  <2>2. CASE n[i].type = "date"
    <3>1. n[i].label = "optional" /\ n[i].no \in Int
      BY <1>2, <2>2 DEF Fits
    <3>2. Filled2(n[i]) = 1000 * n[i].no + 500
      BY ONLY <2>2, <3>1 DEF Filled2
    <3>3. Filled2(n[i]) \in Int
      BY ONLY <3>1, <3>2
    <3> QED
      BY ONLY <2>2, <3>3 DEF Value2
  <2>3. CASE n[i].type = "message" /\ n[i].label = "many"
    <3>1. Filled2(n[i]) = <<F1(n[i].of), CreateBase(n[i].of)>>
      BY ONLY <2>3 DEF Filled2
    <3>2. PICK x, y : x = F1(n[i].of) /\ y = CreateBase(n[i].of)
      OBVIOUS
    <3>3. /\ DOMAIN <<x, y>> = {1, 2} /\ <<x, y>>[1] = x /\ <<x, y>>[2] = y
          /\ Filled2(n[i]) = <<x, y>>
      BY <3>1, <3>2, PairIs
    <3>4. \A h \in DOMAIN <<x, y>> : Typed1(n[i].of, <<x, y>>[h])
      BY <2>1, <2>3, <3>2, <3>3
    <3> QED
      BY ONLY <2>3, <3>3, <3>4 DEF Value2
  <2>4. CASE n[i].type = "message" /\ n[i].label # "many"
    <3>1. Filled2(n[i]) = F1(n[i].of)
      BY ONLY <2>4 DEF Filled2
    <3> QED
      BY ONLY <2>1, <2>4, <3>1 DEF Value2
  <2>5. CASE n[i].type # "message" /\ n[i].type # "date"
    BY ONLY <2>5 DEF Value2
  <2> QED
    BY ONLY <2>2, <2>3, <2>4, <2>5
<1>7. \A i \in DOMAIN n : Value2(n[i], r[n[i].name])
  BY ONLY <1>3, <1>6
<1> QED
  BY ONLY <1>1, <1>5, <1>7 DEF Typed2

\* What Full makes at level 3 fits.
LEMMA FullTyped3 ==
    ASSUME NEW n, Shape3(n)
    PROVE  Typed3(n, F3(n))
<1>1. PICK r : r = F3(n)
  OBVIOUS
<1>2. IsMessage(n) /\ \A i \in DOMAIN n : Fits(n[i])
  BY DEF Shape3
<1>3. ASSUME NEW i \in DOMAIN n PROVE r[n[i].name] = Filled3(n[i])
  <2>1. n[i].name \in Names(n)
    BY DEF Names
  <2>2. r[n[i].name] = Filled3(Named(n, n[i].name))
    BY ONLY <1>1, <2>1 DEF F3
  <2>3. Named(n, n[i].name) = n[i]
    BY <1>2, NamedIs
  <2> QED
    BY ONLY <2>2, <2>3
<1>4. ASSUME NEW i \in DOMAIN n, n[i].label = "many" PROVE IsSeq(Filled3(n[i]))
  <2>1. \E x, y : Filled3(n[i]) = <<x, y>>
    BY <1>4 DEF Filled3
  <2> QED
    BY <2>1, PairIs
<1>5. Lists(n, r)
  BY <1>3, <1>4 DEF Lists
<1>6. ASSUME NEW i \in DOMAIN n PROVE Value3(n[i], Filled3(n[i]))
  <2>1. ASSUME n[i].type = "message"
        PROVE  Typed2(n[i].of, F2(n[i].of)) /\ Typed2(n[i].of, CreateBase(n[i].of))
    <3>1. Shape2(n[i].of)
      BY <2>1 DEF Shape3
    <3>2. Typed2(n[i].of, F2(n[i].of))
      BY <3>1, FullTyped2
    <3>3. IsMessage(n[i].of) /\ \A h \in DOMAIN n[i].of : Fits(n[i].of[h])
      BY <3>1 DEF Shape2
    <3> QED
      BY ONLY <3>2, <3>3, BaseTyped
  <2>2. CASE n[i].type = "date"
    <3>1. n[i].label = "optional" /\ n[i].no \in Int
      BY <1>2, <2>2 DEF Fits
    <3>2. Filled3(n[i]) = 1000 * n[i].no + 500
      BY ONLY <2>2, <3>1 DEF Filled3
    <3>3. Filled3(n[i]) \in Int
      BY ONLY <3>1, <3>2
    <3> QED
      BY ONLY <2>2, <3>3 DEF Value3
  <2>3. CASE n[i].type = "message" /\ n[i].label = "many"
    <3>1. Filled3(n[i]) = <<F2(n[i].of), CreateBase(n[i].of)>>
      BY ONLY <2>3 DEF Filled3
    <3>2. PICK x, y : x = F2(n[i].of) /\ y = CreateBase(n[i].of)
      OBVIOUS
    <3>3. /\ DOMAIN <<x, y>> = {1, 2} /\ <<x, y>>[1] = x /\ <<x, y>>[2] = y
          /\ Filled3(n[i]) = <<x, y>>
      BY <3>1, <3>2, PairIs
    <3>4. \A h \in DOMAIN <<x, y>> : Typed2(n[i].of, <<x, y>>[h])
      BY <2>1, <2>3, <3>2, <3>3
    <3> QED
      BY ONLY <2>3, <3>3, <3>4 DEF Value3
  <2>4. CASE n[i].type = "message" /\ n[i].label # "many"
    <3>1. Filled3(n[i]) = F2(n[i].of)
      BY ONLY <2>4 DEF Filled3
    <3> QED
      BY ONLY <2>1, <2>4, <3>1 DEF Value3
  <2>5. CASE n[i].type # "message" /\ n[i].type # "date"
    BY ONLY <2>5 DEF Value3
  <2> QED
    BY ONLY <2>2, <2>3, <2>4, <2>5
<1>7. \A i \in DOMAIN n : Value3(n[i], r[n[i].name])
  BY ONLY <1>3, <1>6
<1> QED
  BY ONLY <1>1, <1>5, <1>7 DEF Typed3

\* What Full makes at level 4 fits.
LEMMA FullTyped4 ==
    ASSUME NEW n, Shape4(n)
    PROVE  Typed4(n, F4(n))
<1>1. PICK r : r = F4(n)
  OBVIOUS
<1>2. IsMessage(n) /\ \A i \in DOMAIN n : Fits(n[i])
  BY DEF Shape4
<1>3. ASSUME NEW i \in DOMAIN n PROVE r[n[i].name] = Filled4(n[i])
  <2>1. n[i].name \in Names(n)
    BY DEF Names
  <2>2. r[n[i].name] = Filled4(Named(n, n[i].name))
    BY ONLY <1>1, <2>1 DEF F4
  <2>3. Named(n, n[i].name) = n[i]
    BY <1>2, NamedIs
  <2> QED
    BY ONLY <2>2, <2>3
<1>4. ASSUME NEW i \in DOMAIN n, n[i].label = "many" PROVE IsSeq(Filled4(n[i]))
  <2>1. \E x, y : Filled4(n[i]) = <<x, y>>
    BY <1>4 DEF Filled4
  <2> QED
    BY <2>1, PairIs
<1>5. Lists(n, r)
  BY <1>3, <1>4 DEF Lists
<1>6. ASSUME NEW i \in DOMAIN n PROVE Value4(n[i], Filled4(n[i]))
  <2>1. ASSUME n[i].type = "message"
        PROVE  Typed3(n[i].of, F3(n[i].of)) /\ Typed3(n[i].of, CreateBase(n[i].of))
    <3>1. Shape3(n[i].of)
      BY <2>1 DEF Shape4
    <3>2. Typed3(n[i].of, F3(n[i].of))
      BY <3>1, FullTyped3
    <3>3. IsMessage(n[i].of) /\ \A h \in DOMAIN n[i].of : Fits(n[i].of[h])
      BY <3>1 DEF Shape3
    <3> QED
      BY ONLY <3>2, <3>3, BaseTyped
  <2>2. CASE n[i].type = "date"
    <3>1. n[i].label = "optional" /\ n[i].no \in Int
      BY <1>2, <2>2 DEF Fits
    <3>2. Filled4(n[i]) = 1000 * n[i].no + 500
      BY ONLY <2>2, <3>1 DEF Filled4
    <3>3. Filled4(n[i]) \in Int
      BY ONLY <3>1, <3>2
    <3> QED
      BY ONLY <2>2, <3>3 DEF Value4
  <2>3. CASE n[i].type = "message" /\ n[i].label = "many"
    <3>1. Filled4(n[i]) = <<F3(n[i].of), CreateBase(n[i].of)>>
      BY ONLY <2>3 DEF Filled4
    <3>2. PICK x, y : x = F3(n[i].of) /\ y = CreateBase(n[i].of)
      OBVIOUS
    <3>3. /\ DOMAIN <<x, y>> = {1, 2} /\ <<x, y>>[1] = x /\ <<x, y>>[2] = y
          /\ Filled4(n[i]) = <<x, y>>
      BY <3>1, <3>2, PairIs
    <3>4. \A h \in DOMAIN <<x, y>> : Typed3(n[i].of, <<x, y>>[h])
      BY <2>1, <2>3, <3>2, <3>3
    <3> QED
      BY ONLY <2>3, <3>3, <3>4 DEF Value4
  <2>4. CASE n[i].type = "message" /\ n[i].label # "many"
    <3>1. Filled4(n[i]) = F3(n[i].of)
      BY ONLY <2>4 DEF Filled4
    <3> QED
      BY ONLY <2>1, <2>4, <3>1 DEF Value4
  <2>5. CASE n[i].type # "message" /\ n[i].type # "date"
    BY ONLY <2>5 DEF Value4
  <2> QED
    BY ONLY <2>2, <2>3, <2>4, <2>5
<1>7. \A i \in DOMAIN n : Value4(n[i], r[n[i].name])
  BY ONLY <1>3, <1>6
<1> QED
  BY ONLY <1>1, <1>5, <1>7 DEF Typed4

\* Full makes what fits, at every level.
LEMMA FullFits ==
    ASSUME NEW n
    PROVE  /\ IsFun(Full(n), Names(n))
           /\ Shape4(n) => Typed4(n, Full(n))
           /\ Shape3(n) => Typed3(n, Full(n))
           /\ Shape2(n) => Typed2(n, Full(n))
           /\ Shape1(n) => Typed1(n, Full(n))
<1>1. Shape4(n) => Typed4(n, Full(n))
  BY FullIs, FullTyped4
<1>2. IsFun(Full(n), Names(n))
  BY FullIs DEF F4, IsFun
<1> QED
  BY ONLY <1>1, <1>2, ShapesNest, TypesNest

\* Another value of one field.
Changed(s, r, name, x) == s = [r EXCEPT ![name] = x]

Alters(n, r, i, x, s) ==
    /\ IsMessage(n) /\ IsFun(r, Names(n)) /\ i \in DOMAIN n
    /\ Changed(s, r, n[i].name, x)

\* That field has it, the others have theirs.
LEMMA OneOther ==
    ASSUME NEW n, NEW r, NEW i, NEW x, NEW s, Alters(n, r, i, x, s)
    PROVE  s[n[i].name] = x /\ \A h \in DOMAIN n : h # i => s[n[h].name] = r[n[h].name]
<1> USE DEF Alters
<1>1. \A h \in DOMAIN n : n[h].name \in Names(n)
  BY DEF Names
<1>2. \A h \in DOMAIN n : h # i => n[h].name # n[i].name
  BY DEF IsMessage
<1>3. DOMAIN r = Names(n)
  BY DEF IsFun
<1>4. s = [name \in Names(n) |-> IF name = n[i].name THEN x ELSE r[name]]
  BY <1>3 DEF Changed
<1> QED
  BY <1>1, <1>2, <1>4

\* It fits if its new value does, level 1.
LEMMA OtherTyped1 ==
    ASSUME NEW n, IsMessage(n), NEW r, IsFun(r, Names(n)), Typed1(n, r),
           NEW i \in DOMAIN n, NEW x, n[i].label = "many" => IsSeq(x),
           NEW s, Changed(s, r, n[i].name, x)
    PROVE  Typed1(n, s)
<1>1. s[n[i].name] = x /\ \A h \in DOMAIN n : h # i => s[n[h].name] = r[n[h].name]
  <2>1. Alters(n, r, i, x, s)
    BY DEF Alters
  <2> QED
    BY ONLY <2>1, OneOther
<1>2. Lists(n, s)
  BY <1>1 DEF Typed1, Lists
<1> QED
  BY ONLY <1>2 DEF Typed1

\* It fits if its new value does, level 2.
LEMMA OtherTyped2 ==
    ASSUME NEW n, IsMessage(n), NEW r, IsFun(r, Names(n)), Typed2(n, r),
           NEW i \in DOMAIN n, NEW x, n[i].label = "many" => IsSeq(x), Value2(n[i], x),
           NEW s, Changed(s, r, n[i].name, x)
    PROVE  Typed2(n, s)
<1>1. s[n[i].name] = x /\ \A h \in DOMAIN n : h # i => s[n[h].name] = r[n[h].name]
  <2>1. Alters(n, r, i, x, s)
    BY DEF Alters
  <2> QED
    BY ONLY <2>1, OneOther
<1>2. Lists(n, s)
  BY <1>1 DEF Typed2, Lists
<1>3. \A h \in DOMAIN n : Value2(n[h], s[n[h].name])
  BY <1>1 DEF Typed2
<1> QED
  BY ONLY <1>2, <1>3 DEF Typed2

\* It fits if its new value does, level 3.
LEMMA OtherTyped3 ==
    ASSUME NEW n, IsMessage(n), NEW r, IsFun(r, Names(n)), Typed3(n, r),
           NEW i \in DOMAIN n, NEW x, n[i].label = "many" => IsSeq(x), Value3(n[i], x),
           NEW s, Changed(s, r, n[i].name, x)
    PROVE  Typed3(n, s)
<1>1. s[n[i].name] = x /\ \A h \in DOMAIN n : h # i => s[n[h].name] = r[n[h].name]
  <2>1. Alters(n, r, i, x, s)
    BY DEF Alters
  <2> QED
    BY ONLY <2>1, OneOther
<1>2. Lists(n, s)
  BY <1>1 DEF Typed3, Lists
<1>3. \A h \in DOMAIN n : Value3(n[h], s[n[h].name])
  BY <1>1 DEF Typed3
<1> QED
  BY ONLY <1>2, <1>3 DEF Typed3

\* It fits if its new value does, level 4.
LEMMA OtherTyped4 ==
    ASSUME NEW n, IsMessage(n), NEW r, IsFun(r, Names(n)), Typed4(n, r),
           NEW i \in DOMAIN n, NEW x, n[i].label = "many" => IsSeq(x), Value4(n[i], x),
           NEW s, Changed(s, r, n[i].name, x)
    PROVE  Typed4(n, s)
<1>1. s[n[i].name] = x /\ \A h \in DOMAIN n : h # i => s[n[h].name] = r[n[h].name]
  <2>1. Alters(n, r, i, x, s)
    BY DEF Alters
  <2> QED
    BY ONLY <2>1, OneOther
<1>2. Lists(n, s)
  BY <1>1 DEF Typed4, Lists
<1>3. \A h \in DOMAIN n : Value4(n[h], s[n[h].name])
  BY <1>1 DEF Typed4
<1> QED
  BY ONLY <1>2, <1>3 DEF Typed4

\* The samples, at each level.
Others1(f) ==
    {Base(f)} \union
    CASE f.type = "enum" -> EnumValues
      [] f.type = "message" /\ f.label = "many" -> {<<v>> : v \in {}}
      [] f.type = "message" /\ f.label # "many" -> {}
      [] OTHER -> {}
Samp1(n) ==
    {Full(n)} \union
    UNION {{[Full(n) EXCEPT ![name] = x] : x \in Others1(Named(n, name))} :
             name \in Names(n)}
Others2(f) ==
    {Base(f)} \union
    CASE f.type = "enum" -> EnumValues
      [] f.type = "message" /\ f.label = "many" -> {<<v>> : v \in Samp1(f.of)}
      [] f.type = "message" /\ f.label # "many" -> Samp1(f.of)
      [] OTHER -> {}
Samp2(n) ==
    {Full(n)} \union
    UNION {{[Full(n) EXCEPT ![name] = x] : x \in Others2(Named(n, name))} :
             name \in Names(n)}
Others3(f) ==
    {Base(f)} \union
    CASE f.type = "enum" -> EnumValues
      [] f.type = "message" /\ f.label = "many" -> {<<v>> : v \in Samp2(f.of)}
      [] f.type = "message" /\ f.label # "many" -> Samp2(f.of)
      [] OTHER -> {}
Samp3(n) ==
    {Full(n)} \union
    UNION {{[Full(n) EXCEPT ![name] = x] : x \in Others3(Named(n, name))} :
             name \in Names(n)}
Others4(f) ==
    {Base(f)} \union
    CASE f.type = "enum" -> EnumValues
      [] f.type = "message" /\ f.label = "many" -> {<<v>> : v \in Samp3(f.of)}
      [] f.type = "message" /\ f.label # "many" -> Samp3(f.of)
      [] OTHER -> {}
Samp4(n) ==
    {Full(n)} \union
    UNION {{[Full(n) EXCEPT ![name] = x] : x \in Others4(Named(n, name))} :
             name \in Names(n)}

\* Samples is its four levels.
LEMMA SamplesAre ==
    ASSUME NEW n PROVE Samples(n) = Samp4(n)
BY DEF Samples, Samp4, Samp3, Samp2, Samp1, Others4, Others3, Others2, Others1

\* One is a sequence.
LEMMA OnlyIs ==
    ASSUME NEW x
    PROVE  IsSeq(<<x>>) /\ DOMAIN <<x>> = {1} /\ <<x>>[1] = x
<1>1. Len(<<x>>) = 1 /\ <<x>> = [k \in 1 .. 1 |-> <<x>>[k]]
  OBVIOUS
<1>2. IsSeq(<<x>>)
  BY ONLY <1>1 DEF IsSeq
<1> QED
  BY <1>2

\* The samples of level 1 fit.
LEMMA SampTyped1 ==
    ASSUME NEW n, Shape1(n), NEW v \in Samp1(n)
    PROVE  Typed1(n, v)
<1>1. /\ IsMessage(n) /\ \A i \in DOMAIN n : Fits(n[i])
      /\ IsFun(Full(n), Names(n)) /\ Typed1(n, Full(n))
  BY FullFits DEF Shape1
<1>2. ASSUME NEW i \in DOMAIN n, NEW x \in Others1(n[i]),
             NEW s, Changed(s, Full(n), n[i].name, x)
      PROVE  Typed1(n, s)
  <2>1. CASE x = Base(n[i])
    <3>1. (n[i].label = "many" => IsSeq(x))
      BY ONLY <1>1, <2>1, i \in DOMAIN n, BaseFits
    <3> QED
      BY ONLY <1>1, <3>1, i \in DOMAIN n, <1>2, OtherTyped1
  <2>2. CASE n[i].type = "enum" /\ x # Base(n[i])
    <3>1. n[i].label # "many"
      BY <1>1, <2>2 DEF Fits
    <3> QED
      BY ONLY <1>1, <3>1, i \in DOMAIN n, <1>2, OtherTyped1
  <2>3. n[i].type # "message"
    BY DEF Shape1, IsNested
  <2>4. n[i].type = "enum" \/ x = Base(n[i])
    BY <2>3 DEF Others1
  <2> QED
    BY ONLY <2>1, <2>2, <2>4
<1>3. CASE v = Full(n)
  BY ONLY <1>1, <1>3
<1>4. CASE v # Full(n)
  <2>1. PICK name \in Names(n) : \E x \in Others1(Named(n, name)) :
                                    Changed(v, Full(n), name, x)
    BY <1>4 DEF Samp1, Changed
  <2>2. PICK i \in DOMAIN n : name = n[i].name
    BY <2>1 DEF Names
  <2>3. Named(n, name) = n[i]
    BY <1>1, <2>2, NamedIs
  <2>4. PICK x \in Others1(n[i]) : Changed(v, Full(n), n[i].name, x)
    BY ONLY <2>1, <2>2, <2>3
  <2> QED
    BY ONLY <1>2, <2>4, i \in DOMAIN n
<1> QED
  BY ONLY <1>3, <1>4

\* The samples of level 2 fit.
LEMMA SampTyped2 ==
    ASSUME NEW n, Shape2(n), NEW v \in Samp2(n)
    PROVE  Typed2(n, v)
<1>1. /\ IsMessage(n) /\ \A i \in DOMAIN n : Fits(n[i])
      /\ IsFun(Full(n), Names(n)) /\ Typed2(n, Full(n))
  BY FullFits DEF Shape2
<1>2. ASSUME NEW i \in DOMAIN n, NEW x \in Others2(n[i]),
             NEW s, Changed(s, Full(n), n[i].name, x)
      PROVE  Typed2(n, s)
  <2>1. CASE x = Base(n[i])
    <3>1. (n[i].label = "many" => IsSeq(x)) /\ Value2(n[i], x)
      BY ONLY <1>1, <2>1, i \in DOMAIN n, BaseFits
    <3> QED
      BY ONLY <1>1, <3>1, i \in DOMAIN n, <1>2, OtherTyped2
  <2>2. CASE n[i].type = "enum" /\ x # Base(n[i])
    <3>1. n[i].label # "many"
      BY <1>1, <2>2 DEF Fits
    <3>2. Value2(n[i], x)
      BY ONLY <2>2 DEF Value2
    <3> QED
      BY ONLY <1>1, <3>1, <3>2, i \in DOMAIN n, <1>2, OtherTyped2
  <2>3. CASE n[i].type = "message" /\ n[i].label = "many" /\ x # Base(n[i])
    <3>1. PICK y \in Samp1(n[i].of) : x = <<y>>
      BY <2>3 DEF Others2
    <3>2. Shape1(n[i].of)
      BY <2>3 DEF Shape2
    <3>3. Typed1(n[i].of, y)
      BY <3>1, <3>2, SampTyped1
    <3>4. IsSeq(x) /\ DOMAIN x = {1} /\ x[1] = y
      BY ONLY <3>1, OnlyIs
    <3>5. Value2(n[i], x)
      BY ONLY <2>3, <3>3, <3>4 DEF Value2
    <3> QED
      BY ONLY <1>1, <3>4, <3>5, i \in DOMAIN n, <1>2, OtherTyped2
  <2>4. CASE n[i].type = "message" /\ n[i].label # "many" /\ x # Base(n[i])
    <3>1. x \in Samp1(n[i].of)
      BY <2>4 DEF Others2
    <3>2. Shape1(n[i].of)
      BY <2>4 DEF Shape2
    <3>3. Typed1(n[i].of, x)
      BY <3>1, <3>2, SampTyped1
    <3>4. Value2(n[i], x)
      BY ONLY <2>4, <3>3 DEF Value2
    <3> QED
      BY ONLY <1>1, <2>4, <3>4, i \in DOMAIN n, <1>2, OtherTyped2
  <2>5. n[i].type \in {"enum", "message"} \/ x = Base(n[i])
    BY DEF Others2
  <2> QED
    BY ONLY <2>1, <2>2, <2>3, <2>4, <2>5
<1>3. CASE v = Full(n)
  BY ONLY <1>1, <1>3
<1>4. CASE v # Full(n)
  <2>1. PICK name \in Names(n) : \E x \in Others2(Named(n, name)) :
                                    Changed(v, Full(n), name, x)
    BY <1>4 DEF Samp2, Changed
  <2>2. PICK i \in DOMAIN n : name = n[i].name
    BY <2>1 DEF Names
  <2>3. Named(n, name) = n[i]
    BY <1>1, <2>2, NamedIs
  <2>4. PICK x \in Others2(n[i]) : Changed(v, Full(n), n[i].name, x)
    BY ONLY <2>1, <2>2, <2>3
  <2> QED
    BY ONLY <1>2, <2>4, i \in DOMAIN n
<1> QED
  BY ONLY <1>3, <1>4

\* The samples of level 3 fit.
LEMMA SampTyped3 ==
    ASSUME NEW n, Shape3(n), NEW v \in Samp3(n)
    PROVE  Typed3(n, v)
<1>1. /\ IsMessage(n) /\ \A i \in DOMAIN n : Fits(n[i])
      /\ IsFun(Full(n), Names(n)) /\ Typed3(n, Full(n))
  BY FullFits DEF Shape3
<1>2. ASSUME NEW i \in DOMAIN n, NEW x \in Others3(n[i]),
             NEW s, Changed(s, Full(n), n[i].name, x)
      PROVE  Typed3(n, s)
  <2>1. CASE x = Base(n[i])
    <3>1. (n[i].label = "many" => IsSeq(x)) /\ Value3(n[i], x)
      BY ONLY <1>1, <2>1, i \in DOMAIN n, BaseFits
    <3> QED
      BY ONLY <1>1, <3>1, i \in DOMAIN n, <1>2, OtherTyped3
  <2>2. CASE n[i].type = "enum" /\ x # Base(n[i])
    <3>1. n[i].label # "many"
      BY <1>1, <2>2 DEF Fits
    <3>2. Value3(n[i], x)
      BY ONLY <2>2 DEF Value3
    <3> QED
      BY ONLY <1>1, <3>1, <3>2, i \in DOMAIN n, <1>2, OtherTyped3
  <2>3. CASE n[i].type = "message" /\ n[i].label = "many" /\ x # Base(n[i])
    <3>1. PICK y \in Samp2(n[i].of) : x = <<y>>
      BY <2>3 DEF Others3
    <3>2. Shape2(n[i].of)
      BY <2>3 DEF Shape3
    <3>3. Typed2(n[i].of, y)
      BY <3>1, <3>2, SampTyped2
    <3>4. IsSeq(x) /\ DOMAIN x = {1} /\ x[1] = y
      BY ONLY <3>1, OnlyIs
    <3>5. Value3(n[i], x)
      BY ONLY <2>3, <3>3, <3>4 DEF Value3
    <3> QED
      BY ONLY <1>1, <3>4, <3>5, i \in DOMAIN n, <1>2, OtherTyped3
  <2>4. CASE n[i].type = "message" /\ n[i].label # "many" /\ x # Base(n[i])
    <3>1. x \in Samp2(n[i].of)
      BY <2>4 DEF Others3
    <3>2. Shape2(n[i].of)
      BY <2>4 DEF Shape3
    <3>3. Typed2(n[i].of, x)
      BY <3>1, <3>2, SampTyped2
    <3>4. Value3(n[i], x)
      BY ONLY <2>4, <3>3 DEF Value3
    <3> QED
      BY ONLY <1>1, <2>4, <3>4, i \in DOMAIN n, <1>2, OtherTyped3
  <2>5. n[i].type \in {"enum", "message"} \/ x = Base(n[i])
    BY DEF Others3
  <2> QED
    BY ONLY <2>1, <2>2, <2>3, <2>4, <2>5
<1>3. CASE v = Full(n)
  BY ONLY <1>1, <1>3
<1>4. CASE v # Full(n)
  <2>1. PICK name \in Names(n) : \E x \in Others3(Named(n, name)) :
                                    Changed(v, Full(n), name, x)
    BY <1>4 DEF Samp3, Changed
  <2>2. PICK i \in DOMAIN n : name = n[i].name
    BY <2>1 DEF Names
  <2>3. Named(n, name) = n[i]
    BY <1>1, <2>2, NamedIs
  <2>4. PICK x \in Others3(n[i]) : Changed(v, Full(n), n[i].name, x)
    BY ONLY <2>1, <2>2, <2>3
  <2> QED
    BY ONLY <1>2, <2>4, i \in DOMAIN n
<1> QED
  BY ONLY <1>3, <1>4

\* The samples of level 4 fit.
LEMMA SampTyped4 ==
    ASSUME NEW n, Shape4(n), NEW v \in Samp4(n)
    PROVE  Typed4(n, v)
<1>1. /\ IsMessage(n) /\ \A i \in DOMAIN n : Fits(n[i])
      /\ IsFun(Full(n), Names(n)) /\ Typed4(n, Full(n))
  BY FullFits DEF Shape4
<1>2. ASSUME NEW i \in DOMAIN n, NEW x \in Others4(n[i]),
             NEW s, Changed(s, Full(n), n[i].name, x)
      PROVE  Typed4(n, s)
  <2>1. CASE x = Base(n[i])
    <3>1. (n[i].label = "many" => IsSeq(x)) /\ Value4(n[i], x)
      BY ONLY <1>1, <2>1, i \in DOMAIN n, BaseFits
    <3> QED
      BY ONLY <1>1, <3>1, i \in DOMAIN n, <1>2, OtherTyped4
  <2>2. CASE n[i].type = "enum" /\ x # Base(n[i])
    <3>1. n[i].label # "many"
      BY <1>1, <2>2 DEF Fits
    <3>2. Value4(n[i], x)
      BY ONLY <2>2 DEF Value4
    <3> QED
      BY ONLY <1>1, <3>1, <3>2, i \in DOMAIN n, <1>2, OtherTyped4
  <2>3. CASE n[i].type = "message" /\ n[i].label = "many" /\ x # Base(n[i])
    <3>1. PICK y \in Samp3(n[i].of) : x = <<y>>
      BY <2>3 DEF Others4
    <3>2. Shape3(n[i].of)
      BY <2>3 DEF Shape4
    <3>3. Typed3(n[i].of, y)
      BY <3>1, <3>2, SampTyped3
    <3>4. IsSeq(x) /\ DOMAIN x = {1} /\ x[1] = y
      BY ONLY <3>1, OnlyIs
    <3>5. Value4(n[i], x)
      BY ONLY <2>3, <3>3, <3>4 DEF Value4
    <3> QED
      BY ONLY <1>1, <3>4, <3>5, i \in DOMAIN n, <1>2, OtherTyped4
  <2>4. CASE n[i].type = "message" /\ n[i].label # "many" /\ x # Base(n[i])
    <3>1. x \in Samp3(n[i].of)
      BY <2>4 DEF Others4
    <3>2. Shape3(n[i].of)
      BY <2>4 DEF Shape4
    <3>3. Typed3(n[i].of, x)
      BY <3>1, <3>2, SampTyped3
    <3>4. Value4(n[i], x)
      BY ONLY <2>4, <3>3 DEF Value4
    <3> QED
      BY ONLY <1>1, <2>4, <3>4, i \in DOMAIN n, <1>2, OtherTyped4
  <2>5. n[i].type \in {"enum", "message"} \/ x = Base(n[i])
    BY DEF Others4
  <2> QED
    BY ONLY <2>1, <2>2, <2>3, <2>4, <2>5
<1>3. CASE v = Full(n)
  BY ONLY <1>1, <1>3
<1>4. CASE v # Full(n)
  <2>1. PICK name \in Names(n) : \E x \in Others4(Named(n, name)) :
                                    Changed(v, Full(n), name, x)
    BY <1>4 DEF Samp4, Changed
  <2>2. PICK i \in DOMAIN n : name = n[i].name
    BY <2>1 DEF Names
  <2>3. Named(n, name) = n[i]
    BY <1>1, <2>2, NamedIs
  <2>4. PICK x \in Others4(n[i]) : Changed(v, Full(n), n[i].name, x)
    BY ONLY <2>1, <2>2, <2>3
  <2> QED
    BY ONLY <1>2, <2>4, i \in DOMAIN n
<1> QED
  BY ONLY <1>3, <1>4

\* A message of the .proto files and any version of it understand each other,
\* in both directions, whatever the values (the encoders and the decoders of
\* providers/*/gen, and what protobuf promises of versions).
THEOREM VersionsAgree ==
    ASSUME NEW dialect \in Dialects, NEW m, Good4(m)
    PROVE  /\ \A v : Typed4(m, v) =>
                Decode(Speak(dialect, m), Encode(m, v)) = Meaning(Speak(dialect, m), m, v)
           /\ \A v : Typed4(Speak(dialect, m), v) =>
                Decode(m, Encode(Speak(dialect, m), v)) = Meaning(m, Speak(dialect, m), v)
<1>1. PICK theirs : theirs = Speak(dialect, m)
  OBVIOUS
<1>2. Comp4(theirs, m) /\ Comp4(m, theirs)
  BY <1>1, SpeakIs, Versions4
<1> QED
  BY ONLY <1>1, <1>2, RoundTrip

\* The samples of a message and of its versions fit them.
LEMMA SamplesFit ==
    ASSUME NEW dialect \in Dialects, NEW m, Good4(m)
    PROVE  /\ \A v \in Samples(m) : Typed4(m, v)
           /\ \A v \in Samples(Speak(dialect, m)) : Typed4(Speak(dialect, m), v)
           /\ Shape4(Speak(dialect, m))
<1>1. Shape4(m)
  BY GoodShapes
<1>2. Shape4(Speak(dialect, m))
  BY SpeakIs, VersionShape4
<1>3. \A n : Shape4(n) => \A v \in Samples(n) : Typed4(n, v)
  BY SamplesAre, SampTyped4
<1> QED
  BY ONLY <1>1, <1>2, <1>3

\* A message with nothing nested in it may have something nested in it.
LEMMA GoodNest ==
    ASSUME NEW n
    PROVE  (Good1(n) => Good2(n)) /\ (Good2(n) => Good3(n)) /\ (Good3(n) => Good4(n))
<1>1. \A m : Good1(m) => Good2(m)
  BY DEF Good1, Good2, IsNested
<1>2. \A m : Good2(m) => Good3(m)
  BY <1>1 DEF Good2, Good3
<1>3. \A m : Good3(m) => Good4(m)
  BY <1>2 DEF Good3, Good4
<1> QED
  BY <1>1, <1>2, <1>3
=============================================================================
