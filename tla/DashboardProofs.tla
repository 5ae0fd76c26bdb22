-------------------------- MODULE DashboardProofs --------------------------
(***************************************************************************)
(* Proofs about the views of the admin page and its session, for any orchs *)
(* and any number of requests under way.                                   *)
(*                                                                         *)
(* The argument: what is under way belongs to the element that is mounted, *)
(* to an unmounted one, or is the one sign-in that is being checked; a     *)
(* request of the mounted element carries a token only if there is still   *)
(* one.  So the console's data comes only to an app that has a credential. *)
(* What the panel or the page will show in the end is already decided by   *)
(* the order of the requests under way (Due), as long as they are answered *)
(* in it: the last that is sure to write asks for the orch that is wanted. *)
(***************************************************************************)
EXTENDS Dashboard, SequenceTheorems, TLAPS

\* What the element of page p asks the console.
KindsOf(p) ==
    CASE p = "routing"      -> {"list", "listAll", "orch", "orchAfter",
                                "refreshOne", "refreshAll"}
      [] p = "sender"       -> {"wallet", "escrow"}
      [] p = "capabilities" -> {"search"}
      [] OTHER              -> {"load", "loadAfter", "refreshOrch"}

\* Whose the requests are.
Owned(q) ==
    \/ q.what = "gone"
    \/ q.what = "health" /\ checking
    \/ authed /\ q.what \in KindsOf(path)
AllOwned == \A i \in 1 .. Len(pending) : Owned(pending[i])

\* One sign-in at a time, under the login form, with room for what follows.
OneSignIn ==
    /\ \A i, j \in 1 .. Len(pending) :
         Kind(i) = "health" /\ Kind(j) = "health" => i = j
    /\ checking => ~authed /\ Len(pending) + 1 <= MaxPending
    /\ stored => MaxPending >= 2

\* A request of the mounted element carries a token only if there is one.
Entitled(q) == q.what \notin {"gone", "health"} /\ q.token => stored
AllEntitled == \A i \in 1 .. Len(pending) : Entitled(pending[i])

\* DataNeedsToken, and what the sender's first answer left.
DataSound == DataNeedsToken /\ (view.first => authed /\ stored)

\* The requests that a loading view and a refreshing one wait for.
Loading  == {"list", "listAll", "load", "loadAfter", "wallet", "escrow", "search"}
Spinning == {"refreshAll", "listAll", "refreshOrch", "loadAfter"}

\* Answered in order, the requests under way leave the view at base about o:
\* the last that is sure to write is about o, or none is left to write and
\* the base is there; and what may yet write after it is about o too.
Sure == {"orch", "load", "loadAfter"}
Due(o, base) ==
    \E m \in 0 .. Len(pending) :
        /\ \A j \in m + 1 .. Len(pending) : Kind(j) \in Detailing => pending[j].orch = o
        /\ \/ m = 0 /\ base
           \/ m # 0 /\ Kind(m) \in Sure /\ pending[m].orch = o
PanelDue ==
    OnRouting /\ ~view.overtaken /\ view.subject # NoOrch =>
        Due(view.subject, view.detail.orch = view.subject)
PageDue ==
    OnOrch /\ ~view.overtaken => Due(path, view.error \/ view.detail.orch = path)
SInv == PanelDue /\ PageDue

BInv == /\ TypeOK
        /\ AllOwned
        /\ OneSignIn
        /\ AllEntitled
        /\ DataSound
        /\ SpinnersEnd
        /\ LoggedOutIsClean

----------------------------------------------------------------------------
(* The requests under way.                                                 *)

\* The address of an orch is no page, and no orch is NoOrch.
LEMMA PathFacts ==
    ASSUME NEW p \in Orchs \union Pages
    PROVE  /\ p \notin Pages => p \in Orchs /\ p # NoOrch
           /\ p \in Orchs => p \notin Pages /\ p # "routing" /\ p # "sender"
                             /\ p # "capabilities"
           /\ NoOrch \notin Orchs /\ MaxPending \in Nat
  BY PagesAssumption, SessionAssumption DEF Pages

\* A request as it is sent.
LEMMA AskFacts ==
    ASSUME TypeOK, NEW what \in Kinds, NEW orch \in Orchs \union {NoOrch}
    PROVE  /\ Ask(what, orch) \in Request
           /\ Ask(what, orch).what = what /\ Ask(what, orch).orch = orch
           /\ Ask(what, orch).token = stored
  BY DEF Ask, Request, TypeOK

\* A request as an element that is gone sends it.
LEMMA AskMoreFacts ==
    ASSUME TypeOK, NEW n \in 0 .. 2
    PROVE  /\ AskMore(n) \in Request
           /\ AskMore(n).what = "gone" /\ AskMore(n).token = stored
  BY DEF AskMore, Request, TypeOK, Kinds

\* One request is answered: the others move up, and qs follow.
LEMMA RestFacts ==
    ASSUME pending \in Seq(Request), NEW i \in 1 .. Len(pending)
    PROVE  /\ Rest(i) \in Seq(Request) /\ Len(Rest(i)) = Len(pending) - 1
           /\ \A j \in 1 .. Len(pending) - 1 :
                Rest(i)[j] = pending[IF j < i THEN j ELSE j + 1]
<1> DEFINE s == SubSeq(pending, 1, i - 1)
           t == SubSeq(pending, i + 1, Len(pending))
<1>1. Len(pending) \in Nat /\ i \in Nat /\ 1 <= i /\ i <= Len(pending)
  OBVIOUS
<1>3. /\ s \in Seq(Request) /\ Len(s) = i - 1
      /\ \A j \in 1 .. i - 1 : s[j] = pending[j]
  OBVIOUS
<1>4. /\ t \in Seq(Request) /\ Len(t) = Len(pending) - i
      /\ \A j \in 1 .. Len(pending) - i : t[j] = pending[i + j]
  OBVIOUS
<1>5. Rest(i) = s \o t
  BY DEF Rest, RemoveAt
<1> HIDE DEF s, t
<1>6. /\ s \o t \in Seq(Request) /\ Len(s \o t) = Len(s) + Len(t)
      /\ \A j \in 1 .. Len(s) + Len(t) :
           (s \o t)[j] = IF j <= Len(s) THEN s[j] ELSE t[j - Len(s)]
  BY <1>3, <1>4, ConcatProperties
<1>7. ASSUME NEW j \in 1 .. Len(pending) - 1
      PROVE  (s \o t)[j] = pending[IF j < i THEN j ELSE j + 1]
  <2>1. CASE j < i
    <3>1. j \in 1 .. i - 1 /\ j <= Len(s) /\ j \in 1 .. Len(s) + Len(t)
      BY <1>1, <1>3, <1>4, <2>1
    <3> QED
      BY <1>3, <1>6, <2>1, <3>1
  <2>2. CASE ~(j < i)
    <3>1. /\ j - Len(s) \in 1 .. Len(pending) - i /\ ~(j <= Len(s))
          /\ j \in 1 .. Len(s) + Len(t) /\ i + (j - Len(s)) = j + 1
      BY <1>1, <1>3, <1>4, <2>2
    <3> QED
      BY <1>4, <1>6, <2>2, <3>1
  <2> QED
    BY <2>1, <2>2
<1> QED
  BY <1>1, <1>3, <1>4, <1>5, <1>6, <1>7

\* The first n requests of pending' are those of pending without the i-th,
\* which is past the end when none is answered; qs are the others.
Moves(i, n, qs) ==
    /\ \/ i \in 1 .. Len(pending) /\ n = Len(pending) - 1
       \/ i = Len(pending) + 1 /\ n = Len(pending)
    /\ pending' \in Seq(Request) /\ Len(pending') = n + Len(qs)
    /\ \A j \in 1 .. n : pending'[j] = pending[IF j < i THEN j ELSE j + 1]
    /\ \A j \in 1 .. Len(qs) : pending'[n + j] = qs[j]

\* Two sequences in a row, index by index.
LEMMA ConcatFacts ==
    ASSUME NEW R, NEW s \in Seq(R), NEW t \in Seq(R)
    PROVE  /\ s \o t \in Seq(R) /\ Len(s \o t) = Len(s) + Len(t)
           /\ \A j \in 1 .. Len(s) : (s \o t)[j] = s[j]
           /\ \A j \in 1 .. Len(t) : (s \o t)[Len(s) + j] = t[j]
<1>1. /\ s \o t \in Seq(R) /\ Len(s \o t) = Len(s) + Len(t)
      /\ \A j \in 1 .. Len(s) + Len(t) :
           (s \o t)[j] = IF j <= Len(s) THEN s[j] ELSE t[j - Len(s)]
  BY ConcatProperties
<1>2. Len(s) \in Nat /\ Len(t) \in Nat
  OBVIOUS
<1>3. \A j \in 1 .. Len(s) : (s \o t)[j] = s[j]
  BY <1>1, <1>2
<1>4. ASSUME NEW j \in 1 .. Len(t) PROVE (s \o t)[Len(s) + j] = t[j]
  <2>1. /\ Len(s) + j \in 1 .. Len(s) + Len(t) /\ ~(Len(s) + j <= Len(s))
        /\ (Len(s) + j) - Len(s) = j
    BY <1>2
  <2> QED
    BY <1>1, <2>1
<1> QED
  BY <1>1, <1>3, <1>4

\* An answered request is a move of the others.
LEMMA RestMoves ==
    ASSUME pending \in Seq(Request), NEW i \in 1 .. Len(pending),
           NEW qs \in Seq(Request), pending' = Rest(i) \o qs
    PROVE  Moves(i, Len(pending) - 1, qs)
<1>1. /\ Rest(i) \in Seq(Request) /\ Len(Rest(i)) = Len(pending) - 1
      /\ \A j \in 1 .. Len(pending) - 1 :
           Rest(i)[j] = pending[IF j < i THEN j ELSE j + 1]
  BY RestFacts
<1>2. PICK s : s = Rest(i)
  OBVIOUS
<1>3. /\ s \in Seq(Request) /\ Len(s) = Len(pending) - 1 /\ Len(s) \in Nat
      /\ \A j \in 1 .. Len(s) : s[j] = pending[IF j < i THEN j ELSE j + 1]
      /\ pending' = s \o qs
  BY <1>1, <1>2
<1>4. s \in Seq(Request)
  BY <1>3
<1>5. /\ s \o qs \in Seq(Request) /\ Len(s \o qs) = Len(s) + Len(qs)
      /\ \A j \in 1 .. Len(s) : (s \o qs)[j] = s[j]
      /\ \A j \in 1 .. Len(qs) : (s \o qs)[Len(s) + j] = qs[j]
  BY <1>4, ConcatFacts
<1> QED
  BY <1>3, <1>5 DEF Moves

\* Requests that are sent leave the others where they are.
LEMMA SendMoves ==
    ASSUME pending \in Seq(Request), NEW qs \in Seq(Request), pending' = pending \o qs
    PROVE  Moves(Len(pending) + 1, Len(pending), qs)
<1>1. /\ Len(pending) \in Nat
      /\ pending \o qs \in Seq(Request) /\ Len(pending \o qs) = Len(pending) + Len(qs)
      /\ \A j \in 1 .. Len(pending) : (pending \o qs)[j] = pending[j]
      /\ \A j \in 1 .. Len(qs) : (pending \o qs)[Len(pending) + j] = qs[j]
  BY ConcatFacts
<1>2. \A j \in 1 .. Len(pending) : j < Len(pending) + 1
  BY <1>1
<1> QED
  BY <1>1, <1>2 DEF Moves

\* Which requests there are afterwards.
LEMMA MovesFacts ==
    ASSUME pending \in Seq(Request), NEW qs \in Seq(Request), NEW i, NEW n, Moves(i, n, qs)
    PROVE  /\ \A j \in 1 .. Len(pending') :
                \/ \E m \in 1 .. Len(pending) : m # i /\ pending'[j] = pending[m]
                \/ \E m \in 1 .. Len(qs) : pending'[j] = qs[m]
           /\ \A m \in 1 .. Len(pending) : m # i =>
                \E j \in 1 .. Len(pending') : pending'[j] = pending[m]
           /\ \A m \in 1 .. Len(qs) :
                \E j \in 1 .. Len(pending') : pending'[j] = qs[m]
<1>1. /\ Len(pending) \in Nat /\ Len(qs) \in Nat /\ i \in Nat /\ n \in Nat
      /\ Len(pending') = n + Len(qs)
      /\ \/ i \in 1 .. Len(pending) /\ n = Len(pending) - 1
         \/ i = Len(pending) + 1 /\ n = Len(pending)
      /\ \A j \in 1 .. n : pending'[j] = pending[IF j < i THEN j ELSE j + 1]
      /\ \A j \in 1 .. Len(qs) : pending'[n + j] = qs[j]
  <2>1. Len(pending) \in Nat /\ Len(qs) \in Nat
    OBVIOUS
  <2> QED
    BY <2>1 DEF Moves
<1>2. ASSUME NEW j \in 1 .. Len(pending')
      PROVE  \/ \E m \in 1 .. Len(pending) : m # i /\ pending'[j] = pending[m]
             \/ \E m \in 1 .. Len(qs) : pending'[j] = qs[m]
  <2>1. CASE j \in 1 .. n
    <3> DEFINE m == IF j < i THEN j ELSE j + 1
    <3>1. m \in 1 .. Len(pending) /\ m # i
      BY <1>1, <2>1
    <3> QED
      BY <1>1, <2>1, <3>1
  <2>2. CASE j \notin 1 .. n
    <3>1. j - n \in 1 .. Len(qs) /\ n + (j - n) = j
      BY <1>1, <2>2
    <3> QED
      BY <1>1, <3>1
  <2> QED
    BY <2>1, <2>2
<1>3. ASSUME NEW m \in 1 .. Len(pending), m # i
      PROVE  \E j \in 1 .. Len(pending') : pending'[j] = pending[m]
  <2>1. PICK k : k = IF m < i THEN m ELSE m - 1
    OBVIOUS
  <2>2. k \in 1 .. n /\ k \in 1 .. Len(pending') /\ (IF k < i THEN k ELSE k + 1) = m
    BY <1>1, <1>3, <2>1
  <2>3. pending'[k] = pending[m]
    BY <1>1, <2>2
  <2> QED
    BY <2>2, <2>3
<1>4. ASSUME NEW m \in 1 .. Len(qs)
      PROVE  \E j \in 1 .. Len(pending') : pending'[j] = qs[m]
  <2>1. n + m \in 1 .. Len(pending')
    BY <1>1
  <2> QED
    BY <1>1, <2>1
<1> QED
  BY <1>2, <1>3, <1>4

\* The same of their kinds.
LEMMA KindsKept ==
    ASSUME pending \in Seq(Request), NEW qs \in Seq(Request), NEW i, NEW n, Moves(i, n, qs)
    PROVE  /\ \A k \in PendingKinds : (i \in 1 .. Len(pending) => k # Kind(i)) =>
                k \in PendingKinds'
           /\ \A m \in 1 .. Len(qs) : qs[m].what \in PendingKinds'
<1>1. PendingKinds' = {pending'[j].what : j \in 1 .. Len(pending')}
  BY DEF PendingKinds, Kind
<1>2. /\ \A m \in 1 .. Len(pending) : m # i =>
           \E j \in 1 .. Len(pending') : pending'[j] = pending[m]
      /\ \A m \in 1 .. Len(qs) :
           \E j \in 1 .. Len(pending') : pending'[j] = qs[m]
  BY MovesFacts
<1>3. ASSUME NEW k \in PendingKinds, i \in 1 .. Len(pending) => k # Kind(i)
      PROVE  k \in PendingKinds'
  <2>1. PICK m \in 1 .. Len(pending) : k = pending[m].what
    BY DEF PendingKinds, Kind
  <2>2. m # i
    BY <1>3, <2>1 DEF Kind
  <2>3. PICK j \in 1 .. Len(pending') : pending'[j] = pending[m]
    BY <1>2, <2>2
  <2> QED
    BY <1>1, <2>1, <2>3
<1>4. ASSUME NEW m \in 1 .. Len(qs)
      PROVE  qs[m].what \in PendingKinds'
  <2>1. PICK j \in 1 .. Len(pending') : pending'[j] = qs[m]
    BY <1>2
  <2> QED
    BY <1>1, <2>1
<1> QED
  BY <1>3, <1>4

----------------------------------------------------------------------------
(* What every step keeps of the requests under way.                        *)

\* A step of an element that stays mounted, or of one that is gone.
LEMMA StayKeeps ==
    ASSUME BInv, NEW qs \in Seq(Request), NEW i, NEW n, Moves(i, n, qs),
           stored' = stored, authed' = authed, checking' = checking,
           authed => KindsOf(path') = KindsOf(path),
           i \in 1 .. Len(pending) => Kind(i) # "health",
           \A m \in 1 .. Len(qs) :
             /\ qs[m].token => stored
             /\ qs[m].what # "health"
             /\ qs[m].what = "gone" \/ (authed /\ qs[m].what \in KindsOf(path')),
           checking => Len(pending') <= Len(pending)
    PROVE  /\ AllOwned' /\ OneSignIn' /\ AllEntitled' /\ LoggedOutIsClean'
           /\ checking' => "health" \in PendingKinds'
<1>1. pending \in Seq(Request) /\ Len(pending) \in Nat /\ MaxPending \in Nat
  BY SessionAssumption DEF BInv, TypeOK
<1>2. \A j \in 1 .. Len(pending') :
           \/ \E m \in 1 .. Len(pending) : m # i /\ pending'[j] = pending[m]
           \/ \E m \in 1 .. Len(qs) : pending'[j] = qs[m]
  BY <1>1, MovesFacts
<1>3. AllOwned'
  <2> SUFFICES ASSUME NEW j \in 1 .. Len(pending')
               PROVE  \/ pending'[j].what = "gone"
                      \/ pending'[j].what = "health" /\ checking
                      \/ authed /\ pending'[j].what \in KindsOf(path')
    BY DEF AllOwned, Owned
  <2>1. CASE \E m \in 1 .. Len(pending) : m # i /\ pending'[j] = pending[m]
    <3>1. PICK m \in 1 .. Len(pending) : pending'[j] = pending[m]
      BY <2>1
    <3>2. Owned(pending[m])
      BY DEF BInv, AllOwned
    <3> QED
      BY <3>1, <3>2 DEF Owned
  <2>2. CASE \E m \in 1 .. Len(qs) : pending'[j] = qs[m]
    BY <2>2
  <2> QED
    BY <1>2, <2>1, <2>2
<1>4. AllEntitled'
  <2> SUFFICES ASSUME NEW j \in 1 .. Len(pending'),
                      pending'[j].what \notin {"gone", "health"}, pending'[j].token
               PROVE  stored
    BY DEF AllEntitled, Entitled
  <2>1. CASE \E m \in 1 .. Len(pending) : m # i /\ pending'[j] = pending[m]
    <3>1. PICK m \in 1 .. Len(pending) : pending'[j] = pending[m]
      BY <2>1
    <3>2. Entitled(pending[m])
      BY DEF BInv, AllEntitled
    <3> QED
      BY <3>1, <3>2 DEF Entitled
  <2>2. CASE \E m \in 1 .. Len(qs) : pending'[j] = qs[m]
    BY <2>2
  <2> QED
    BY <1>2, <2>1, <2>2
<1>5. OneSignIn'
  <2>1. ASSUME NEW j \in 1 .. Len(pending'), NEW k \in 1 .. Len(pending'),
               pending'[j].what = "health", pending'[k].what = "health"
        PROVE  j = k
    <3>1. /\ i \in Nat /\ n \in Nat /\ Len(qs) \in Nat /\ Len(pending') = n + Len(qs)
          /\ \/ i \in 1 .. Len(pending) /\ n = Len(pending) - 1
             \/ i = Len(pending) + 1 /\ n = Len(pending)
          /\ \A l \in 1 .. n : pending'[l] = pending[IF l < i THEN l ELSE l + 1]
          /\ \A l \in 1 .. Len(qs) : pending'[n + l] = qs[l]
      BY <1>1 DEF Moves
    <3>2. ASSUME NEW l \in 1 .. Len(pending'), l \notin 1 .. n
          PROVE  pending'[l].what # "health"
      <4>1. /\ n \in Nat /\ Len(qs) \in Nat /\ Len(pending') = n + Len(qs)
            /\ l \in 1 .. Len(pending') /\ l \notin 1 .. n
        BY <3>1, <3>2
      <4>2. l - n \in 1 .. Len(qs) /\ n + (l - n) = l
        BY ONLY <4>1
      <4>3. pending'[l] = qs[l - n]
        BY <3>1, <4>2
      <4> QED
        BY <4>2, <4>3
    <3>3. j \in 1 .. n /\ k \in 1 .. n
      BY <2>1, <3>2
    <3>4. PICK a, b : a = (IF j < i THEN j ELSE j + 1) /\ b = (IF k < i THEN k ELSE k + 1)
      OBVIOUS
    <3>5. a \in 1 .. Len(pending) /\ b \in 1 .. Len(pending)
      BY <1>1, <3>1, <3>3, <3>4
    <3>6. pending'[j] = pending[a] /\ pending'[k] = pending[b]
      BY <3>1, <3>3, <3>4
    <3>7. a = b
      BY <2>1, <3>5, <3>6 DEF BInv, OneSignIn, Kind
    <3> QED
      BY <3>1, <3>3, <3>4, <3>7
  <2>2. Len(pending') \in Nat
    BY <1>1 DEF Moves
  <2>3. /\ checking' => ~authed' /\ Len(pending') + 1 <= MaxPending
        /\ stored' => MaxPending >= 2
    BY <1>1, <2>2 DEF BInv, OneSignIn
  <2> QED
    BY <2>1, <2>3 DEF OneSignIn, Kind
<1>6. LoggedOutIsClean'
  BY DEF BInv, LoggedOutIsClean
<1>7. checking' => "health" \in PendingKinds'
  <2>1. checking => "health" \in PendingKinds
    BY DEF BInv, SpinnersEnd
  <2> QED
    BY <1>1, <2>1, KindsKept
<1> QED
  BY <1>3, <1>4, <1>5, <1>6, <1>7

\* What becomes of the requests of an element that is unmounted.
LEMMA LeftFacts ==
    ASSUME NEW s \in Seq(Request)
    PROVE  /\ LeftOf(s) \in Seq(Request) /\ Len(LeftOf(s)) = Len(s)
           /\ \A j \in 1 .. Len(s) :
                LeftOf(s)[j].what = IF s[j].what = "health" THEN "health" ELSE "gone"
<1>1. LeftOf(s) = [j \in 1 .. Len(s) |-> Left(s[j])]
  BY DEF LeftOf
<1>2. ASSUME NEW j \in 1 .. Len(s)
      PROVE  /\ Left(s[j]) \in Request
             /\ Left(s[j]).what = IF s[j].what = "health" THEN "health" ELSE "gone"
  <2>1. s[j] \in Request
    BY ElementOfSeq
  <2>2. s[j].more \in 0 .. 2
    BY <2>1 DEF Request
  <2>3. Remaining(s[j]) \in 0 .. 2
    BY <2>2 DEF Remaining
  <2>4. CASE s[j].what = "health"
    BY <2>1, <2>4 DEF Left
  <2>5. CASE s[j].what # "health"
    <3>1. Left(s[j]) = [s[j] EXCEPT !.what = "gone", !.orch = NoOrch,
                                    !.more = Remaining(s[j])]
      BY <2>5 DEF Left
    <3> QED
      BY <2>1, <2>3, <2>5, <3>1 DEF Request, Kinds
  <2> QED
    BY <2>4, <2>5
<1>3. Len(s) \in Nat
  OBVIOUS
<1>4. LeftOf(s) \in Seq(Request) /\ Len(LeftOf(s)) = Len(s)
  BY <1>1, <1>2, <1>3
<1> QED
  BY <1>1, <1>2, <1>4

\* What a new element asks for.
LEMMA FirstFacts ==
    ASSUME TypeOK, NEW p \in Orchs \union Pages
    PROVE  /\ First(p) \in Seq(Request) /\ Len(First(p)) \in 0 .. 2
           /\ \A j \in 1 .. Len(First(p)) :
                /\ First(p)[j].what \in KindsOf(p) /\ First(p)[j].token = stored
                /\ p \in Orchs => First(p)[j].orch = p
           /\ p # "capabilities" =>
                /\ 1 \in 1 .. Len(First(p))
                /\ First(p)[1].what \in {"list", "load", "wallet"}
<1> DEFINE Asks(qs) ==
      /\ qs \in Seq(Request) /\ Len(qs) \in 0 .. 2
      /\ \A j \in 1 .. Len(qs) :
           /\ qs[j].what \in KindsOf(p) /\ qs[j].token = stored
           /\ p \in Orchs => qs[j].orch = p
      /\ p # "capabilities" =>
           1 \in 1 .. Len(qs) /\ qs[1].what \in {"list", "load", "wallet"}
<1>1. ASSUME NEW q \in Request, NEW r \in Request,
             q.what \in KindsOf(p), q.token = stored, p \in Orchs => q.orch = p,
             r.what \in KindsOf(p), r.token = stored, p \in Orchs => r.orch = p,
             q.what \in {"list", "load", "wallet"}
      PROVE  Asks(<<q>>) /\ Asks(<<q, r>>)
  <2>1. <<q>> \in Seq(Request) /\ Len(<<q>>) = 1 /\ <<q>>[1] = q
    OBVIOUS
  <2>2. /\ <<q, r>> \in Seq(Request) /\ Len(<<q, r>>) = 2
        /\ <<q, r>>[1] = q /\ <<q, r>>[2] = r
    OBVIOUS
  <2>3. 1 .. 1 = {1} /\ 1 .. 2 = {1, 2}
    OBVIOUS
  <2> QED
    BY <1>1, <2>1, <2>2, <2>3
<1>2. CASE p = "routing"
  <2>1. PICK q : q = Ask("list", NoOrch)
    OBVIOUS
  <2>2. /\ q \in Request /\ q.what = "list" /\ q.token = stored
        /\ p \notin Orchs /\ "list" \in KindsOf(p)
    BY <1>2, <2>1, AskFacts, PathFacts DEF Kinds, KindsOf
  <2>3. Asks(<<q>>)
    BY <1>1, <2>2
  <2>4. First(p) = <<q>>
    BY <1>2, <2>1 DEF First
  <2> QED
    BY <2>3, <2>4
<1>3. CASE p = "sender"
  <2>1. PICK q, r : q = Ask("wallet", NoOrch) /\ r = Ask("escrow", NoOrch)
    OBVIOUS
  <2>2. /\ q \in Request /\ q.what = "wallet" /\ q.token = stored
        /\ r \in Request /\ r.what = "escrow" /\ r.token = stored
        /\ p \notin Orchs /\ {"wallet", "escrow"} \subseteq KindsOf(p)
    BY <1>3, <2>1, AskFacts, PathFacts DEF Kinds, KindsOf
  <2>3. Asks(<<q, r>>)
    BY <1>1, <2>2
  <2>4. First(p) = <<q, r>>
    BY <1>3, <2>1 DEF First, Both
  <2> QED
    BY <2>3, <2>4
<1>4. CASE p = "capabilities"
  <2>1. First(p) = <<>>
    BY <1>4 DEF First
  <2>2. <<>> \in Seq(Request) /\ Len(<<>>) = 0 /\ 1 .. 0 = {}
    OBVIOUS
  <2>3. Asks(<<>>)
    BY <1>4, <2>2
  <2> QED
    BY <2>1, <2>3
<1>5. CASE p \notin Pages
  <2>1. p \in Orchs /\ p # "routing" /\ p # "sender" /\ p # "capabilities"
    BY <1>5, PathFacts
  <2>2. PICK q : q = Ask("load", p)
    OBVIOUS
  <2>3. /\ q \in Request /\ q.what = "load" /\ q.token = stored /\ q.orch = p
        /\ "load" \in KindsOf(p)
    BY <2>1, <2>2, AskFacts DEF Kinds, KindsOf
  <2>4. Asks(<<q, q>>)
    BY <1>1, <2>3
  <2>5. First(p) = <<q, q>>
    BY <2>1, <2>2 DEF First
  <2> QED
    BY <2>4, <2>5
<1> QED
  BY <1>2, <1>3, <1>4, <1>5 DEF Pages

\* What a new element shows.
LEMMA MountedFacts ==
    ASSUME NEW p \in Orchs \union Pages
    PROVE  /\ Mounted(p) \in View
           /\ Mounted(p).subject = IF p \in Orchs THEN p ELSE NoOrch
           /\ ~Mounted(p).rows /\ ~Mounted(p).detail.ok /\ ~Mounted(p).first
           /\ Mounted(p).loading <=> p # "capabilities"
           /\ ~Mounted(p).refreshing
<1>1. (p \in Pages) <=> (p \notin Orchs)
  BY PathFacts
<1> QED
  BY <1>1 DEF Mounted, Unmounted, NoDetail, View

\* Behind the login form nothing is shown and nothing spins.
LEMMA UnmountedFacts ==
    /\ Unmounted \in View
    /\ ~Unmounted.rows /\ ~Unmounted.detail.ok /\ ~Unmounted.first
    /\ ~Unmounted.loading /\ ~Unmounted.refreshing
  BY DEF Unmounted, NoDetail, View

\* A step that leaves only what is gone and what a new element asks for.
LEMMA FreshKeeps ==
    ASSUME pending' \in Seq(Request),
           \A j \in 1 .. Len(pending') :
             \/ pending'[j].what = "gone"
             \/ /\ authed' /\ pending'[j].what \in KindsOf(path')
                /\ pending'[j].token => stored',
           ~checking', stored' => MaxPending >= 2 /\ authed'
    PROVE  AllOwned' /\ OneSignIn' /\ AllEntitled' /\ LoggedOutIsClean'
<1>1. \A j \in 1 .. Len(pending') : pending'[j].what # "health"
  BY DEF KindsOf
<1>2. AllOwned'
  BY DEF AllOwned, Owned
<1>3. OneSignIn'
  BY <1>1 DEF OneSignIn, Kind
<1>4. AllEntitled'
  BY DEF AllEntitled, Entitled
<1>5. LoggedOutIsClean'
  BY DEF LoggedOutIsClean
<1> QED
  BY <1>2, <1>3, <1>4, <1>5

\* A request of kind k is still under way after the step, as it was or as
\* one of qs.
Still(k, i, qs) ==
    \/ k \in PendingKinds /\ (i \in 1 .. Len(pending) => k # Kind(i))
    \/ \E m \in 1 .. Len(qs) : qs[m].what = k

\* Who is asked what, in the session's name.
Proper(qs, p) ==
    \A m \in 1 .. Len(qs) :
      /\ qs[m].token => stored
      /\ qs[m].what # "health"
      /\ qs[m].what = "gone" \/ (authed /\ qs[m].what \in KindsOf(p))

\* What StayKeeps says, with the view: the invariant over such a step.
LEMMA StayStep ==
    ASSUME BInv, NEW qs \in Seq(Request), NEW i, NEW n, Moves(i, n, qs),
           stored' = stored, authed' = authed, checking' = checking,
           path' \in Orchs \union Pages, authed => KindsOf(path') = KindsOf(path),
           i \in 1 .. Len(pending) => Kind(i) # "health",
           Proper(qs, path'),
           Len(pending') <= MaxPending, checking => Len(pending') <= Len(pending),
           view' \in View, ~authed => view' = view,
           view'.rows \/ view'.detail.ok \/ view'.first => authed /\ stored,
           view'.loading => \E k \in Loading : Still(k, i, qs),
           view'.refreshing => \E k \in Spinning : Still(k, i, qs)
    PROVE  BInv'
<1>1. pending \in Seq(Request)
  BY DEF BInv, TypeOK
<1>2. /\ AllOwned' /\ OneSignIn' /\ AllEntitled' /\ LoggedOutIsClean'
      /\ checking' => "health" \in PendingKinds'
  BY StayKeeps DEF Proper
<1>3. /\ \A k \in PendingKinds : (i \in 1 .. Len(pending) => k # Kind(i)) =>
           k \in PendingKinds'
      /\ \A m \in 1 .. Len(qs) : qs[m].what \in PendingKinds'
  BY <1>1, KindsKept
<1>4. \A k : Still(k, i, qs) => k \in PendingKinds'
  BY <1>3 DEF Still
<1>5. SpinnersEnd'
  <2>1. view'.loading => PendingKinds' \intersect Loading # {}
    BY <1>4
  <2>2. view'.refreshing => PendingKinds' \intersect Spinning # {}
    BY <1>4
  <2> QED
    BY <1>2, <2>1, <2>2 DEF SpinnersEnd, Loading, Spinning
<1>6. DataSound'
  BY DEF DataSound, DataNeedsToken
<1>7. TypeOK'
  BY DEF BInv, TypeOK, Moves
<1> QED
  BY <1>2, <1>5, <1>6, <1>7 DEF BInv

\* A request that the mounted element sends.
LEMMA SendStep ==
    ASSUME BInv, authed, NEW qs \in Seq(Request), Send(qs), Proper(qs, path'),
           path' \in Orchs \union Pages, KindsOf(path') = KindsOf(path),
           Len(pending) + Len(qs) <= MaxPending,
           view' \in View,
           view'.rows \/ view'.detail.ok \/ view'.first => stored,
           \/ ~view'.loading \/ view.loading
           \/ \E m \in 1 .. Len(qs) : qs[m].what \in Loading,
           \/ ~view'.refreshing \/ view.refreshing
           \/ \E m \in 1 .. Len(qs) : qs[m].what \in Spinning
    PROVE  BInv'
<1>1. pending \in Seq(Request) /\ Len(pending) \in Nat /\ ~checking
  BY DEF BInv, TypeOK, OneSignIn
<1>2. /\ pending' = pending \o qs
      /\ stored' = stored /\ authed' = authed /\ checking' = checking
  BY DEF Send
<1>3. Moves(Len(pending) + 1, Len(pending), qs)
  BY <1>1, <1>2, SendMoves
<1>4. Len(pending) + 1 \notin 1 .. Len(pending)
  BY <1>1
<1>5. view'.loading => \E k \in Loading : Still(k, Len(pending) + 1, qs)
  <2>1. view.loading => \E k \in Loading : k \in PendingKinds
    BY DEF BInv, SpinnersEnd, Loading
  <2> QED
    BY <1>4, <2>1 DEF Still
<1>6. view'.refreshing => \E k \in Spinning : Still(k, Len(pending) + 1, qs)
  <2>1. view.refreshing => \E k \in Spinning : k \in PendingKinds
    BY DEF BInv, SpinnersEnd, Spinning
  <2> QED
    BY <1>4, <2>1 DEF Still
<1>7. Len(pending') <= MaxPending
  BY <1>3 DEF Moves
<1>8. PICK i, n : i = Len(pending) + 1 /\ n = Len(pending)
  OBVIOUS
<1> QED
  BY <1>1, <1>2, <1>3, <1>4, <1>5, <1>6, <1>7, <1>8, StayStep

\* An answer to the mounted element, or to one that is gone.
LEMMA AnswerStep ==
    ASSUME BInv, NEW i \in 1 .. Len(pending), Kind(i) # "health",
           NEW qs \in Seq(Request), Len(qs) \in {0, 1}, Answered(i, qs),
           Proper(qs, path), path' = path,
           view' \in View, ~authed => view' = view,
           view'.rows \/ view'.detail.ok \/ view'.first => authed /\ stored,
           view'.loading => \E k \in Loading : Still(k, i, qs),
           view'.refreshing => \E k \in Spinning : Still(k, i, qs)
    PROVE  BInv'
<1>1. pending \in Seq(Request) /\ Len(pending) \in Nat /\ Len(pending) <= MaxPending
  BY DEF BInv, TypeOK
<1>2. /\ pending' = Rest(i) \o qs
      /\ stored' = stored /\ authed' = authed /\ checking' = checking
  BY DEF Answered
<1>3. Moves(i, Len(pending) - 1, qs)
  BY <1>1, <1>2, RestMoves
<1>4. Len(pending') <= Len(pending) /\ Len(pending') <= MaxPending
  <2>1. Len(pending') = Len(pending) - 1 + Len(qs)
    BY <1>3 DEF Moves
  <2>2. MaxPending \in Nat /\ Len(qs) \in {0, 1}
    BY SessionAssumption
  <2>3. CASE Len(qs) = 0
    BY <1>1, <2>1, <2>2, <2>3
  <2>4. CASE Len(qs) = 1
    BY <1>1, <2>1, <2>2, <2>4
  <2> QED
    BY <2>2, <2>3, <2>4
<1>5. path' \in Orchs \union Pages
  BY DEF BInv, TypeOK
<1>6. PICK n : n = Len(pending) - 1
  OBVIOUS
<1> QED
  BY <1>2, <1>3, <1>4, <1>5, <1>6, StayStep

----------------------------------------------------------------------------
(* The answers.                                                            *)

\* A request that is neither gone nor the sign-in is the mounted element's.
LEMMA OwnFacts ==
    ASSUME BInv, NEW i \in 1 .. Len(pending), Kind(i) \notin {"gone", "health"}
    PROVE  /\ authed /\ Kind(i) \in KindsOf(path)
           /\ pending[i].token => stored
           /\ pending[i].orch \in Orchs \union {NoOrch}
           /\ Kind(i) \in PendingKinds
           /\ path \in Orchs \union Pages
<1>1. Owned(pending[i]) /\ Entitled(pending[i])
  BY DEF BInv, AllOwned, AllEntitled
<1>2. pending[i] \in Request
  <2>1. pending \in Seq(Request)
    BY DEF BInv, TypeOK
  <2> QED
    BY <2>1, ElementOfSeq
<1> QED
  BY <1>1, <1>2 DEF Owned, Entitled, Kind, Request, PendingKinds, BInv, TypeOK

\* What the view waited for, it waits for still, or it was request i.
LEMMA StillFacts ==
    ASSUME BInv, NEW i \in 1 .. Len(pending), NEW qs
    PROVE  /\ view.loading /\ Kind(i) \notin Loading => \E k \in Loading : Still(k, i, qs)
           /\ view.refreshing /\ Kind(i) \notin Spinning => \E k \in Spinning : Still(k, i, qs)
  BY DEF BInv, SpinnersEnd, Still, Loading, Spinning

\* An answer that is followed by nothing.
LEMMA NoneSent ==
    ASSUME NEW p
    PROVE  <<>> \in Seq(Request) /\ Len(<<>>) = 0 /\ Proper(<<>>, p)
  BY DEF Proper

\* An answer that is followed by one request of the page.
LEMMA OneSent ==
    ASSUME BInv, authed, NEW p, NEW what \in Kinds, what \in KindsOf(p), what # "health",
           NEW orch \in Orchs \union {NoOrch}
    PROVE  /\ <<Ask(what, orch)>> \in Seq(Request) /\ Len(<<Ask(what, orch)>>) = 1
           /\ <<Ask(what, orch)>>[1] = Ask(what, orch)
           /\ 1 \in 1 .. Len(<<Ask(what, orch)>>) /\ <<Ask(what, orch)>>[1].what = what
           /\ Proper(<<Ask(what, orch)>>, p)
<1>1. PICK q : q = Ask(what, orch)
  OBVIOUS
<1>2. q \in Request /\ q.what = what /\ q.token = stored
  BY <1>1, AskFacts DEF BInv
<1>3. <<q>> \in Seq(Request) /\ Len(<<q>>) = 1 /\ <<q>>[1] = q /\ 1 .. 1 = {1}
  BY <1>2
<1>4. Proper(<<q>>, p)
  BY <1>2, <1>3 DEF Proper
<1> QED
  BY <1>1, <1>2, <1>3, <1>4

\* An answer's writes leave a view.
LEMMA ViewPut ==
    ASSUME NEW v \in View, NEW l \in BOOLEAN, NEW e \in BOOLEAN, NEW r \in BOOLEAN
    PROVE  /\ \A a \in BOOLEAN :
                [v EXCEPT !.loading = l, !.rows = a, !.error = e, !.refreshing = r] \in View
           /\ \A d \in [orch : Orchs \union {NoOrch}, ok : BOOLEAN], o \in BOOLEAN :
                [v EXCEPT !.loading = l, !.detail = d, !.error = e, !.overtaken = o,
                          !.refreshing = r] \in View
<1>1. ASSUME NEW w \in View
      PROVE  /\ [w EXCEPT !.loading = l] \in View
             /\ [w EXCEPT !.error = e] \in View
             /\ [w EXCEPT !.refreshing = r] \in View
  BY DEF View
<1>2. ASSUME NEW w \in View, NEW a \in BOOLEAN
      PROVE  [w EXCEPT !.rows = a] \in View
  BY DEF View
<1>3. ASSUME NEW w \in View, NEW d \in [orch : Orchs \union {NoOrch}, ok : BOOLEAN]
      PROVE  [w EXCEPT !.detail = d] \in View
  BY DEF View
<1>4. ASSUME NEW w \in View, NEW o \in BOOLEAN
      PROVE  [w EXCEPT !.overtaken = o] \in View
  BY DEF View
<1>5. ASSUME NEW a \in BOOLEAN
      PROVE  [v EXCEPT !.loading = l, !.rows = a, !.error = e, !.refreshing = r] \in View
  BY <1>1, <1>2
<1>6. ASSUME NEW d \in [orch : Orchs \union {NoOrch}, ok : BOOLEAN], NEW o \in BOOLEAN
      PROVE  [v EXCEPT !.loading = l, !.detail = d, !.error = e, !.overtaken = o,
                       !.refreshing = r] \in View
  BY <1>1, <1>3, <1>4
<1> QED
  BY <1>5, <1>6

\* The roster arrives, or its error (admin-routing.js, _reload).
LEMMA ListAnsweredStep ==
    ASSUME BInv, NEW i \in 1 .. Len(pending), NEW verdict, ListAnswered(i, verdict)
    PROVE  BInv'
<1>1. /\ Kind(i) \in {"list", "listAll"} /\ (verdict = "ok" => pending[i].token)
      /\ view' = [view EXCEPT !.loading = FALSE,
                              !.rows = view.rows \/ verdict = "ok",
                              !.error = view.error \/ verdict = "failed",
                              !.refreshing = view.refreshing /\ Kind(i) = "list"]
      /\ Answered(i, <<>>) /\ path' = path
  BY DEF ListAnswered, MayAnswer
<1>2. /\ authed /\ (verdict = "ok" => stored)
  BY <1>1, OwnFacts
<1>3. view \in View
  BY DEF BInv, TypeOK
<1>4. /\ view' \in View /\ ~view'.loading
      /\ view'.rows => view.rows \/ verdict = "ok"
      /\ view'.detail = view.detail /\ view'.first = view.first
      /\ view'.refreshing => view.refreshing /\ Kind(i) = "list"
  <2>1. PICK a, e, r : /\ a = (view.rows \/ verdict = "ok")
                       /\ e = (view.error \/ verdict = "failed")
                       /\ r = (view.refreshing /\ Kind(i) = "list")
    OBVIOUS
  <2>2. /\ a \in BOOLEAN /\ e \in BOOLEAN /\ r \in BOOLEAN
        /\ view' = [view EXCEPT !.loading = FALSE, !.rows = a, !.error = e,
                                !.refreshing = r]
    BY <1>1, <2>1
  <2>3. view' \in View
    BY <1>3, <2>2, ViewPut
  <2>4. /\ ~view'.loading /\ view'.rows = a /\ view'.refreshing = r
        /\ view'.detail = view.detail /\ view'.first = view.first
    BY <1>3, <2>2 DEF View
  <2> QED
    BY <2>1, <2>3, <2>4
<1>5. view'.rows \/ view'.detail.ok \/ view'.first => authed /\ stored
  BY <1>2, <1>4 DEF BInv, DataSound, DataNeedsToken
<1>6. view'.refreshing => \E k \in Spinning : Still(k, i, <<>>)
  BY <1>4, StillFacts DEF Spinning
<1> QED
  BY <1>1, <1>2, <1>4, <1>5, <1>6, NoneSent, AnswerStep

\* The panel's orch arrives, or its error (_select).
LEMMA OrchAnsweredStep ==
    ASSUME BInv, NEW i \in 1 .. Len(pending), NEW verdict, OrchAnswered(i, verdict)
    PROVE  BInv'
<1>1. /\ Kind(i) = "orch" /\ (verdict = "ok" => pending[i].token)
      /\ view' = [view EXCEPT !.detail = [orch |-> pending[i].orch, ok |-> verdict = "ok"],
                              !.overtaken = view.overtaken \/ Overtakes(i)]
      /\ Answered(i, <<>>) /\ path' = path
  BY DEF OrchAnswered, MayAnswer
<1>2. /\ authed /\ (verdict = "ok" => stored)
      /\ pending[i].orch \in Orchs \union {NoOrch}
  BY <1>1, OwnFacts
<1>3. view \in View
  BY DEF BInv, TypeOK
<1>4. /\ view' \in View
      /\ view'.detail.ok => verdict = "ok"
      /\ view'.rows = view.rows /\ view'.first = view.first
      /\ view'.loading = view.loading /\ view'.refreshing = view.refreshing
  BY <1>1, <1>2, <1>3 DEF View, Overtakes
<1>5. view'.rows \/ view'.detail.ok \/ view'.first => authed /\ stored
  BY <1>2, <1>4 DEF BInv, DataSound, DataNeedsToken
<1>6. /\ view'.loading => \E k \in Loading : Still(k, i, <<>>)
      /\ view'.refreshing => \E k \in Spinning : Still(k, i, <<>>)
  BY <1>1, <1>4, StillFacts DEF Loading, Spinning
<1> QED
  BY <1>1, <1>2, <1>4, <1>5, <1>6, NoneSent, AnswerStep

\* Which page a request tells that it comes from.
LEMMA KindFacts ==
    ASSUME NEW p \in Orchs \union Pages
    PROVE  /\ \A k \in KindsOf(p) :
                /\ k \in KindsOf("routing") => p = "routing"
                /\ k \in {"load", "loadAfter", "refreshOrch"} => p \in Orchs
           /\ p \in Orchs => KindsOf(p) = {"load", "loadAfter", "refreshOrch"}
           /\ KindsOf("routing") = {"list", "listAll", "orch", "orchAfter",
                                    "refreshOne", "refreshAll"}
  BY PathFacts DEF KindsOf, Pages

\* _reload and _load up to their await.
LEMMA ReloadStartFacts ==
    ASSUME NEW v \in View
    PROVE  /\ ReloadStart(v) \in View /\ ReloadStart(v).loading
           /\ ReloadStart(v).detail = v.detail /\ ReloadStart(v).rows = v.rows
           /\ ReloadStart(v).first = v.first /\ ReloadStart(v).refreshing = v.refreshing
           /\ ReloadStart(v).subject = v.subject /\ ReloadStart(v).overtaken = v.overtaken
  BY DEF ReloadStart, View

\* _load up to its await: the address is new, and nothing is shown of it.
LEMMA LoadStartFacts ==
    ASSUME NEW v \in View, NEW o \in Orchs
    PROVE  /\ LoadStart(v, o) \in View /\ LoadStart(v, o).loading
           /\ ~LoadStart(v, o).detail.ok /\ LoadStart(v, o).rows = v.rows
           /\ LoadStart(v, o).first = v.first
           /\ LoadStart(v, o).refreshing = v.refreshing
           /\ LoadStart(v, o).overtaken <=> v.overtaken /\ ~NoneDetailing
  BY DEF LoadStart, View, NoDetail, NoneDetailing

\* _refreshOne after its refresh.
LEMMA OneRefreshedStep ==
    ASSUME BInv, NEW i \in 1 .. Len(pending), NEW verdict, OneRefreshed(i, verdict)
    PROVE  BInv'
<1>1. Kind(i) = "refreshOne" /\ path' = path
  BY DEF OneRefreshed
<1>2. /\ authed /\ pending[i].orch \in Orchs \union {NoOrch} /\ path \in Orchs \union Pages
      /\ "refreshOne" \in KindsOf(path)
  BY <1>1, OwnFacts
<1>3. {"list", "orchAfter"} \subseteq KindsOf(path)
  BY <1>2, KindFacts
<1>4. view \in View
  BY DEF BInv, TypeOK
<1>5. view.rows \/ view.detail.ok \/ view.first => authed /\ stored
  BY DEF BInv, DataSound, DataNeedsToken
<1>6. \A qs : /\ view.loading => \E k \in Loading : Still(k, i, qs)
              /\ view.refreshing => \E k \in Spinning : Still(k, i, qs)
  BY <1>1, StillFacts DEF Loading, Spinning
<1>7. CASE view' = [view EXCEPT !.error = TRUE] /\ Answered(i, <<>>)
  <2>1. /\ view' \in View /\ view'.rows = view.rows /\ view'.detail = view.detail
        /\ view'.first = view.first /\ view'.loading = view.loading
        /\ view'.refreshing = view.refreshing
    BY <1>4, <1>7 DEF View
  <2> QED
    BY <1>1, <1>2, <1>5, <1>6, <1>7, <2>1, NoneSent, AnswerStep
<1>8. CASE UNCHANGED view /\ Answered(i, <<Ask("orchAfter", pending[i].orch)>>)
  <2>1. PICK qs : qs = <<Ask("orchAfter", pending[i].orch)>>
    OBVIOUS
  <2>2. qs \in Seq(Request) /\ Len(qs) = 1 /\ Proper(qs, path)
    BY <1>2, <1>3, <2>1, OneSent DEF Kinds
  <2> QED
    BY <1>1, <1>2, <1>4, <1>5, <1>6, <1>8, <2>1, <2>2, AnswerStep
<1>9. CASE view' = ReloadStart(view) /\ Answered(i, <<Ask("list", NoOrch)>>)
  <2>1. PICK qs : qs = <<Ask("list", NoOrch)>>
    OBVIOUS
  <2>2. /\ qs \in Seq(Request) /\ Len(qs) = 1 /\ Proper(qs, path)
        /\ 1 \in 1 .. Len(qs) /\ qs[1].what = "list"
    BY <1>2, <1>3, <2>1, OneSent DEF Kinds
  <2>3. /\ view' \in View /\ view'.rows = view.rows /\ view'.detail = view.detail
        /\ view'.first = view.first /\ view'.refreshing = view.refreshing
    BY <1>4, <1>9, ReloadStartFacts
  <2>4. \E k \in Loading : Still(k, i, qs)
    BY <2>2 DEF Still, Loading
  <2> QED
    BY <1>1, <1>2, <1>5, <1>6, <1>9, <2>1, <2>2, <2>3, <2>4, AnswerStep
<1> QED
  BY <1>7, <1>8, <1>9 DEF OneRefreshed

\* _refreshOne after the panel's orch: on to the roster.
LEMMA OrchAfterAnsweredStep ==
    ASSUME BInv, NEW i \in 1 .. Len(pending), NEW verdict, OrchAfterAnswered(i, verdict)
    PROVE  BInv'
<1>1. Kind(i) = "orchAfter" /\ path' = path /\ (verdict = "ok" => pending[i].token)
  BY DEF OrchAfterAnswered, MayAnswer
<1>2. /\ authed /\ pending[i].orch \in Orchs \union {NoOrch} /\ path \in Orchs \union Pages
      /\ "orchAfter" \in KindsOf(path) /\ (verdict = "ok" => stored)
  BY <1>1, OwnFacts
<1>3. "list" \in KindsOf(path)
  BY <1>2, KindFacts
<1>4. view \in View
  BY DEF BInv, TypeOK
<1>5. view.rows \/ view.detail.ok \/ view.first => authed /\ stored
  BY DEF BInv, DataSound, DataNeedsToken
<1>6. \A qs : /\ view.loading => \E k \in Loading : Still(k, i, qs)
              /\ view.refreshing => \E k \in Spinning : Still(k, i, qs)
  BY <1>1, StillFacts DEF Loading, Spinning
<1>7. CASE verdict = "ok"
  <2>1. PICK qs, v : qs = <<Ask("list", NoOrch)>> /\ v = ReloadStart(view)
    OBVIOUS
  <2>2. /\ qs \in Seq(Request) /\ Len(qs) = 1 /\ Proper(qs, path)
        /\ 1 \in 1 .. Len(qs) /\ qs[1].what = "list"
    BY <1>2, <1>3, <2>1, OneSent DEF Kinds
  <2>3. v \in View /\ v.refreshing = view.refreshing
    BY <1>4, <2>1, ReloadStartFacts
  <2>4. /\ view' = [v EXCEPT !.detail = [orch |-> pending[i].orch, ok |-> TRUE],
                             !.overtaken = v.overtaken \/ Overtakes(i)]
        /\ Answered(i, qs)
    BY <1>7, <2>1 DEF OrchAfterAnswered
  <2>5. view' \in View /\ view'.refreshing = view.refreshing
    BY <1>2, <2>3, <2>4 DEF View, Overtakes
  <2>6. \E k \in Loading : Still(k, i, qs)
    BY <2>2 DEF Still, Loading
  <2> QED
    BY <1>1, <1>2, <1>6, <1>7, <2>2, <2>4, <2>5, <2>6, AnswerStep
<1>8. CASE verdict # "ok"
  <2>1. /\ view' = [view EXCEPT !.error = TRUE,
                                !.overtaken = view.overtaken \/ Overtakes(i)]
        /\ Answered(i, <<>>)
    BY <1>8 DEF OrchAfterAnswered
  <2>2. /\ view' \in View /\ view'.rows = view.rows /\ view'.detail = view.detail
        /\ view'.first = view.first /\ view'.loading = view.loading
        /\ view'.refreshing = view.refreshing
    BY <1>4, <2>1 DEF View, Overtakes
  <2> QED
    BY <1>1, <1>2, <1>5, <1>6, <2>1, <2>2, NoneSent, AnswerStep
<1> QED
  BY <1>7, <1>8

\* _refreshAll after its refresh.
LEMMA AllRefreshedStep ==
    ASSUME BInv, NEW i \in 1 .. Len(pending), NEW verdict, AllRefreshed(i, verdict)
    PROVE  BInv'
<1>1. Kind(i) = "refreshAll" /\ path' = path
  BY DEF AllRefreshed
<1>2. authed /\ path \in Orchs \union Pages /\ "refreshAll" \in KindsOf(path)
  BY <1>1, OwnFacts
<1>3. "listAll" \in KindsOf(path)
  BY <1>2, KindFacts
<1>4. view \in View
  BY DEF BInv, TypeOK
<1>5. view.rows \/ view.detail.ok \/ view.first => authed /\ stored
  BY DEF BInv, DataSound, DataNeedsToken
<1>6. \A qs : view.loading => \E k \in Loading : Still(k, i, qs)
  BY <1>1, StillFacts DEF Loading
<1>7. CASE verdict = "ok"
  <2>1. PICK qs : qs = <<Ask("listAll", NoOrch)>>
    OBVIOUS
  <2>2. /\ qs \in Seq(Request) /\ Len(qs) = 1 /\ Proper(qs, path)
        /\ 1 \in 1 .. Len(qs) /\ qs[1].what = "listAll"
    BY <1>2, <1>3, <2>1, OneSent DEF Kinds
  <2>3. view' = ReloadStart(view) /\ Answered(i, qs)
    BY <1>7, <2>1 DEF AllRefreshed
  <2>4. /\ view' \in View /\ view'.rows = view.rows /\ view'.detail = view.detail
        /\ view'.first = view.first
    BY <1>4, <2>3, ReloadStartFacts
  <2>5. /\ \E k \in Loading : Still(k, i, qs)
        /\ \E k \in Spinning : Still(k, i, qs)
    BY <2>2 DEF Still, Loading, Spinning
  <2> QED
    BY <1>1, <1>2, <1>5, <2>2, <2>3, <2>4, <2>5, AnswerStep
<1>8. CASE verdict # "ok"
  <2>1. /\ view' = [view EXCEPT !.error = TRUE, !.refreshing = FALSE]
        /\ Answered(i, <<>>)
    BY <1>8 DEF AllRefreshed
  <2>2. /\ view' \in View /\ view'.rows = view.rows /\ view'.detail = view.detail
        /\ view'.first = view.first /\ view'.loading = view.loading
        /\ ~view'.refreshing
    BY <1>4, <2>1 DEF View
  <2> QED
    BY <1>1, <1>2, <1>5, <1>6, <2>1, <2>2, NoneSent, AnswerStep
<1> QED
  BY <1>7, <1>8

\* The page's orch arrives, or its error (admin-orch-detail.js, _load).
LEMMA LoadAnsweredStep ==
    ASSUME BInv, NEW i \in 1 .. Len(pending), NEW verdict, LoadAnswered(i, verdict)
    PROVE  BInv'
<1>1. /\ Kind(i) \in {"load", "loadAfter"} /\ path' = path
      /\ verdict = "ok" => pending[i].token
      /\ Answered(i, <<>>)
  BY DEF LoadAnswered, MayAnswer
<1>2. /\ authed /\ pending[i].orch \in Orchs \union {NoOrch}
      /\ verdict = "ok" => stored
  BY <1>1, OwnFacts
<1>3. view \in View
  BY DEF BInv, TypeOK
<1>4. PICK d : d = IF verdict = "ok" THEN [orch |-> pending[i].orch, ok |-> TRUE]
                   ELSE view.detail
  OBVIOUS
<1>5. PICK e, o, r : /\ e = (view.error \/ verdict = "failed")
                     /\ o = (view.overtaken \/ Overtakes(i))
                     /\ r = (view.refreshing /\ Kind(i) = "load")
  OBVIOUS
<1>6. /\ view' = [view EXCEPT !.loading = FALSE, !.detail = d, !.error = e,
                              !.overtaken = o, !.refreshing = r]
      /\ d \in [orch : Orchs \union {NoOrch}, ok : BOOLEAN]
      /\ e \in BOOLEAN /\ o \in BOOLEAN /\ r \in BOOLEAN
  <2>1. view' = [view EXCEPT !.loading = FALSE, !.detail = d, !.error = e,
                             !.overtaken = o, !.refreshing = r]
    BY <1>4, <1>5 DEF LoadAnswered
  <2>2. d \in [orch : Orchs \union {NoOrch}, ok : BOOLEAN]
    BY <1>2, <1>3, <1>4 DEF View
  <2>3. e \in BOOLEAN /\ o \in BOOLEAN /\ r \in BOOLEAN
    BY <1>5
  <2> QED
    BY <2>1, <2>2, <2>3
<1>7. /\ view' \in View /\ view'.detail = d /\ ~view'.loading
      /\ view'.rows = view.rows /\ view'.first = view.first
      /\ view'.refreshing => view.refreshing /\ Kind(i) = "load"
  <2>1. view' \in View
    BY <1>3, <1>6, ViewPut
  <2>2. /\ view'.detail = d /\ ~view'.loading
        /\ view'.rows = view.rows /\ view'.first = view.first
        /\ view'.refreshing = r
    BY <1>3, <1>6 DEF View
  <2> QED
    BY <1>5, <2>1, <2>2
<1>8. view'.rows \/ view'.detail.ok \/ view'.first => authed /\ stored
  BY <1>2, <1>4, <1>7 DEF BInv, DataSound, DataNeedsToken
<1>9. view'.refreshing => \E k \in Spinning : Still(k, i, <<>>)
  BY <1>7, StillFacts DEF Spinning
<1> QED
  BY <1>1, <1>2, <1>7, <1>8, <1>9, NoneSent, AnswerStep

\* _refresh after its refresh: the address of the moment is loaded.
LEMMA OrchRefreshedStep ==
    ASSUME BInv, NEW i \in 1 .. Len(pending), NEW verdict, OrchRefreshed(i, verdict)
    PROVE  BInv'
<1>1. Kind(i) = "refreshOrch" /\ path' = path
  BY DEF OrchRefreshed
<1>2. authed /\ path \in Orchs \union Pages /\ "refreshOrch" \in KindsOf(path)
  BY <1>1, OwnFacts
<1>3. path \in Orchs /\ "loadAfter" \in KindsOf(path)
  BY <1>2, KindFacts
<1>4. view \in View
  BY DEF BInv, TypeOK
<1>5. view.rows \/ view.detail.ok \/ view.first => authed /\ stored
  BY DEF BInv, DataSound, DataNeedsToken
<1>6. \A qs : view.loading => \E k \in Loading : Still(k, i, qs)
  BY <1>1, StillFacts DEF Loading
<1>7. CASE verdict = "ok"
  <2>1. PICK qs : qs = <<Ask("loadAfter", path)>>
    OBVIOUS
  <2>2. /\ qs \in Seq(Request) /\ Len(qs) = 1 /\ Proper(qs, path)
        /\ 1 \in 1 .. Len(qs) /\ qs[1].what = "loadAfter"
    BY <1>2, <1>3, <2>1, OneSent DEF Kinds
  <2>3. view' = LoadStart(view, path) /\ Answered(i, qs)
    BY <1>7, <2>1 DEF OrchRefreshed
  <2>4. /\ view' \in View /\ view'.rows = view.rows /\ ~view'.detail.ok
        /\ view'.first = view.first
    BY <1>3, <1>4, <2>3, LoadStartFacts
  <2>5. /\ \E k \in Loading : Still(k, i, qs)
        /\ \E k \in Spinning : Still(k, i, qs)
    BY <2>2 DEF Still, Loading, Spinning
  <2> QED
    BY <1>1, <1>2, <1>5, <2>2, <2>3, <2>4, <2>5, AnswerStep
<1>8. CASE verdict # "ok"
  <2>1. /\ view' = [view EXCEPT !.error = TRUE, !.refreshing = FALSE]
        /\ Answered(i, <<>>)
    BY <1>8 DEF OrchRefreshed
  <2>2. /\ view' \in View /\ view'.rows = view.rows /\ view'.detail = view.detail
        /\ view'.first = view.first /\ view'.loading = view.loading
        /\ ~view'.refreshing
    BY <1>4, <2>1 DEF View
  <2> QED
    BY <1>1, <1>2, <1>5, <1>6, <2>1, <2>2, NoneSent, AnswerStep
<1> QED
  BY <1>7, <1>8

\* One of the sender's two answers arrives.
LEMMA SenderAnsweredStep ==
    ASSUME BInv, NEW i \in 1 .. Len(pending), NEW verdict, SenderAnswered(i, verdict)
    PROVE  BInv'
<1>1. /\ Kind(i) \in {"wallet", "escrow"} /\ path' = path
      /\ verdict = "ok" => pending[i].token
      /\ Answered(i, <<>>)
  BY DEF SenderAnswered, MayAnswer
<1>2. authed /\ (verdict = "ok" => stored)
  BY <1>1, OwnFacts
<1>3. view \in View
  BY DEF BInv, TypeOK
<1>4. view.rows \/ view.detail.ok \/ view.first => authed /\ stored
  BY DEF BInv, DataSound, DataNeedsToken
<1>5. view.refreshing => \E k \in Spinning : Still(k, i, <<>>)
  BY <1>1, StillFacts DEF Spinning
<1>6. CASE {"wallet", "escrow"} \subseteq PendingKinds
  <2>1. view' = [view EXCEPT !.first = verdict = "ok"]
    BY <1>6 DEF SenderAnswered
  <2>2. /\ view' \in View /\ view'.rows = view.rows /\ view'.detail = view.detail
        /\ view'.first => verdict = "ok"
        /\ view'.refreshing = view.refreshing
    BY <1>3, <2>1 DEF View
  <2>3. \E k \in Loading : Still(k, i, <<>>)
    BY <1>1, <1>6 DEF Still, Loading
  <2> QED
    BY <1>1, <1>2, <1>4, <1>5, <2>2, <2>3, NoneSent, AnswerStep
<1>7. CASE ~({"wallet", "escrow"} \subseteq PendingKinds)
  <2>1. view' = [view EXCEPT !.loading = FALSE, !.first = FALSE,
                             !.rows = view.first \/ verdict = "ok",
                             !.error = ~view.first \/ verdict = "failed"]
    BY <1>7 DEF SenderAnswered
  <2>2. /\ view' \in View /\ ~view'.loading /\ ~view'.first
        /\ view'.rows => view.first \/ verdict = "ok"
        /\ view'.detail = view.detail
        /\ view'.refreshing = view.refreshing
    BY <1>3, <2>1 DEF View
  <2> QED
    BY <1>1, <1>2, <1>4, <1>5, <2>2, NoneSent, AnswerStep
<1> QED
  BY <1>6, <1>7

\* The route that was searched arrives, or its error.
LEMMA SearchAnsweredStep ==
    ASSUME BInv, NEW i \in 1 .. Len(pending), NEW verdict, SearchAnswered(i, verdict)
    PROVE  BInv'
<1>1. /\ Kind(i) = "search" /\ path' = path
      /\ verdict = "ok" => pending[i].token
      /\ view' = [view EXCEPT !.loading = FALSE, !.rows = verdict = "ok",
                              !.error = verdict = "failed"]
      /\ Answered(i, <<>>)
  BY DEF SearchAnswered, MayAnswer
<1>2. authed /\ (verdict = "ok" => stored)
  BY <1>1, OwnFacts
<1>3. view \in View
  BY DEF BInv, TypeOK
<1>4. /\ view' \in View /\ ~view'.loading
      /\ view'.rows => verdict = "ok"
      /\ view'.detail = view.detail /\ view'.first = view.first
      /\ view'.refreshing = view.refreshing
  BY <1>1, <1>3 DEF View
<1>5. view'.rows \/ view'.detail.ok \/ view'.first => authed /\ stored
  BY <1>2, <1>4 DEF BInv, DataSound, DataNeedsToken
<1>6. view'.refreshing => \E k \in Spinning : Still(k, i, <<>>)
  BY <1>1, <1>4, StillFacts DEF Spinning
<1> QED
  BY <1>1, <1>2, <1>4, <1>5, <1>6, NoneSent, AnswerStep

\* An answer to an element that is gone, and what its function asks next.
LEMMA GoneAnsweredStep ==
    ASSUME BInv, NEW i \in 1 .. Len(pending), NEW verdict, GoneAnswered(i, verdict)
    PROVE  BInv'
<1>1. PICK qs : qs = IF verdict = "ok" /\ pending[i].more > 0
                     THEN <<AskMore(pending[i].more - 1)>> ELSE <<>>
  OBVIOUS
<1>2. Kind(i) = "gone" /\ Answered(i, qs) /\ path' = path /\ view' = view
  BY <1>1 DEF GoneAnswered
<1>3. pending[i] \in Request /\ view \in View
  BY ElementOfSeq DEF BInv, TypeOK
<1>4. qs \in Seq(Request) /\ Len(qs) \in {0, 1} /\ Proper(qs, path)
  <2>1. CASE verdict = "ok" /\ pending[i].more > 0
    <3>1. PICK q : q = AskMore(pending[i].more - 1)
      OBVIOUS
    <3>2. pending[i].more - 1 \in 0 .. 2
      BY <1>3, <2>1 DEF Request
    <3>3. q \in Request /\ q.what = "gone" /\ q.token = stored
      BY <3>1, <3>2, AskMoreFacts DEF BInv
    <3>4. <<q>> \in Seq(Request) /\ Len(<<q>>) = 1 /\ <<q>>[1] = q /\ 1 .. 1 = {1}
      BY <3>3
    <3>5. Proper(<<q>>, path)
      BY <3>3, <3>4 DEF Proper
    <3> QED
      BY <1>1, <2>1, <3>1, <3>4, <3>5
  <2>2. CASE ~(verdict = "ok" /\ pending[i].more > 0)
    BY <1>1, <2>2, NoneSent
  <2> QED
    BY <2>1, <2>2
<1>5. view.rows \/ view.detail.ok \/ view.first => authed /\ stored
  BY DEF BInv, DataSound, DataNeedsToken
<1>6. /\ view.loading => \E k \in Loading : Still(k, i, qs)
      /\ view.refreshing => \E k \in Spinning : Still(k, i, qs)
  BY <1>2, StillFacts DEF Loading, Spinning
<1> QED
  BY <1>2, <1>3, <1>4, <1>5, <1>6, AnswerStep

----------------------------------------------------------------------------
(* The operator.                                                           *)

\* The kinds that the elements ask for.
LEMMA PageKinds ==
    ASSUME NEW p \in Orchs \union Pages
    PROVE  /\ p = "routing" => {"list", "orch", "refreshOne", "refreshAll"} \subseteq KindsOf(p)
           /\ p = "sender" => {"wallet", "escrow"} \subseteq KindsOf(p)
           /\ p = "capabilities" => "search" \in KindsOf(p)
           /\ p \in Orchs => {"load", "refreshOrch"} \subseteq KindsOf(p)
  BY KindFacts DEF KindsOf

\* One request is sent from the page that is open, which stays as it is but
\* for the view.
LEMMA OneSendStep ==
    ASSUME BInv, authed, NEW what \in Kinds, what \in KindsOf(path'), what # "health",
           NEW orch \in Orchs \union {NoOrch},
           Send(<<Ask(what, orch)>>), Room(1),
           path' \in Orchs \union Pages, KindsOf(path') = KindsOf(path),
           view' \in View,
           view'.rows \/ view'.detail.ok \/ view'.first => stored,
           ~view'.loading \/ view.loading \/ what \in Loading,
           ~view'.refreshing \/ view.refreshing \/ what \in Spinning
    PROVE  BInv'
<1>1. PICK qs, p : qs = <<Ask(what, orch)>> /\ p = path'
  OBVIOUS
<1>2. /\ qs \in Seq(Request) /\ Len(qs) = 1 /\ Proper(qs, p)
      /\ 1 \in 1 .. Len(qs) /\ qs[1].what = what
  BY <1>1, OneSent
<1>3. Len(pending) + Len(qs) <= MaxPending
  BY <1>2 DEF Room
<1> QED
  BY <1>1, <1>2, <1>3, SendStep

\* The Reload button of the roster.
LEMMA ReloadStep == BInv /\ Reload => BInv'
<1> SUFFICES ASSUME BInv, Reload PROVE BInv'
  OBVIOUS
<1>1. /\ authed /\ path = "routing" /\ path' = path /\ Room(1)
      /\ view' = ReloadStart(view) /\ Send(<<Ask("list", NoOrch)>>)
  BY DEF Reload, OnRouting
<1>2. view \in View /\ path \in Orchs \union Pages /\ "list" \in KindsOf(path)
  BY <1>1, PageKinds DEF BInv, TypeOK
<1>3. /\ view' \in View /\ view'.rows = view.rows /\ view'.detail = view.detail
      /\ view'.first = view.first /\ view'.refreshing = view.refreshing
  BY <1>1, <1>2, ReloadStartFacts
<1>4. view.rows \/ view.detail.ok \/ view.first => stored
  BY DEF BInv, DataSound, DataNeedsToken
<1> QED
  BY <1>1, <1>2, <1>3, <1>4, OneSendStep DEF Kinds, Loading

\* A click on a row of the roster.
LEMMA SelectStep == ASSUME BInv, NEW o \in Orchs, Select(o) PROVE BInv'
<1>1. authed /\ path = "routing" /\ path' = path /\ Room(1)
  BY DEF Select, RosterShown, OnRouting
<1>2. view \in View /\ path \in Orchs \union Pages /\ "orch" \in KindsOf(path)
  BY <1>1, PageKinds DEF BInv, TypeOK
<1>3. view.rows \/ view.detail.ok \/ view.first => stored
  BY DEF BInv, DataSound, DataNeedsToken
<1>4. CASE view.subject = o
  <2>1. /\ view' = [view EXCEPT !.subject = NoOrch, !.detail = NoDetail]
        /\ pending' = pending /\ UNCHANGED <<stored, authed, checking>>
    BY <1>4 DEF Select, sessionVars
  <2>2. /\ view' \in View /\ view'.rows = view.rows /\ ~view'.detail.ok
        /\ view'.first = view.first /\ view'.refreshing = view.refreshing
        /\ view'.loading = view.loading
    BY <1>2, <2>1 DEF View, NoDetail
  <2>3. pending \in Seq(Request) /\ Len(pending) \in Nat /\ Len(pending) <= MaxPending
    BY DEF BInv, TypeOK
  <2>4. Send(<<>>)
    BY <2>1, <2>3, ConcatEmptySeq DEF Send
  <2>5. Len(pending) + Len(<<>>) <= MaxPending
    BY <2>3
  <2> QED
    BY <1>1, <1>2, <1>3, <2>2, <2>4, <2>5, NoneSent, SendStep
<1>5. CASE view.subject # o
  <2>1. PICK b : b = (view.overtaken /\ ~NoneDetailing)
    OBVIOUS
  <2>2. /\ view' = [view EXCEPT !.subject = o, !.detail = NoDetail, !.overtaken = b]
        /\ Send(<<Ask("orch", o)>>)
    BY <1>5, <2>1 DEF Select
  <2>3. b \in BOOLEAN
    BY <2>1
  <2>4. /\ view' \in View /\ view'.rows = view.rows /\ ~view'.detail.ok
        /\ view'.first = view.first /\ view'.refreshing = view.refreshing
        /\ view'.loading = view.loading
    BY <1>2, <2>2, <2>3 DEF View, NoDetail
  <2> QED
    BY <1>1, <1>2, <1>3, <2>2, <2>4, OneSendStep DEF Kinds
<1> QED
  BY <1>4, <1>5

\* The Refresh button of the panel.
LEMMA RefreshOneStep == BInv /\ RefreshOne => BInv'
<1> SUFFICES ASSUME BInv, RefreshOne PROVE BInv'
  OBVIOUS
<1>1. /\ authed /\ path = "routing" /\ path' = path /\ view' = view /\ Room(1)
      /\ Send(<<Ask("refreshOne", view.subject)>>)
  BY DEF RefreshOne, PanelShown, OnRouting
<1>2. /\ view \in View /\ path \in Orchs \union Pages /\ "refreshOne" \in KindsOf(path)
      /\ view.subject \in Orchs \union {NoOrch}
  BY <1>1, PageKinds DEF BInv, TypeOK, View
<1>3. view.rows \/ view.detail.ok \/ view.first => stored
  BY DEF BInv, DataSound, DataNeedsToken
<1> QED
  BY <1>1, <1>2, <1>3, OneSendStep DEF Kinds

\* The Refresh all button.
LEMMA RefreshAllStep == BInv /\ RefreshAll => BInv'
<1> SUFFICES ASSUME BInv, RefreshAll PROVE BInv'
  OBVIOUS
<1>1. /\ authed /\ path = "routing" /\ path' = path /\ Room(1)
      /\ view' = [view EXCEPT !.refreshing = TRUE]
      /\ Send(<<Ask("refreshAll", NoOrch)>>)
  BY DEF RefreshAll, OnRouting
<1>2. view \in View /\ path \in Orchs \union Pages /\ "refreshAll" \in KindsOf(path)
  BY <1>1, PageKinds DEF BInv, TypeOK
<1>3. /\ view' \in View /\ view'.rows = view.rows /\ view'.detail = view.detail
      /\ view'.first = view.first /\ view'.loading = view.loading
  BY <1>1, <1>2 DEF View
<1>4. view.rows \/ view.detail.ok \/ view.first => stored
  BY DEF BInv, DataSound, DataNeedsToken
<1> QED
  BY <1>1, <1>2, <1>3, <1>4, OneSendStep DEF Kinds, Spinning

\* The Refresh button of the orch page.
LEMMA RefreshOrchStep == BInv /\ RefreshOrch => BInv'
<1> SUFFICES ASSUME BInv, RefreshOrch PROVE BInv'
  OBVIOUS
<1>1. /\ authed /\ path \in Orchs /\ path' = path /\ Room(1)
      /\ view' = [view EXCEPT !.refreshing = TRUE]
      /\ Send(<<Ask("refreshOrch", path)>>)
  BY DEF RefreshOrch, PageShown, OnOrch
<1>2. view \in View /\ path \in Orchs \union Pages /\ "refreshOrch" \in KindsOf(path)
  BY <1>1, PageKinds DEF BInv, TypeOK
<1>3. /\ view' \in View /\ view'.rows = view.rows /\ view'.detail = view.detail
      /\ view'.first = view.first /\ view'.loading = view.loading
  BY <1>1, <1>2 DEF View
<1>4. view.rows \/ view.detail.ok \/ view.first => stored
  BY DEF BInv, DataSound, DataNeedsToken
<1> QED
  BY <1>1, <1>2, <1>3, <1>4, OneSendStep DEF Kinds, Spinning

\* The search form is submitted.
LEMMA SearchStep == BInv /\ Search => BInv'
<1> SUFFICES ASSUME BInv, Search PROVE BInv'
  OBVIOUS
<1>1. /\ authed /\ path = "capabilities" /\ path' = path /\ Room(1)
      /\ view' = [Unmounted EXCEPT !.loading = TRUE]
      /\ Send(<<Ask("search", NoOrch)>>)
  BY DEF Search
<1>2. path \in Orchs \union Pages /\ "search" \in KindsOf(path)
  BY <1>1, PageKinds DEF BInv, TypeOK
<1>3. /\ view' \in View /\ ~view'.rows /\ ~view'.detail.ok /\ ~view'.first
      /\ ~view'.refreshing
  BY <1>1 DEF Unmounted, View, NoDetail
<1> QED
  BY <1>1, <1>2, <1>3, OneSendStep DEF Kinds, Loading

\* The sender's Reload button sends both requests again.
LEMMA ReloadSenderStep == BInv /\ ReloadSender => BInv'
<1> SUFFICES ASSUME BInv, ReloadSender PROVE BInv'
  OBVIOUS
<1>1. /\ authed /\ path = "sender" /\ path' = path /\ Room(2)
      /\ view' = Mounted(path) /\ Send(Both)
  BY DEF ReloadSender
<1>2. /\ TypeOK /\ path \in Orchs \union Pages /\ path # "capabilities" /\ path \notin Orchs
      /\ MaxPending \in Nat /\ Len(pending) \in Nat
  BY <1>1, PathFacts DEF BInv, TypeOK
<1>3. PICK qs : qs = Both
  OBVIOUS
<1>4. First(path) = qs
  BY <1>1, <1>3 DEF First
<1>5. /\ qs \in Seq(Request) /\ Len(qs) \in 0 .. 2
      /\ \A j \in 1 .. Len(qs) : qs[j].what \in KindsOf(path) /\ qs[j].token = stored
      /\ 1 \in 1 .. Len(qs) /\ qs[1].what \in {"list", "load", "wallet"}
  BY <1>2, <1>4, FirstFacts
<1>6. "health" \notin KindsOf(path)
  BY DEF KindsOf
<1>7. Proper(qs, path)
  BY <1>1, <1>5, <1>6 DEF Proper
<1>8. Len(pending) + Len(qs) <= MaxPending
  BY <1>1, <1>2, <1>5 DEF Room
<1>9. /\ view' \in View /\ ~view'.rows /\ ~view'.detail.ok /\ ~view'.first
      /\ ~view'.refreshing
  BY <1>1, <1>2, MountedFacts
<1>10. \E m \in 1 .. Len(qs) : qs[m].what \in Loading
  BY <1>5 DEF Loading
<1> QED
  BY <1>1, <1>2, <1>3, <1>5, <1>7, <1>8, <1>9, <1>10, SendStep

\* An element is mounted: what it asks for follows requests that are gone.
LEMMA MountStep ==
    ASSUME BInv, NEW s \in Seq(Request), NEW p \in Orchs \union Pages,
           \A j \in 1 .. Len(s) : s[j].what = "gone",
           pending' = s \o First(p), Len(s) + 2 <= MaxPending,
           authed' = TRUE, checking' = FALSE, stored' = stored,
           path' = p, view' = Mounted(p)
    PROVE  BInv'
<1>1. /\ First(p) \in Seq(Request) /\ Len(First(p)) \in 0 .. 2
      /\ \A j \in 1 .. Len(First(p)) :
           First(p)[j].what \in KindsOf(p) /\ First(p)[j].token = stored
      /\ p # "capabilities" =>
           1 \in 1 .. Len(First(p)) /\ First(p)[1].what \in {"list", "load", "wallet"}
  BY FirstFacts DEF BInv
<1>2. PICK qs : qs = First(p)
  OBVIOUS
<1>3. /\ qs \in Seq(Request) /\ Len(qs) \in 0 .. 2
      /\ \A j \in 1 .. Len(qs) : qs[j].what \in KindsOf(p) /\ qs[j].token = stored
      /\ p # "capabilities" =>
           1 \in 1 .. Len(qs) /\ qs[1].what \in {"list", "load", "wallet"}
      /\ pending' = s \o qs
  BY <1>1, <1>2
<1>4. qs \in Seq(Request)
  BY <1>3
<1>5. /\ s \o qs \in Seq(Request) /\ Len(s \o qs) = Len(s) + Len(qs)
      /\ \A j \in 1 .. Len(s) : (s \o qs)[j] = s[j]
      /\ \A j \in 1 .. Len(qs) : (s \o qs)[Len(s) + j] = qs[j]
  BY <1>4, ConcatFacts
<1>6. /\ pending' \in Seq(Request) /\ Len(pending') = Len(s) + Len(qs)
      /\ \A j \in 1 .. Len(s) : pending'[j] = s[j]
      /\ \A j \in 1 .. Len(qs) : pending'[Len(s) + j] = qs[j]
      /\ Len(s) \in Nat /\ Len(qs) \in Nat /\ MaxPending \in Nat
  BY <1>3, <1>5, SessionAssumption
<1>7. ASSUME NEW j \in 1 .. Len(pending')
      PROVE  \/ pending'[j].what = "gone"
             \/ pending'[j].what \in KindsOf(p) /\ (pending'[j].token => stored)
  <2>1. CASE j \in 1 .. Len(s)
    BY <1>6, <2>1
  <2>2. CASE j \notin 1 .. Len(s)
    <3>1. j - Len(s) \in 1 .. Len(qs) /\ Len(s) + (j - Len(s)) = j
      BY <1>6, <2>2
    <3>2. pending'[j] = qs[j - Len(s)]
      BY <1>6, <3>1
    <3> QED
      BY <1>3, <3>1, <3>2
  <2> QED
    BY <2>1, <2>2
<1>8. stored => MaxPending >= 2
  BY DEF BInv, OneSignIn
<1>9. AllOwned' /\ OneSignIn' /\ AllEntitled' /\ LoggedOutIsClean'
  BY <1>6, <1>7, <1>8, FreshKeeps
<1>10. /\ view' \in View /\ ~view'.rows /\ ~view'.detail.ok /\ ~view'.first
       /\ view'.loading <=> p # "capabilities"
       /\ ~view'.refreshing
  BY MountedFacts
<1>11. view'.loading => \E k \in Loading : k \in PendingKinds'
  <2>1. SUFFICES ASSUME view'.loading PROVE \E k \in Loading : k \in PendingKinds'
    OBVIOUS
  <2>2. PICK j : j = Len(s) + 1
    OBVIOUS
  <2>3. j \in 1 .. Len(pending') /\ pending'[j] = qs[1]
    BY <1>3, <1>6, <1>10, <2>1, <2>2
  <2>4. qs[1].what \in Loading
    BY <1>3, <1>10, <2>1 DEF Loading
  <2> QED
    BY <2>3, <2>4 DEF PendingKinds, Kind
<1>12. SpinnersEnd'
  BY <1>10, <1>11 DEF SpinnersEnd, Loading
<1>13. DataSound'
  BY <1>10 DEF DataSound, DataNeedsToken
<1>14. TypeOK'
  <2>1. stored \in BOOLEAN /\ authed' \in BOOLEAN /\ checking' \in BOOLEAN
    BY DEF BInv, TypeOK
  <2>2. Len(pending') <= MaxPending
    BY <1>3, <1>6
  <2> QED
    BY <1>6, <1>10, <2>1, <2>2 DEF TypeOK
<1> QED
  BY <1>9, <1>12, <1>13, <1>14 DEF BInv

\* Everything is unmounted, and the sign-in, if there is one, goes on.
LEMMA UnmountStep ==
    ASSUME BInv, NEW s \in Seq(Request), Len(s) <= Len(pending), pending' = LeftOf(s),
           authed' = FALSE, stored' = FALSE, checking' \in BOOLEAN,
           \A j, k \in 1 .. Len(s) : s[j].what = "health" /\ s[k].what = "health" => j = k,
           \A j \in 1 .. Len(s) : s[j].what = "health" => checking',
           checking' => checking /\ \E j \in 1 .. Len(s) : s[j].what = "health",
           path' = path, view' = Unmounted
    PROVE  BInv'
<1>1. /\ LeftOf(s) \in Seq(Request) /\ Len(LeftOf(s)) = Len(s)
      /\ \A j \in 1 .. Len(s) :
           LeftOf(s)[j].what = IF s[j].what = "health" THEN "health" ELSE "gone"
  BY LeftFacts
<1>2. /\ pending' \in Seq(Request) /\ Len(pending') = Len(s)
      /\ \A j \in 1 .. Len(s) :
           pending'[j].what = IF s[j].what = "health" THEN "health" ELSE "gone"
  BY <1>1
<1>3. Len(s) \in Nat /\ Len(pending) \in Nat /\ MaxPending \in Nat
  BY SessionAssumption DEF BInv, TypeOK
<1>4. AllOwned' /\ AllEntitled'
  BY <1>2 DEF AllOwned, AllEntitled, Owned, Entitled
<1>5. OneSignIn'
  <2>1. checking' => Len(pending) + 1 <= MaxPending
    BY DEF BInv, OneSignIn
  <2>2. checking' => ~authed' /\ Len(pending') + 1 <= MaxPending
    BY <1>2, <1>3, <2>1
  <2>3. \A j, k \in 1 .. Len(pending') :
          pending'[j].what = "health" /\ pending'[k].what = "health" => j = k
    BY <1>2
  <2> QED
    BY <2>2, <2>3 DEF OneSignIn, Kind
<1>6. SpinnersEnd'
  <2>1. checking' => "health" \in PendingKinds'
    BY <1>2 DEF PendingKinds, Kind
  <2> QED
    BY <2>1, UnmountedFacts DEF SpinnersEnd
<1>7. DataSound' /\ LoggedOutIsClean'
  BY UnmountedFacts DEF DataSound, DataNeedsToken, LoggedOutIsClean
<1>8. TypeOK'
  <2>1. Len(pending') <= MaxPending
    BY <1>2, <1>3 DEF BInv, TypeOK
  <2> QED
    BY <1>2, <2>1, UnmountedFacts DEF BInv, TypeOK
<1> QED
  BY <1>4, <1>5, <1>6, <1>7, <1>8 DEF BInv

\* The operator signs out.
LEMMA SignsOutStep == BInv /\ SignsOut => BInv'
<1> SUFFICES ASSUME BInv, SignsOut PROVE BInv'
  OBVIOUS
<1>1. /\ authed /\ stored' = FALSE /\ authed' = FALSE /\ pending' = LeftOf(pending)
      /\ checking' = checking /\ view' = Unmounted /\ path' = path
  BY DEF SignsOut, SignOut
<1>2. checking = FALSE /\ pending \in Seq(Request) /\ Len(pending) \in Nat
  BY <1>1 DEF BInv, TypeOK, OneSignIn
<1>3. \A j \in 1 .. Len(pending) : pending[j].what # "health"
  <2>1. \A j \in 1 .. Len(pending) : Owned(pending[j])
    BY DEF BInv, AllOwned
  <2> QED
    BY <1>2, <2>1 DEF Owned, KindsOf
<1>4. PICK s : s = pending
  OBVIOUS
<1>5. /\ s \in Seq(Request) /\ Len(s) <= Len(pending) /\ pending' = LeftOf(s)
      /\ \A j \in 1 .. Len(s) : s[j].what # "health"
  BY <1>1, <1>2, <1>3, <1>4
<1> QED
  BY <1>1, <1>2, <1>5, UnmountStep

\* A 401: the storage is cleared and every element is gone.
LEMMA RejectedStep == ASSUME BInv, NEW i \in 1 .. Len(pending), Rejected(i) PROVE BInv'
<1>1. /\ stored' = FALSE /\ authed' = FALSE /\ pending' = LeftOf(Rest(i))
      /\ checking' = (checking /\ Kind(i) # "health")
      /\ view' = Unmounted /\ path' = path
  BY DEF Rejected, Unauthorized
<1>2. pending \in Seq(Request) /\ Len(pending) \in Nat
  BY DEF BInv, TypeOK
<1>3. PICK s : s = Rest(i)
  OBVIOUS
<1>4. /\ s \in Seq(Request) /\ Len(s) = Len(pending) - 1
      /\ \A j \in 1 .. Len(pending) - 1 : s[j] = pending[IF j < i THEN j ELSE j + 1]
  BY <1>2, <1>3, RestFacts
<1>5. ASSUME NEW j \in 1 .. Len(s)
      PROVE  \E a \in 1 .. Len(pending) :
               a = (IF j < i THEN j ELSE j + 1) /\ a # i /\ s[j] = pending[a]
  <2>1. PICK a : a = IF j < i THEN j ELSE j + 1
    OBVIOUS
  <2>2. a \in 1 .. Len(pending) /\ a # i
    BY <1>2, <1>4, <2>1
  <2>3. s[j] = pending[a]
    BY <1>4, <2>1
  <2> QED
    BY <2>1, <2>2, <2>3
<1>6. /\ \A a, b \in 1 .. Len(pending) :
           pending[a].what = "health" /\ pending[b].what = "health" => a = b
      /\ \A a \in 1 .. Len(pending) : pending[a].what = "health" => checking
      /\ checking => \E a \in 1 .. Len(pending) : pending[a].what = "health"
  <2>1. \A a \in 1 .. Len(pending) : Owned(pending[a])
    BY DEF BInv, AllOwned
  <2>2. \A a \in 1 .. Len(pending) : pending[a].what = "health" => checking
    BY <2>1 DEF Owned, KindsOf
  <2> QED
    BY <2>2 DEF BInv, OneSignIn, SpinnersEnd, PendingKinds, Kind
<1>7. ASSUME NEW j \in 1 .. Len(s), NEW k \in 1 .. Len(s),
             s[j].what = "health", s[k].what = "health"
      PROVE  j = k
  <2>1. PICK a \in 1 .. Len(pending) : a = (IF j < i THEN j ELSE j + 1) /\ s[j] = pending[a]
    BY <1>5
  <2>2. PICK b \in 1 .. Len(pending) : b = (IF k < i THEN k ELSE k + 1) /\ s[k] = pending[b]
    BY <1>5
  <2>3. a = b
    BY <1>6, <1>7, <2>1, <2>2
  <2>4. j \in Nat /\ k \in Nat /\ i \in Nat
    BY <1>4
  <2> QED
    BY <2>1, <2>2, <2>3, <2>4
<1>8. \A j \in 1 .. Len(s) : s[j].what = "health" => checking'
  <2> SUFFICES ASSUME NEW j \in 1 .. Len(s), s[j].what = "health" PROVE checking'
    OBVIOUS
  <2>1. PICK a \in 1 .. Len(pending) : a # i /\ s[j] = pending[a]
    BY <1>5
  <2> QED
    BY <1>1, <1>6, <2>1 DEF Kind
<1>9. checking' => checking /\ \E j \in 1 .. Len(s) : s[j].what = "health"
  <2> SUFFICES ASSUME checking' PROVE checking /\ \E j \in 1 .. Len(s) : s[j].what = "health"
    OBVIOUS
  <2>1. checking /\ pending[i].what # "health"
    BY <1>1 DEF Kind
  <2>2. PICK a \in 1 .. Len(pending) : pending[a].what = "health"
    BY <1>6, <2>1
  <2>3. a # i
    BY <2>1, <2>2
  <2>4. PICK j : j = IF a < i THEN a ELSE a - 1
    OBVIOUS
  <2>5. j \in 1 .. Len(pending) - 1 /\ (IF j < i THEN j ELSE j + 1) = a
    BY <1>2, <2>3, <2>4
  <2>6. s[j] = pending[a]
    BY <1>4, <2>5
  <2> QED
    BY <1>4, <2>1, <2>2, <2>5, <2>6
<1>10. Len(s) <= Len(pending) /\ checking' \in BOOLEAN
  BY <1>1, <1>2, <1>4
<1>11. pending' = LeftOf(s)
  BY <1>1, <1>3
<1>12. s \in Seq(Request)
  BY <1>4
<1> QED
  BY <1>1, <1>7, <1>8, <1>9, <1>10, <1>11, <1>12, UnmountStep

\* The sign-in's answer: the element of the open page is mounted.
LEMMA EnteredStep ==
    ASSUME BInv, NEW i \in 1 .. Len(pending), NEW verdict, Entered(i, verdict)
    PROVE  BInv'
<1>1. /\ Kind(i) = "health" /\ authed' = TRUE /\ checking' = FALSE
      /\ pending' = Rest(i) \o First(path) /\ stored' = stored
      /\ view' = Mounted(path) /\ path' = path
  BY DEF Entered, SignedIn
<1>2. pending \in Seq(Request) /\ Len(pending) \in Nat /\ path \in Orchs \union Pages
  BY DEF BInv, TypeOK
<1>3. PICK s, p : s = Rest(i) /\ p = path
  OBVIOUS
<1>4. /\ s \in Seq(Request) /\ Len(s) = Len(pending) - 1
      /\ \A j \in 1 .. Len(pending) - 1 : s[j] = pending[IF j < i THEN j ELSE j + 1]
  BY <1>2, <1>3, RestFacts
<1>5. \A a \in 1 .. Len(pending) : Owned(pending[a])
  BY DEF BInv, AllOwned
<1>6. checking /\ ~authed /\ Len(pending) + 1 <= MaxPending
  <2>1. checking
    BY <1>1, <1>5 DEF Owned, Kind, KindsOf
  <2> QED
    BY <2>1 DEF BInv, OneSignIn
<1>7. \A a \in 1 .. Len(pending) : a # i => pending[a].what = "gone"
  <2>1. \A a \in 1 .. Len(pending) : a # i => pending[a].what # "health"
    BY <1>1 DEF BInv, OneSignIn, Kind
  <2> QED
    BY <1>5, <1>6, <2>1 DEF Owned
<1>8. ASSUME NEW j \in 1 .. Len(s) PROVE s[j].what = "gone"
  <2>1. PICK a : a = IF j < i THEN j ELSE j + 1
    OBVIOUS
  <2>2. a \in 1 .. Len(pending) /\ a # i
    BY <1>2, <1>4, <2>1
  <2>3. s[j] = pending[a]
    BY <1>4, <2>1
  <2> QED
    BY <1>7, <2>2, <2>3
<1>9. Len(s) + 2 <= MaxPending
  BY <1>2, <1>4, <1>6, SessionAssumption
<1>10. s \in Seq(Request) /\ p \in Orchs \union Pages
  BY <1>2, <1>3, <1>4
<1> QED
  BY <1>1, <1>3, <1>8, <1>9, <1>10, MountStep

\* The form is submitted.
LEMMA SignInStep == BInv /\ SignIn => BInv'
<1> SUFFICES ASSUME BInv, SignIn PROVE BInv'
  OBVIOUS
<1>1. /\ ~authed /\ ~checking /\ Len(pending) + 2 <= MaxPending
      /\ stored' = TRUE /\ checking' = TRUE /\ authed' = authed
      /\ pending' = Append(pending, [Ask("health", NoOrch) EXCEPT !.token = TRUE])
      /\ path' = path /\ view' = view
  BY DEF SignIn, Submit, Room
<1>2. /\ pending \in Seq(Request) /\ Len(pending) \in Nat /\ MaxPending \in Nat
      /\ authed \in BOOLEAN /\ view = Unmounted /\ path \in Orchs \union Pages
  BY <1>1, SessionAssumption DEF BInv, TypeOK
<1>3. PICK q : q = [Ask("health", NoOrch) EXCEPT !.token = TRUE]
  OBVIOUS
<1>4. q \in Request /\ q.what = "health"
  <2>1. PICK a : a = Ask("health", NoOrch)
    OBVIOUS
  <2>2. a \in Request /\ a.what = "health"
    BY <2>1, AskFacts DEF BInv, Kinds
  <2>3. q = [a EXCEPT !.token = TRUE]
    BY <1>3, <2>1
  <2> QED
    BY <2>2, <2>3 DEF Request
<1>5. PICK n : n = Len(pending)
  OBVIOUS
<1>6. /\ pending' \in Seq(Request) /\ Len(pending') = n + 1 /\ n \in Nat
      /\ n + 2 <= MaxPending
      /\ \A j \in 1 .. n : pending'[j] = pending[j]
      /\ pending'[n + 1] = q
  BY <1>1, <1>2, <1>3, <1>4, <1>5
<1>7. \A j \in 1 .. n : pending[j].what = "gone"
  <2>1. \A j \in 1 .. n : Owned(pending[j])
    BY <1>5 DEF BInv, AllOwned
  <2> QED
    BY <1>1, <2>1 DEF Owned
<1>8. ASSUME NEW j \in 1 .. n + 1
      PROVE  IF j = n + 1 THEN pending'[j].what = "health" ELSE pending'[j].what = "gone"
  <2>1. CASE j = n + 1
    BY <1>4, <1>6, <2>1
  <2>2. CASE j # n + 1
    <3>1. j \in 1 .. n
      BY <1>6, <2>2
    <3> QED
      BY <1>6, <1>7, <2>2, <3>1
  <2> QED
    BY <2>1, <2>2
<1>9. AllOwned' /\ AllEntitled'
  BY <1>1, <1>6, <1>8 DEF AllOwned, AllEntitled, Owned, Entitled
<1>10. OneSignIn'
  <2>1. \A j \in 1 .. n + 1 : pending'[j].what = "health" => j = n + 1
    BY <1>8
  <2>2. \A j, k \in 1 .. Len(pending') :
          pending'[j].what = "health" /\ pending'[k].what = "health" => j = k
    BY <1>6, <2>1
  <2>3. Len(pending') + 1 <= MaxPending /\ MaxPending >= 2
    BY <1>2, <1>6
  <2> QED
    BY <1>1, <2>2, <2>3 DEF OneSignIn, Kind
<1>11. SpinnersEnd'
  <2>1. n + 1 \in 1 .. Len(pending') /\ pending'[n + 1].what = "health"
    BY <1>4, <1>6
  <2>2. "health" \in PendingKinds'
    BY <2>1 DEF PendingKinds, Kind
  <2> QED
    BY <1>1, <1>2, <2>2, UnmountedFacts DEF SpinnersEnd
<1>12. DataSound' /\ LoggedOutIsClean'
  BY <1>1, <1>2, UnmountedFacts DEF DataSound, DataNeedsToken, LoggedOutIsClean
<1>13. TypeOK'
  <2>1. Len(pending') <= MaxPending
    BY <1>2, <1>6
  <2> QED
    BY <1>1, <1>2, <1>6, <2>1, UnmountedFacts DEF TypeOK
<1> QED
  BY <1>9, <1>10, <1>11, <1>12, <1>13 DEF BInv

\* The browser reloads the page: signed in again, or the form.
LEMMA ReopenStep == BInv /\ Reopen => BInv'
<1> SUFFICES ASSUME BInv, Reopen PROVE BInv'
  OBVIOUS
<1>1. /\ authed' = stored /\ checking' = FALSE /\ stored' = stored /\ path' = path
      /\ pending' = IF stored THEN First(path) ELSE <<>>
      /\ view' = IF stored THEN Mounted(path) ELSE Unmounted
  BY DEF Reopen, BrowserReload
<1>2. /\ path \in Orchs \union Pages /\ stored \in BOOLEAN /\ TypeOK
      /\ MaxPending \in Nat /\ Len(pending) \in Nat
  BY SessionAssumption DEF BInv, TypeOK
<1>3. PICK s : s = <<>>
  OBVIOUS
<1>4. s \in Seq(Request) /\ Len(s) = 0 /\ \A j \in 1 .. Len(s) : FALSE
  BY <1>3
<1>5. CASE stored
  <2>1. PICK p : p = path
    OBVIOUS
  <2>2. First(p) \in Seq(Request)
    BY <1>2, <2>1, FirstFacts
  <2>3. pending' = s \o First(p)
    <3>1. s \o First(p) = First(p)
      BY <1>3, <2>2, ConcatEmptySeq
    <3> QED
      BY <1>1, <1>5, <2>1, <3>1
  <2>4. Len(s) + 2 <= MaxPending
    <3>1. MaxPending >= 2
      BY <1>5 DEF BInv, OneSignIn
    <3> QED
      BY <1>2, <1>4, <3>1
  <2>5. /\ authed' = TRUE /\ checking' = FALSE /\ stored' = stored
        /\ path' = p /\ view' = Mounted(p) /\ p \in Orchs \union Pages
    BY <1>1, <1>2, <1>5, <2>1
  <2> QED
    BY <1>4, <2>3, <2>4, <2>5, MountStep
<1>6. CASE ~stored
  <2>1. pending' = LeftOf(s)
    <3>1. LeftOf(s) \in Seq(Request) /\ Len(LeftOf(s)) = 0
      BY <1>4, LeftFacts
    <3>2. LeftOf(s) = <<>>
      BY <3>1, EmptySeq
    <3> QED
      BY <1>1, <1>6, <3>2
  <2>2. /\ authed' = FALSE /\ stored' = FALSE /\ checking' = FALSE
        /\ path' = path /\ view' = Unmounted /\ Len(s) <= Len(pending)
    BY <1>1, <1>2, <1>4, <1>6
  <2> QED
    BY <1>4, <2>1, <2>2, UnmountStep
<1> QED
  BY <1>5, <1>6

\* The hash changes.
LEMMA NavigateStep ==
    ASSUME BInv, NEW p \in Orchs \union Pages, Navigate(p)
    PROVE  BInv'
<1>1. path' = p
  BY DEF Navigate
<1>2. /\ path \in Orchs \union Pages /\ TypeOK /\ view \in View
      /\ pending \in Seq(Request) /\ Len(pending) \in Nat /\ MaxPending \in Nat
      /\ Len(pending) <= MaxPending
      /\ stored \in BOOLEAN /\ authed \in BOOLEAN /\ checking \in BOOLEAN
  BY SessionAssumption DEF BInv, TypeOK
<1>3. CASE ~authed /\ UNCHANGED <<sessionVars, view>>
  <2>1. /\ stored' = stored /\ authed' = authed /\ checking' = checking
        /\ pending' = pending /\ view' = view
    BY <1>3 DEF sessionVars
  <2>2. AllOwned' /\ AllEntitled' /\ OneSignIn'
    BY <1>3, <2>1 DEF BInv, AllOwned, AllEntitled, OneSignIn, Owned, Entitled, Kind
  <2>3. SpinnersEnd' /\ DataSound' /\ LoggedOutIsClean'
    BY <2>1 DEF BInv, SpinnersEnd, DataSound, DataNeedsToken, LoggedOutIsClean,
       PendingKinds, Kind
  <2>4. TypeOK'
    BY <1>1, <1>2, <2>1 DEF TypeOK
  <2> QED
    BY <2>2, <2>3, <2>4 DEF BInv
<1>4. CASE /\ authed /\ Room(2) /\ view' = Mounted(p)
           /\ pending' = LeftOf(pending) \o First(p)
           /\ UNCHANGED <<stored, authed, checking>>
  <2>1. checking = FALSE
    BY <1>2, <1>4 DEF BInv, OneSignIn
  <2>2. \A j \in 1 .. Len(pending) : pending[j].what # "health"
    <3>1. \A j \in 1 .. Len(pending) : Owned(pending[j])
      BY DEF BInv, AllOwned
    <3> QED
      BY <2>1, <3>1 DEF Owned, KindsOf
  <2>3. PICK s : s = LeftOf(pending)
    OBVIOUS
  <2>4. /\ s \in Seq(Request) /\ Len(s) = Len(pending)
        /\ \A j \in 1 .. Len(s) : s[j].what = "gone"
    BY <1>2, <2>2, <2>3, LeftFacts
  <2>5. s \in Seq(Request) /\ Len(s) + 2 <= MaxPending
    BY <1>4, <2>4 DEF Room
  <2>6. /\ authed' = TRUE /\ checking' = FALSE /\ stored' = stored
        /\ pending' = s \o First(p)
    BY <1>2, <1>4, <2>1, <2>3
  <2> QED
    BY <1>1, <1>4, <2>4, <2>5, <2>6, MountStep
<1>5. CASE /\ authed /\ {p, path} \subseteq Orchs /\ Room(1)
           /\ view' = LoadStart(view, p) /\ Send(<<Ask("load", p)>>)
  <2>1. p \in Orchs /\ path \in Orchs
    BY <1>5
  <2>2. KindsOf(p) = KindsOf(path) /\ "load" \in KindsOf(p)
    BY <2>1, KindFacts
  <2>3. view.rows \/ view.detail.ok \/ view.first => stored
    BY DEF BInv, DataSound, DataNeedsToken
  <2>4. /\ view' \in View /\ ~view'.detail.ok /\ view'.rows = view.rows
        /\ view'.first = view.first /\ view'.refreshing = view.refreshing
    BY <1>2, <1>5, <2>1, LoadStartFacts
  <2> QED
    BY <1>1, <1>5, <2>1, <2>2, <2>3, <2>4, OneSendStep DEF Kinds, Loading
<1> QED
  BY <1>3, <1>4, <1>5 DEF Navigate

----------------------------------------------------------------------------
(* What the panel or the page will show in the end.                        *)

\* Nothing is left to write but what is about o.
LEMMA ZeroDue ==
    ASSUME pending' \in Seq(Request), NEW o, NEW c, c,
           \A j \in 1 .. Len(pending') :
             pending'[j].what \in Detailing => pending'[j].orch = o
    PROVE  Due(o, c)'
<1>1. Len(pending') \in Nat
  OBVIOUS
<1>2. 0 \in 0 .. Len(pending') /\ 0 + 1 = 1
  BY <1>1
<1> QED
  BY <1>2 DEF Due, Kind

\* The last request is sure to write about o.
LEMMA LastDue ==
    ASSUME pending' \in Seq(Request), NEW o, NEW c, Len(pending') # 0,
           pending'[Len(pending')].what \in Sure, pending'[Len(pending')].orch = o
    PROVE  Due(o, c)'
<1>1. Len(pending') \in Nat
  OBVIOUS
<1>2. /\ Len(pending') \in 0 .. Len(pending')
      /\ Len(pending') + 1 .. Len(pending') = {}
  BY <1>1
<1> QED
  BY <1>2 DEF Due, Kind

\* The one that is sure to write is still there.
LEMMA ShiftDue ==
    ASSUME pending \in Seq(Request), NEW qs \in Seq(Request), NEW i, NEW n, Moves(i, n, qs),
           NEW o, NEW c, NEW m \in 1 .. Len(pending), m # i,
           Kind(m) \in Sure, pending[m].orch = o,
           \A j \in m + 1 .. Len(pending) : Kind(j) \in Detailing => pending[j].orch = o,
           \A j \in 1 .. Len(qs) : qs[j].what \in Detailing => qs[j].orch = o
    PROVE  Due(o, c)'
<1>1. /\ Len(pending) \in Nat /\ Len(qs) \in Nat /\ i \in Nat /\ n \in Nat
      /\ Len(pending') = n + Len(qs)
      /\ \/ i \in 1 .. Len(pending) /\ n = Len(pending) - 1
         \/ i = Len(pending) + 1 /\ n = Len(pending)
      /\ \A j \in 1 .. n : pending'[j] = pending[IF j < i THEN j ELSE j + 1]
      /\ \A j \in 1 .. Len(qs) : pending'[n + j] = qs[j]
  <2>1. Len(pending) \in Nat /\ Len(qs) \in Nat
    OBVIOUS
  <2> QED
    BY <2>1 DEF Moves
<1>2. PICK k : k = IF m < i THEN m ELSE m - 1
  OBVIOUS
<1>3. /\ k \in 1 .. n /\ k \in 0 .. Len(pending') /\ k # 0
      /\ (IF k < i THEN k ELSE k + 1) = m
  <2>1. m \in Nat /\ 1 <= m /\ m <= Len(pending)
    BY <1>1
  <2>2. CASE m < i
    BY <1>1, <1>2, <2>1, <2>2
  <2>3. CASE m > i
    BY <1>1, <1>2, <2>1, <2>3
  <2> QED
    BY <1>1, <2>1, <2>2, <2>3
<1>4. pending'[k].what \in Sure /\ pending'[k].orch = o
  BY <1>1, <1>3 DEF Kind
<1>5. ASSUME NEW j \in k + 1 .. Len(pending'), pending'[j].what \in Detailing
      PROVE  pending'[j].orch = o
  <2>1. CASE j \in 1 .. n
    <3>1. PICK l : l = IF j < i THEN j ELSE j + 1
      OBVIOUS
    <3>2. l \in m + 1 .. Len(pending)
      BY <1>1, <1>2, <1>3, <2>1, <3>1
    <3>3. pending'[j] = pending[l]
      BY <1>1, <2>1, <3>1
    <3> QED
      BY <1>5, <3>2, <3>3 DEF Kind
  <2>2. CASE j \notin 1 .. n
    <3>1. j - n \in 1 .. Len(qs) /\ n + (j - n) = j
      BY <1>1, <1>3, <2>2
    <3>2. pending'[j] = qs[j - n]
      BY <1>1, <3>1
    <3> QED
      BY <1>5, <3>1, <3>2
  <2> QED
    BY <2>1, <2>2
<1> QED
  BY <1>3, <1>4, <1>5 DEF Due, Kind

\* Requests that write nothing are answered or sent, or one that is about o
\* is sent.
LEMMA KeepDue ==
    ASSUME pending \in Seq(Request), NEW qs \in Seq(Request), NEW i, NEW n, Moves(i, n, qs),
           NEW o, NEW b, NEW c, Due(o, b), b => c,
           i \in 1 .. Len(pending) => Kind(i) \notin Detailing,
           \A j \in 1 .. Len(qs) : qs[j].what \in Detailing => qs[j].orch = o
    PROVE  Due(o, c)'
<1>0. \A j \in 1 .. Len(pending') :
         \/ \E l \in 1 .. Len(pending) : l # i /\ pending'[j] = pending[l]
         \/ \E l \in 1 .. Len(qs) : pending'[j] = qs[l]
  BY ONLY pending \in Seq(Request), qs \in Seq(Request), Moves(i, n, qs), MovesFacts
<1>1. PICK m \in 0 .. Len(pending) :
         /\ \A j \in m + 1 .. Len(pending) : Kind(j) \in Detailing => pending[j].orch = o
         /\ \/ m = 0 /\ b
            \/ m # 0 /\ Kind(m) \in Sure /\ pending[m].orch = o
  BY DEF Due
<1>2. CASE m = 0
  <2>1. \A j \in 1 .. Len(pending) : pending[j].what \in Detailing => pending[j].orch = o
    BY <1>1, <1>2 DEF Kind
  <2>3. ASSUME NEW j \in 1 .. Len(pending'), pending'[j].what \in Detailing
        PROVE  pending'[j].orch = o
    <3>1. CASE \E l \in 1 .. Len(pending) : pending'[j] = pending[l]
      BY <2>1, <2>3, <3>1
    <3>2. CASE \E l \in 1 .. Len(qs) : pending'[j] = qs[l]
      BY <2>3, <3>2
    <3> QED
      BY <1>0, <3>1, <3>2
  <2>4. c
    BY <1>1, <1>2
  <2> QED
    BY ONLY <2>3, <2>4, Moves(i, n, qs), ZeroDue DEF Moves
<1>3. CASE m # 0
  <2>1. m \in 1 .. Len(pending)
    <3>1. Len(pending) \in Nat
      OBVIOUS
    <3> QED
      BY <1>1, <1>3, <3>1
  <2>2. m # i
    BY <1>1, <1>3, <2>1 DEF Sure, Detailing
  <2>3. /\ Kind(m) \in Sure /\ pending[m].orch = o
        /\ \A j \in m + 1 .. Len(pending) : Kind(j) \in Detailing => pending[j].orch = o
    BY <1>1, <1>3
  <2>4. \A j \in 1 .. Len(qs) : qs[j].what \in Detailing => qs[j].orch = o
    OBVIOUS
  <2> QED
    BY <2>1, <2>2, <2>3, <2>4, ShiftDue, SMTT(30)
<1> QED
  BY <1>2, <1>3

\* The oldest request that writes is answered, and leaves c of its own or,
\* about o, of the base there was.
LEMMA AnswerDue ==
    ASSUME pending \in Seq(Request), NEW qs \in Seq(Request),
           NEW i \in 1 .. Len(pending), NEW n, Moves(i, n, qs),
           NEW o, NEW b, NEW c, Due(o, b), Kind(i) \in Detailing, ~Overtakes(i),
           Kind(i) \in Sure /\ pending[i].orch = o => c,
           b /\ pending[i].orch = o => c,
           \A j \in 1 .. Len(qs) : qs[j].what \notin Detailing
    PROVE  Due(o, c)'
<1>1. PICK m \in 0 .. Len(pending) :
         /\ \A j \in m + 1 .. Len(pending) : Kind(j) \in Detailing => pending[j].orch = o
         /\ \/ m = 0 /\ b
            \/ m # 0 /\ Kind(m) \in Sure /\ pending[m].orch = o
  BY DEF Due
<1>2. Len(pending) \in Nat /\ i \in Nat /\ m \in Nat
  OBVIOUS
<1>3. \A j \in 1 .. Len(pending') :
         \/ \E l \in 1 .. Len(pending) : l # i /\ pending'[j] = pending[l]
         \/ \E l \in 1 .. Len(qs) : pending'[j] = qs[l]
  BY MovesFacts
<1>4. \A j \in 1 .. i - 1 : Kind(j) \notin Detailing
  BY DEF Overtakes
<1>5. pending' \in Seq(Request)
  BY DEF Moves
<1>6. CASE i < m
  <2>1. m \in 1 .. Len(pending) /\ m # i /\ m # 0
    BY <1>2, <1>6
  <2> QED
    BY <1>1, <2>1, ShiftDue
<1>7. CASE i >= m
  <2>1. m = 0 \/ m = i
    <3>1. ASSUME m # 0, m # i PROVE FALSE
      <4>1. m \in 1 .. i - 1
        BY <1>2, <1>7, <3>1
      <4> QED
        BY <1>1, <1>4, <3>1, <4>1 DEF Sure, Detailing
    <3> QED
      BY <3>1
  <2>2. c
    <3>1. CASE m = 0
      <4>1. i \in m + 1 .. Len(pending)
        BY <1>2, <3>1
      <4> QED
        BY <1>1, <3>1, <4>1
    <3>2. CASE m = i
      BY <1>1, <1>2, <3>2
    <3> QED
      BY <2>1, <3>1, <3>2
  <2>3. \A l \in 1 .. Len(pending) :
          l # i /\ pending[l].what \in Detailing => pending[l].orch = o
    <3> SUFFICES ASSUME NEW l \in 1 .. Len(pending), l # i, Kind(l) \in Detailing
                 PROVE  pending[l].orch = o
      BY DEF Kind
    <3>1. ~(l \in 1 .. i - 1)
      BY <1>4
    <3>2. l \in m + 1 .. Len(pending)
      BY <1>2, <1>7, <3>1
    <3> QED
      BY <1>1, <3>2
  <2>4. \A j \in 1 .. Len(pending') : pending'[j].what \in Detailing => pending'[j].orch = o
    BY <1>3, <2>3
  <2> QED
    BY <1>5, <2>2, <2>4, ZeroDue
<1> QED
  BY <1>2, <1>6, <1>7

\* No panel and no orch page is open afterwards.
LEMMA AwaySettles ==
    ASSUME authed' => path' \in {"sender", "capabilities"}
    PROVE  SInv'
<1>1. ~OnRouting' /\ ~OnOrch'
  BY PagesAssumption DEF OnRouting, OnOrch, Pages
<1> QED
  BY <1>1 DEF SInv, PanelDue, PageDue

\* A step that writes nothing into the detail, and sends what is about the
\* subject if it will.
LEMMA IdleSettles ==
    ASSUME BInv, SInv, NEW qs \in Seq(Request), NEW i, NEW n, Moves(i, n, qs),
           authed' = authed, path' = path, view'.subject = view.subject,
           view'.detail = view.detail, view'.overtaken = view.overtaken,
           OnOrch /\ view.error => view'.error,
           i \in 1 .. Len(pending) => Kind(i) \notin Detailing,
           \A j \in 1 .. Len(qs) : qs[j].what \in Detailing =>
              /\ OnRouting => qs[j].orch = view.subject
              /\ OnOrch => qs[j].orch = path
    PROVE  SInv'
<1>1. pending \in Seq(Request)
  BY DEF BInv, TypeOK
<1>2. (OnRouting' <=> OnRouting) /\ (OnOrch' <=> OnOrch)
  BY DEF OnRouting, OnOrch
<1>3. PanelDue'
  <2> SUFFICES ASSUME OnRouting, ~view.overtaken, view.subject # NoOrch
               PROVE  Due(view.subject, view.detail.orch = view.subject)'
    BY <1>2 DEF PanelDue
  <2>1. PICK o, c : o = view.subject /\ c = (view.detail.orch = view.subject)
    OBVIOUS
  <2>2. Due(o, c)
    BY <2>1 DEF SInv, PanelDue
  <2>3. \A j \in 1 .. Len(qs) : qs[j].what \in Detailing => qs[j].orch = o
    BY <2>1
  <2>4. Due(o, c)'
    BY <1>1, <2>2, <2>3, KeepDue
  <2> QED
    BY <2>1, <2>4 DEF Due
<1>4. PageDue'
  <2> SUFFICES ASSUME OnOrch, ~view.overtaken
               PROVE  Due(path, view.error \/ view.detail.orch = path)'
    BY <1>2 DEF PageDue
  <2>1. PICK o, b, c : /\ o = path
                       /\ b = (view.error \/ view.detail.orch = path)
                       /\ c = (view'.error \/ view.detail.orch = path)
    OBVIOUS
  <2>2. Due(o, b) /\ (b => c)
    BY <2>1 DEF SInv, PageDue
  <2>3. \A j \in 1 .. Len(qs) : qs[j].what \in Detailing => qs[j].orch = o
    BY <2>1
  <2>4. Due(o, c)'
    BY <1>1, <2>2, <2>3, KeepDue
  <2> QED
    BY <2>1, <2>4 DEF Due
<1> QED
  BY <1>3, <1>4 DEF SInv

\* An answer that may be written into the detail.
LEMMA WriteSettles ==
    ASSUME BInv, SInv, NEW qs \in Seq(Request), NEW i \in 1 .. Len(pending), NEW n,
           Moves(i, n, qs), Kind(i) \in Detailing,
           authed' = authed, path' = path, view'.subject = view.subject,
           ~view'.overtaken => ~view.overtaken /\ ~Overtakes(i),
           \A j \in 1 .. Len(qs) : qs[j].what \notin Detailing,
           OnRouting /\ pending[i].orch = view.subject
             /\ (Kind(i) \in Sure \/ view.detail.orch = view.subject) =>
               view'.detail.orch = view.subject,
           OnOrch /\ pending[i].orch = path =>
               view'.error \/ view'.detail.orch = path
    PROVE  SInv'
<1>1. pending \in Seq(Request)
  BY DEF BInv, TypeOK
<1>2. (OnRouting' <=> OnRouting) /\ (OnOrch' <=> OnOrch)
  BY DEF OnRouting, OnOrch
<1>3. PanelDue'
  <2> SUFFICES ASSUME OnRouting, ~view'.overtaken, view.subject # NoOrch
               PROVE  Due(view.subject, view.detail.orch = view.subject)'
    BY <1>2 DEF PanelDue
  <2>1. PICK o, b, c : /\ o = view.subject
                       /\ b = (view.detail.orch = view.subject)
                       /\ c = (view'.detail.orch = view.subject)
    OBVIOUS
  <2>2. Due(o, b)
    BY <2>1 DEF SInv, PanelDue
  <2>3. /\ Kind(i) \in Sure /\ pending[i].orch = o => c
        /\ b /\ pending[i].orch = o => c
    BY <2>1
  <2>4. Due(o, c)'
    BY <1>1, <2>2, <2>3, AnswerDue
  <2> QED
    BY <2>1, <2>4 DEF Due
<1>4. PageDue'
  <2> SUFFICES ASSUME OnOrch, ~view'.overtaken
               PROVE  Due(path, view.error \/ view.detail.orch = path)'
    BY <1>2 DEF PageDue
  <2>1. PICK o, b, c : /\ o = path
                       /\ b = (view.error \/ view.detail.orch = path)
                       /\ c = (view'.error \/ view'.detail.orch = path)
    OBVIOUS
  <2>2. Due(o, b)
    BY <2>1 DEF SInv, PageDue
  <2>3. /\ Kind(i) \in Sure /\ pending[i].orch = o => c
        /\ b /\ pending[i].orch = o => c
    BY <2>1
  <2>4. Due(o, c)'
    BY <1>1, <2>2, <2>3, AnswerDue
  <2> QED
    BY <2>1, <2>4 DEF Due
<1> QED
  BY <1>3, <1>4 DEF SInv

\* The last request that is sent is for the orch that is wanted.
LEMMA LastSettles ==
    ASSUME pending' \in Seq(Request), Len(pending') # 0,
           NEW o, pending'[Len(pending')].what \in Sure,
           pending'[Len(pending')].orch = o,
           OnRouting' => view'.subject = o, OnOrch' => path' = o
    PROVE  SInv'
<1>1. PanelDue'
  <2> SUFFICES ASSUME OnRouting' PROVE Due(view.subject, view.detail.orch = view.subject)'
    BY DEF PanelDue
  <2>1. PICK c : c = (view'.detail.orch = view'.subject)
    OBVIOUS
  <2>2. Due(o, c)'
    BY LastDue
  <2> QED
    BY <2>1, <2>2 DEF Due
<1>2. PageDue'
  <2> SUFFICES ASSUME OnOrch' PROVE Due(path, view.error \/ view.detail.orch = path)'
    BY DEF PageDue
  <2>1. PICK c : c = (view'.error \/ view'.detail.orch = path')
    OBVIOUS
  <2>2. Due(o, c)'
    BY LastDue
  <2> QED
    BY <2>1, <2>2 DEF Due
<1> QED
  BY <1>1, <1>2 DEF SInv

\* One request for o is sent last, by a click or by a function that goes on.
LEMMA SentSettles ==
    ASSUME BInv, NEW what \in Sure, NEW o \in Orchs \union {NoOrch}, NEW i, NEW n,
           NEW qs, qs = <<Ask(what, o)>>, Moves(i, n, qs),
           OnRouting' => view'.subject = o, OnOrch' => path' = o
    PROVE  SInv'
<1>1. what \in Kinds
  BY DEF Sure, Kinds
<1>2. Ask(what, o).what = what /\ Ask(what, o).orch = o
  BY <1>1, AskFacts DEF BInv
<1>3. /\ Len(qs) = 1 /\ qs[1] = Ask(what, o)
  OBVIOUS
<1>4. Len(pending) \in Nat
  BY DEF BInv, TypeOK
<1>5. /\ pending' \in Seq(Request) /\ n \in Nat /\ Len(pending') = n + 1
      /\ pending'[n + 1] = qs[1]
  BY <1>3, <1>4 DEF Moves
<1>6. Len(pending') # 0 /\ pending'[Len(pending')] = qs[1]
  BY <1>5
<1> QED
  BY <1>2, <1>3, <1>5, <1>6, LastSettles

\* An element is mounted.
LEMMA MountSettles ==
    ASSUME BInv, NEW s \in Seq(Request), NEW p \in Orchs \union Pages,
           pending' = s \o First(p), path' = p, view' = Mounted(p)
    PROVE  SInv'
<1>1. /\ Mounted(p).subject = IF p \in Pages THEN NoOrch ELSE p
  BY DEF Mounted, Unmounted
<1>2. CASE p \in Pages
  <2>1. view'.subject = NoOrch /\ ~OnOrch'
    BY <1>1, <1>2, PathFacts DEF OnOrch
  <2> QED
    BY <2>1 DEF SInv, PanelDue, PageDue
<1>3. CASE p \notin Pages
  <2>1. p \in Orchs /\ ~OnRouting'
    BY <1>3, PathFacts DEF OnRouting
  <2>2. First(p) = <<Ask("load", p), Ask("load", p)>>
    BY <1>3, <2>1, PathFacts DEF First
  <2>3. PICK q : q = Ask("load", p)
    OBVIOUS
  <2>4. q \in Request /\ q.what = "load" /\ q.orch = p
    BY <2>1, <2>3, AskFacts DEF BInv, Kinds
  <2>5. PICK t : t = First(p)
    OBVIOUS
  <2>6. t \in Seq(Request) /\ Len(t) = 2 /\ t[2] = q
    BY <2>2, <2>3, <2>4, <2>5
  <2>7. t \in Seq(Request) /\ Len(s) \in Nat
    BY <2>6
  <2>8. /\ s \o t \in Seq(Request) /\ Len(s \o t) = Len(s) + Len(t)
        /\ \A j \in 1 .. Len(t) : (s \o t)[Len(s) + j] = t[j]
    BY <2>7, ConcatFacts
  <2>9. /\ pending' \in Seq(Request) /\ Len(pending') # 0
        /\ pending'[Len(pending')] = q
    BY <2>5, <2>6, <2>7, <2>8
  <2> QED
    BY <2>1, <2>4, <2>9, LastSettles DEF Sure
<1> QED
  BY <1>2, <1>3

\* What a step does to the requests under way, in the terms of Moves.
LEMMA AnsweredMoves ==
    ASSUME BInv, NEW i \in 1 .. Len(pending), NEW qs \in Seq(Request), Answered(i, qs)
    PROVE  /\ Moves(i, Len(pending) - 1, qs) /\ authed' = authed
           /\ pending \in Seq(Request)
  BY RestMoves DEF Answered, BInv, TypeOK

\* The same of what is sent.
LEMMA SentMoves ==
    ASSUME BInv, NEW qs \in Seq(Request), Send(qs)
    PROVE  /\ Moves(Len(pending) + 1, Len(pending), qs) /\ authed' = authed
           /\ ~(Len(pending) + 1 \in 1 .. Len(pending))
<1>1. pending \in Seq(Request) /\ Len(pending) \in Nat
  BY DEF BInv, TypeOK
<1> QED
  BY <1>1, SendMoves DEF Send

\* The request that is sent.
LEMMA OneAsk ==
    ASSUME BInv, NEW what \in Kinds, NEW orch \in Orchs \union {NoOrch},
           NEW qs, qs = <<Ask(what, orch)>>
    PROVE  /\ qs \in Seq(Request)
           /\ \A j \in 1 .. Len(qs) : qs[j].what = what /\ qs[j].orch = orch
<1>1. PICK q : q = Ask(what, orch)
  OBVIOUS
<1>2. q \in Request /\ q.what = what /\ q.orch = orch
  BY <1>1, AskFacts DEF BInv
<1>3. qs = <<q>>
  BY <1>1
<1> QED
  BY <1>2, <1>3

\* A click sends what writes no detail, and changes none.
LEMMA ClickSettles ==
    ASSUME BInv, SInv, NEW what \in Kinds \ Detailing, NEW orch \in Orchs \union {NoOrch},
           Send(<<Ask(what, orch)>>), path' = path,
           view'.subject = view.subject, view'.detail = view.detail,
           view'.overtaken = view.overtaken, OnOrch /\ view.error => view'.error
    PROVE  SInv'
<1>0. what \in Kinds
  OBVIOUS
<1>1. PICK qs : qs = <<Ask(what, orch)>>
  OBVIOUS
<1>2. /\ qs \in Seq(Request)
      /\ \A j \in 1 .. Len(qs) : qs[j].what = what /\ qs[j].orch = orch
  BY ONLY BInv, <1>0, <1>1, orch \in Orchs \union {NoOrch}, OneAsk
<1>3. qs \in Seq(Request)
  BY <1>2
<1>4. /\ Moves(Len(pending) + 1, Len(pending), qs) /\ authed' = authed
      /\ ~(Len(pending) + 1 \in 1 .. Len(pending))
  BY <1>1, <1>3, SentMoves
<1> QED
  BY <1>2, <1>3, <1>4, IdleSettles

\* An answer that writes no detail, followed by nothing or by what writes none.
LEMMA AnswerSettles ==
    ASSUME BInv, SInv, NEW i \in 1 .. Len(pending), Kind(i) \notin Detailing,
           NEW qs \in Seq(Request), \A j \in 1 .. Len(qs) : qs[j].what \notin Detailing,
           Answered(i, qs), path' = path,
           view'.subject = view.subject, view'.detail = view.detail,
           view'.overtaken = view.overtaken, OnOrch /\ view.error => view'.error
    PROVE  SInv'
  BY AnsweredMoves, IdleSettles

\* The clicks.
LEMMA OperatorSettles == BInv /\ SInv /\ Operator => SInv'
<1> SUFFICES ASSUME BInv, SInv, Operator PROVE SInv'
  OBVIOUS
<1>1. /\ view \in View /\ path \in Orchs \union Pages
      /\ pending \in Seq(Request) /\ Len(pending) \in Nat /\ TypeOK
      /\ stored \in BOOLEAN /\ authed \in BOOLEAN
  BY DEF BInv, TypeOK
<1>2. CASE SignIn
  BY <1>2, AwaySettles DEF SignIn, Submit
<1>3. CASE SignsOut
  BY <1>3, AwaySettles DEF SignsOut, SignOut
<1>4. CASE Reopen
  <2>1. CASE stored
    <3>1. PICK p, s : p = path /\ s = <<>>
      OBVIOUS
    <3>2. s \in Seq(Request) /\ First(p) \in Seq(Request)
      BY <1>1, <3>1, FirstFacts
    <3>3. pending' = s \o First(p) /\ path' = p /\ view' = Mounted(p)
      <4>1. s \o First(p) = First(p)
        BY <3>1, <3>2, ConcatEmptySeq
      <4> QED
        BY <1>4, <2>1, <3>1, <4>1 DEF Reopen, BrowserReload
    <3> QED
      BY <1>1, <3>1, <3>2, <3>3, MountSettles
  <2>2. CASE ~stored
    BY <1>4, <2>2, AwaySettles DEF Reopen, BrowserReload
  <2> QED
    BY <2>1, <2>2
<1>5. ASSUME NEW p \in Orchs \union Pages, Navigate(p) PROVE SInv'
  <2>1. CASE ~authed /\ UNCHANGED <<sessionVars, view>>
    BY <2>1, AwaySettles DEF sessionVars
  <2>2. CASE view' = Mounted(p) /\ pending' = LeftOf(pending) \o First(p)
    <3>1. PICK s : s = LeftOf(pending)
      OBVIOUS
    <3>2. s \in Seq(Request)
      BY <1>1, <3>1, LeftFacts
    <3> QED
      BY <1>5, <2>2, <3>1, <3>2, MountSettles DEF Navigate
  <2>3. CASE /\ {p, path} \subseteq Orchs
             /\ view' = LoadStart(view, p) /\ Send(<<Ask("load", p)>>)
    <3>0. p \in Orchs \union {NoOrch} /\ "load" \in Kinds
      BY <2>3 DEF Kinds
    <3>1. PICK qs : qs = <<Ask("load", p)>>
      OBVIOUS
    <3>2. qs \in Seq(Request)
      BY <3>0, <3>1, OneAsk
    <3>3. Moves(Len(pending) + 1, Len(pending), qs) /\ path' = p /\ "load" \in Sure
      BY <1>5, <2>3, <3>1, <3>2, SentMoves DEF Navigate, Sure
    <3>4. ~OnRouting'
      BY <2>3, <3>3, PathFacts DEF OnRouting
    <3> QED
      BY <3>0, <3>1, <3>3, <3>4, SentSettles
  <2> QED
    BY <1>5, <2>1, <2>2, <2>3 DEF Navigate
<1>6. CASE ReloadSender
  BY <1>6, AwaySettles DEF ReloadSender
<1>7. CASE Search
  BY <1>7, AwaySettles DEF Search
<1>8. CASE Reload
  <2>1. ~OnOrch
    BY <1>1, <1>8, PathFacts DEF Reload, OnRouting, OnOrch
  <2>2. "list" \in Kinds \ Detailing /\ NoOrch \in Orchs \union {NoOrch}
    BY DEF Kinds, Detailing
  <2>3. /\ view'.subject = view.subject /\ view'.detail = view.detail
        /\ view'.overtaken = view.overtaken
        /\ path' = path /\ Send(<<Ask("list", NoOrch)>>)
    BY <1>1, <1>8, ReloadStartFacts DEF Reload
  <2> QED
    BY <2>1, <2>2, <2>3, ClickSettles
<1>9. CASE RefreshOne
  <2>1. "refreshOne" \in Kinds \ Detailing /\ view.subject \in Orchs \union {NoOrch}
    BY <1>1 DEF Kinds, Detailing, View
  <2> QED
    BY <1>9, <2>1, ClickSettles DEF RefreshOne
<1>10. CASE RefreshAll
  <2>1. "refreshAll" \in Kinds \ Detailing
    BY DEF Kinds, Detailing
  <2>2. /\ view'.subject = view.subject /\ view'.detail = view.detail
        /\ view'.overtaken = view.overtaken /\ view'.error = view.error
    BY <1>1, <1>10 DEF RefreshAll, View
  <2> QED
    BY <1>10, <2>1, <2>2, ClickSettles DEF RefreshAll
<1>11. CASE RefreshOrch
  <2>1. "refreshOrch" \in Kinds \ Detailing /\ path \in Orchs \union {NoOrch}
    BY <1>11 DEF Kinds, Detailing, RefreshOrch, PageShown, OnOrch
  <2>2. /\ view'.subject = view.subject /\ view'.detail = view.detail
        /\ view'.overtaken = view.overtaken /\ view'.error = view.error
    BY <1>1, <1>11 DEF RefreshOrch, View
  <2> QED
    BY <1>11, <2>1, <2>2, ClickSettles DEF RefreshOrch
<1>12. ASSUME NEW o \in Orchs, Select(o) PROVE SInv'
  <2>1. path' = path /\ ~OnOrch'
    BY <1>1, <1>12, PathFacts DEF Select, RosterShown, OnRouting, OnOrch
  <2>2. CASE /\ view' = [view EXCEPT !.subject = NoOrch, !.detail = NoDetail]
    <3>1. view'.subject = NoOrch
      BY <1>1, <2>2 DEF View
    <3> QED
      BY <2>1, <3>1 DEF SInv, PanelDue, PageDue
  <2>3. CASE /\ view' = [view EXCEPT !.subject = o, !.detail = NoDetail,
                                     !.overtaken = view.overtaken /\ ~NoneDetailing]
             /\ Send(<<Ask("orch", o)>>)
    <3>1. PICK qs : qs = <<Ask("orch", o)>>
      OBVIOUS
    <3>2. qs \in Seq(Request)
      <4>1. "orch" \in Kinds /\ o \in Orchs \union {NoOrch}
        BY DEF Kinds
      <4>2. BInv
        BY <1>1
      <4> QED
        BY ONLY <3>1, <4>1, <4>2, OneAsk
    <3>3. Moves(Len(pending) + 1, Len(pending), qs) /\ "orch" \in Sure
      BY <2>3, <3>1, <3>2, SentMoves DEF Sure
    <3>4. view'.subject = o
      BY <1>1, <2>3 DEF View
    <3> QED
      BY <2>1, <3>1, <3>3, <3>4, SentSettles
  <2> QED
    BY <1>12, <2>2, <2>3 DEF Select
<1> QED
  BY <1>2, <1>3, <1>4, <1>5, <1>6, <1>7, <1>8, <1>9, <1>10, <1>11, <1>12 DEF Operator

\* The answers.
LEMMA AnswersSettle ==
    ASSUME BInv, SInv, NEW i \in 1 .. Len(pending), NEW verdict, Answer(i, verdict)
    PROVE  SInv'
<1>1. /\ view \in View /\ path \in Orchs \union Pages /\ pending \in Seq(Request)
  BY DEF BInv, TypeOK
<1>2. /\ <<>> \in Seq(Request)
      /\ \A j \in 1 .. Len(<<>>) : <<>>[j].what \notin Detailing
  OBVIOUS
<1>3. ASSUME Kind(i) \in KindsOf("routing") PROVE path = "routing" /\ authed /\ ~OnOrch
  <2>1. Kind(i) \notin {"gone", "health"}
    BY <1>3, KindFacts DEF KindsOf
  <2> QED
    BY <1>1, <1>3, <2>1, OwnFacts, KindFacts, PathFacts DEF OnOrch
<1>4. ASSUME Kind(i) \in {"load", "loadAfter", "refreshOrch"}
      PROVE  path \in Orchs /\ authed /\ ~OnRouting
  BY <1>1, <1>4, OwnFacts, KindFacts, PathFacts DEF OnRouting
<1>5. KindsOf("routing") = {"list", "listAll", "orch", "orchAfter", "refreshOne", "refreshAll"}
  BY <1>1, KindFacts
<1>6. CASE Entered(i, verdict)
  <2>1. PICK s, p : s = Rest(i) /\ p = path
    OBVIOUS
  <2>2. s \in Seq(Request)
    BY <1>1, <2>1, RestFacts
  <2> QED
    BY <1>1, <1>6, <2>1, <2>2, MountSettles DEF Entered, SignedIn
<1>7. CASE ListAnswered(i, verdict)
  <2>1. Kind(i) \notin Detailing /\ Answered(i, <<>>) /\ path' = path
    BY <1>7 DEF ListAnswered, Detailing
  <2>2. /\ view'.subject = view.subject /\ view'.detail = view.detail
        /\ view'.overtaken = view.overtaken
    BY <1>1, <1>7 DEF ListAnswered, View
  <2>3. ~OnOrch
    BY <1>3, <1>5, <1>7 DEF ListAnswered
  <2> QED
    BY <1>2, <2>1, <2>2, <2>3, AnswerSettles
<1>8. CASE OrchAnswered(i, verdict)
  <2>1. /\ Kind(i) = "orch" /\ Kind(i) \in Detailing
        /\ Answered(i, <<>>) /\ path' = path
    BY <1>8 DEF OrchAnswered, Detailing
  <2>2. /\ view'.subject = view.subject /\ view'.detail.orch = pending[i].orch
        /\ ~view'.overtaken => ~view.overtaken /\ ~Overtakes(i)
    BY <1>1, <1>8 DEF OrchAnswered, View
  <2>3. ~OnOrch
    BY <1>3, <1>5, <2>1
  <2> QED
    BY <1>2, <2>1, <2>2, <2>3, AnsweredMoves, WriteSettles
<1>9. CASE OneRefreshed(i, verdict)
  <2>1. /\ Kind(i) = "refreshOne" /\ Kind(i) \notin Detailing /\ path' = path
    BY <1>9 DEF OneRefreshed, Detailing
  <2>2. ~OnOrch /\ pending[i].orch \in Orchs \union {NoOrch}
    BY <1>3, <1>5, <2>1, OwnFacts
  <2>3. CASE view' = [view EXCEPT !.error = TRUE] /\ Answered(i, <<>>)
    <3>1. /\ view'.subject = view.subject /\ view'.detail = view.detail
          /\ view'.overtaken = view.overtaken
      BY <1>1, <2>3 DEF View
    <3> QED
      BY <1>2, <2>1, <2>2, <2>3, <3>1, AnswerSettles
  <2>4. CASE /\ view.subject = pending[i].orch /\ UNCHANGED view
             /\ Answered(i, <<Ask("orchAfter", pending[i].orch)>>)
    <3>0. "orchAfter" \in Kinds
      BY DEF Kinds
    <3>1. PICK o, qs : o = pending[i].orch /\ qs = <<Ask("orchAfter", o)>>
      OBVIOUS
    <3>2. o \in Orchs \union {NoOrch}
      BY <2>2, <3>1
    <3>3. /\ qs \in Seq(Request)
          /\ \A j \in 1 .. Len(qs) : qs[j].what = "orchAfter" /\ qs[j].orch = o
      <4>1. qs = <<Ask("orchAfter", o)>>
        BY <3>1
      <4> QED
        BY ONLY BInv, <3>0, <3>2, <4>1, OneAsk
    <3>4. qs \in Seq(Request) /\ \A j \in 1 .. Len(qs) : qs[j].orch = view.subject
      BY <2>4, <3>1, <3>3
    <3>5. Moves(i, Len(pending) - 1, qs) /\ authed' = authed
      BY <2>4, <3>1, <3>4, AnsweredMoves
    <3> QED
      BY <2>1, <2>2, <2>4, <3>4, <3>5, IdleSettles
  <2>5. CASE view' = ReloadStart(view) /\ Answered(i, <<Ask("list", NoOrch)>>)
    <3>0. "list" \in Kinds
      BY DEF Kinds
    <3>1. PICK qs : qs = <<Ask("list", NoOrch)>>
      OBVIOUS
    <3>2. /\ qs \in Seq(Request)
          /\ \A j \in 1 .. Len(qs) : qs[j].what = "list" /\ qs[j].orch = NoOrch
      BY <3>0, <3>1, OneAsk
    <3>3. \A j \in 1 .. Len(qs) : qs[j].what \notin Detailing
      BY <3>2 DEF Detailing
    <3>4. /\ view'.subject = view.subject /\ view'.detail = view.detail
          /\ view'.overtaken = view.overtaken
      BY <1>1, <2>5, ReloadStartFacts
    <3> QED
      BY <2>1, <2>2, <2>5, <3>1, <3>2, <3>3, <3>4, AnswerSettles
  <2> QED
    BY <1>9, <2>3, <2>4, <2>5 DEF OneRefreshed
<1>10. CASE OrchAfterAnswered(i, verdict)
  <2>1. /\ Kind(i) = "orchAfter" /\ Kind(i) \in Detailing /\ Kind(i) \notin Sure
        /\ path' = path
    BY <1>10 DEF OrchAfterAnswered, Detailing, Sure
  <2>2. ~OnOrch
    BY <1>3, <1>5, <2>1
  <2>3. CASE /\ view' = [ReloadStart(view) EXCEPT
                             !.detail = [orch |-> pending[i].orch, ok |-> TRUE],
                             !.overtaken = @ \/ Overtakes(i)]
             /\ Answered(i, <<Ask("list", NoOrch)>>)
    <3>0. "list" \in Kinds
      BY DEF Kinds
    <3>1. PICK qs : qs = <<Ask("list", NoOrch)>>
      OBVIOUS
    <3>2. /\ qs \in Seq(Request)
          /\ \A j \in 1 .. Len(qs) : qs[j].what = "list" /\ qs[j].orch = NoOrch
      BY <3>0, <3>1, OneAsk
    <3>3. \A j \in 1 .. Len(qs) : qs[j].what \notin Detailing
      BY <3>2 DEF Detailing
    <3>4. /\ view'.subject = view.subject /\ view'.detail.orch = pending[i].orch
          /\ ~view'.overtaken => ~view.overtaken /\ ~Overtakes(i)
      <4>1. PICK r : r = ReloadStart(view)
        OBVIOUS
      <4>2. r \in View /\ r.subject = view.subject /\ r.overtaken = view.overtaken
        BY <1>1, <4>1, ReloadStartFacts
      <4>3. view' = [r EXCEPT !.detail = [orch |-> pending[i].orch, ok |-> TRUE],
                              !.overtaken = r.overtaken \/ Overtakes(i)]
        BY <2>3, <4>1
      <4> QED
        BY <4>2, <4>3 DEF View
    <3>5. /\ Moves(i, Len(pending) - 1, qs) /\ authed' = authed
          /\ qs \in Seq(Request)
      BY <2>3, <3>1, <3>2, AnsweredMoves
    <3> QED
      BY <2>1, <2>2, <3>3, <3>4, <3>5, WriteSettles
  <2>4. CASE /\ view' = [view EXCEPT !.error = TRUE,
                                     !.overtaken = @ \/ Overtakes(i)]
             /\ Answered(i, <<>>)
    <3>1. /\ view'.subject = view.subject /\ view'.detail = view.detail
          /\ ~view'.overtaken => ~view.overtaken /\ ~Overtakes(i)
      BY <1>1, <2>4 DEF View
    <3> QED
      BY <1>2, <2>1, <2>2, <2>4, <3>1, AnsweredMoves, WriteSettles
  <2> QED
    BY <1>10, <2>3, <2>4 DEF OrchAfterAnswered
<1>11. CASE AllRefreshed(i, verdict)
  <2>1. /\ Kind(i) = "refreshAll" /\ Kind(i) \notin Detailing /\ path' = path
    BY <1>11 DEF AllRefreshed, Detailing
  <2>2. ~OnOrch
    BY <1>3, <1>5, <2>1
  <2>3. CASE view' = ReloadStart(view) /\ Answered(i, <<Ask("listAll", NoOrch)>>)
    <3>0. "listAll" \in Kinds
      BY DEF Kinds
    <3>1. PICK qs : qs = <<Ask("listAll", NoOrch)>>
      OBVIOUS
    <3>2. /\ qs \in Seq(Request)
          /\ \A j \in 1 .. Len(qs) : qs[j].what = "listAll" /\ qs[j].orch = NoOrch
      BY <3>0, <3>1, OneAsk
    <3>3. \A j \in 1 .. Len(qs) : qs[j].what \notin Detailing
      BY <3>2 DEF Detailing
    <3>4. /\ view'.subject = view.subject /\ view'.detail = view.detail
          /\ view'.overtaken = view.overtaken
      BY <1>1, <2>3, ReloadStartFacts
    <3> QED
      BY <2>1, <2>2, <2>3, <3>1, <3>2, <3>3, <3>4, AnswerSettles
  <2>4. CASE /\ view' = [view EXCEPT !.error = TRUE, !.refreshing = FALSE]
             /\ Answered(i, <<>>)
    <3>1. /\ view'.subject = view.subject /\ view'.detail = view.detail
          /\ view'.overtaken = view.overtaken
      BY <1>1, <2>4 DEF View
    <3> QED
      BY <1>2, <2>1, <2>2, <2>4, <3>1, AnswerSettles
  <2> QED
    BY <1>11, <2>3, <2>4 DEF AllRefreshed
<1>12. CASE LoadAnswered(i, verdict)
  <2>1. /\ Kind(i) \in {"load", "loadAfter"} /\ Kind(i) \in Detailing /\ path' = path
        /\ Answered(i, <<>>) /\ verdict \in {"ok", "failed"}
    BY <1>12 DEF LoadAnswered, Detailing, MayAnswer
  <2>2. ~OnRouting
    BY <1>4, <2>1
  <2>3. PICK d : d = IF verdict = "ok" THEN [orch |-> pending[i].orch, ok |-> TRUE]
                     ELSE view.detail
    OBVIOUS
  <2>4. view' = [view EXCEPT !.loading = FALSE, !.detail = d,
                             !.error = view.error \/ verdict = "failed",
                             !.overtaken = view.overtaken \/ Overtakes(i),
                             !.refreshing = view.refreshing /\ Kind(i) = "load"]
    BY <1>12, <2>3 DEF LoadAnswered
  <2>5. /\ view'.subject = view.subject /\ view'.detail = d
        /\ view'.error <=> view.error \/ verdict = "failed"
        /\ ~view'.overtaken => ~view.overtaken /\ ~Overtakes(i)
    BY <1>1, <2>4 DEF View
  <2>6. pending[i].orch = path => view'.error \/ view'.detail.orch = path
    BY <2>1, <2>3, <2>5
  <2> QED
    BY <1>2, <2>1, <2>2, <2>5, <2>6, AnsweredMoves, WriteSettles
<1>13. CASE OrchRefreshed(i, verdict)
  <2>1. /\ Kind(i) = "refreshOrch" /\ Kind(i) \notin Detailing /\ path' = path
    BY <1>13 DEF OrchRefreshed, Detailing
  <2>2. ~OnRouting /\ path \in Orchs /\ authed
    BY <1>4, <2>1
  <2>3. CASE view' = LoadStart(view, path) /\ Answered(i, <<Ask("loadAfter", path)>>)
    <3>1. PICK o, qs : o = path /\ qs = <<Ask("loadAfter", o)>>
      OBVIOUS
    <3>2. o \in Orchs \union {NoOrch} /\ "loadAfter" \in Kinds
      BY <2>2, <3>1 DEF Kinds
    <3>3. qs \in Seq(Request)
      BY <3>1, <3>2, OneAsk
    <3>4. Moves(i, Len(pending) - 1, qs) /\ authed' = authed
      BY <2>3, <3>1, <3>3, AnsweredMoves
    <3>5. "loadAfter" \in Sure /\ ~OnRouting'
      BY <2>1, <2>2, <3>4 DEF Sure, OnRouting
    <3> QED
      BY <2>1, <2>2, <3>1, <3>2, <3>4, <3>5, SentSettles
  <2>4. CASE /\ view' = [view EXCEPT !.error = TRUE, !.refreshing = FALSE]
             /\ Answered(i, <<>>)
    <3>1. /\ view'.subject = view.subject /\ view'.detail = view.detail
          /\ view'.overtaken = view.overtaken /\ view'.error
      BY <1>1, <2>4 DEF View
    <3> QED
      BY <1>2, <2>1, <2>2, <2>4, <3>1, AnswerSettles
  <2> QED
    BY <1>13, <2>3, <2>4 DEF OrchRefreshed
<1>14. CASE SenderAnswered(i, verdict) \/ SearchAnswered(i, verdict)
  <2>1. /\ Kind(i) \in {"wallet", "escrow", "search"} /\ path' = path /\ authed' = authed
    BY <1>14 DEF SenderAnswered, SearchAnswered, Answered
  <2>2. path \in {"sender", "capabilities"}
    BY <1>1, <2>1, OwnFacts, KindFacts DEF KindsOf, Pages
  <2> QED
    BY <2>1, <2>2, AwaySettles
<1>15. CASE GoneAnswered(i, verdict)
  <2>1. Kind(i) = "gone" /\ Kind(i) \notin Detailing /\ path' = path /\ view' = view
    BY <1>15 DEF GoneAnswered, Detailing
  <2>2. PICK qs : qs = IF verdict = "ok" /\ pending[i].more > 0
                       THEN <<AskMore(pending[i].more - 1)>> ELSE <<>>
    OBVIOUS
  <2>3. qs \in Seq(Request) /\ \A j \in 1 .. Len(qs) : qs[j].what = "gone"
    <3>1. CASE verdict = "ok" /\ pending[i].more > 0
      <4>1. PICK k : k = pending[i].more - 1
        OBVIOUS
      <4>2. k \in 0 .. 2
        <5>1. pending[i] \in Request
          BY <1>1, ElementOfSeq
        <5>2. pending[i].more \in 0 .. 2
          BY <5>1 DEF Request
        <5> QED
          BY <3>1, <4>1, <5>2
      <4>3. PICK q : q = AskMore(k)
        OBVIOUS
      <4>4. q \in Request /\ q.what = "gone"
        BY <4>2, <4>3, AskMoreFacts DEF BInv
      <4>5. qs = <<q>>
        BY <2>2, <3>1, <4>1, <4>3
      <4> QED
        BY <4>4, <4>5
    <3>2. CASE ~(verdict = "ok" /\ pending[i].more > 0)
      BY <2>2, <3>2
    <3> QED
      BY <3>1, <3>2
  <2>4. qs \in Seq(Request) /\ \A j \in 1 .. Len(qs) : qs[j].what \notin Detailing
    BY <2>3 DEF Detailing
  <2>5. Answered(i, qs)
    BY <1>15, <2>2 DEF GoneAnswered
  <2> QED
    BY <2>1, <2>4, <2>5, AnswerSettles
<1> QED
  BY <1>6, <1>7, <1>8, <1>9, <1>10, <1>11, <1>12, <1>13, <1>14, <1>15 DEF Answer

----------------------------------------------------------------------------
(* The theorems.                                                           *)

\* The invariant holds at the start, at the login form.
LEMMA InitBInv == Init => BInv
<1> SUFFICES ASSUME Init PROVE BInv
  OBVIOUS
<1>1. /\ stored = FALSE /\ authed = FALSE /\ checking = FALSE /\ pending = <<>>
      /\ path = "routing" /\ view = Unmounted
  BY DEF Init, SessionInit
<1>2. pending \in Seq(Request) /\ Len(pending) = 0 /\ 1 .. Len(pending) = {}
  BY <1>1
<1>3. TypeOK
  <2>1. Len(pending) <= MaxPending
    BY <1>2, SessionAssumption
  <2>2. path \in Orchs \union Pages
    BY <1>1 DEF Pages
  <2>3. stored \in BOOLEAN /\ authed \in BOOLEAN /\ checking \in BOOLEAN
    BY <1>1
  <2> QED
    BY <1>1, <1>2, <2>1, <2>2, <2>3, UnmountedFacts DEF TypeOK
<1> QED
  BY <1>1, <1>2, <1>3, UnmountedFacts DEF BInv, AllOwned, OneSignIn, AllEntitled,
     DataSound, DataNeedsToken, SpinnersEnd, LoggedOutIsClean

\* Every step keeps the invariant.
LEMMA NextBInv == BInv /\ [Next]_vars => BInv'
<1> SUFFICES ASSUME BInv, [Next]_vars PROVE BInv'
  OBVIOUS
<1>1. CASE Operator
  BY <1>1, SignInStep, SignsOutStep, ReopenStep, NavigateStep, ReloadSenderStep,
     SearchStep, ReloadStep, RefreshOneStep, RefreshAllStep, RefreshOrchStep,
     SelectStep DEF Operator
<1>2. ASSUME NEW i \in 1 .. Len(pending), Rejected(i) PROVE BInv'
  BY <1>2, RejectedStep
<1>3. ASSUME NEW i \in 1 .. Len(pending), NEW verdict \in {"ok", "failed"},
             Answer(i, verdict)
      PROVE  BInv'
  BY <1>3, EnteredStep, ListAnsweredStep, OrchAnsweredStep, OneRefreshedStep,
     OrchAfterAnsweredStep, AllRefreshedStep, LoadAnsweredStep, OrchRefreshedStep,
     SenderAnsweredStep, SearchAnsweredStep, GoneAnsweredStep DEF Answer
<1>4. CASE UNCHANGED vars
  <2>1. /\ stored' = stored /\ authed' = authed /\ checking' = checking
        /\ pending' = pending /\ view' = view /\ path' = path
    BY <1>4 DEF vars, sessionVars
  <2>2. TypeOK' /\ AllOwned' /\ AllEntitled' /\ OneSignIn'
    BY <2>1 DEF BInv, TypeOK, AllOwned, AllEntitled, OneSignIn, Owned, Entitled, Kind
  <2>3. SpinnersEnd' /\ DataSound' /\ LoggedOutIsClean'
    BY <2>1 DEF BInv, SpinnersEnd, DataSound, DataNeedsToken, LoggedOutIsClean,
       PendingKinds, Kind
  <2> QED
    BY <2>2, <2>3 DEF BInv
<1> QED
  BY <1>1, <1>2, <1>3, <1>4 DEF Next

\* What is under way belongs to the mounted element, to one that is gone, or
\* is the one sign-in being checked (admin-app.js, api-base.js).
THEOREM Invariance == Spec => []BInv
<1> QED
  BY InitBInv, NextBInv, PTL DEF Spec

\* Type correctness of the session and the views.
THEOREM TypeCorrect == Spec => []TypeOK
<1>1. BInv => TypeOK
  BY DEF BInv
<1> QED
  BY <1>1, Invariance, PTL

\* Behind the login form there is no credential, unless one is being checked
\* (admin-app.js clears sessionStorage whenever it signs out).
THEOREM LogoutLeavesNothing == Spec => []LoggedOutIsClean
<1>1. BInv => LoggedOutIsClean
  BY DEF BInv
<1> QED
  BY <1>1, Invariance, PTL

\* An app that shows the console's data has a credential.
THEOREM DataIsEntitled == Spec => []DataNeedsToken
<1>1. BInv => DataNeedsToken
  BY DEF BInv, DataSound
<1> QED
  BY <1>1, Invariance, PTL

\* A button that spins waits for a request that is under way.
THEOREM SpinnersAreAwaited == Spec => []SpinnersEnd
<1>1. BInv => SpinnersEnd
  BY DEF BInv
<1> QED
  BY <1>1, Invariance, PTL

\* At the login form there is no panel and no orch page.
LEMMA InitSInv == Init => SInv
  BY DEF Init, Unmounted, SInv, PanelDue, PageDue, SessionInit, OnRouting, OnOrch

\* Every step keeps what the views will settle on.
LEMMA NextSInv == BInv /\ SInv /\ [Next]_vars => SInv'
<1> SUFFICES ASSUME BInv, SInv, [Next]_vars PROVE SInv'
  OBVIOUS
<1>1. CASE Operator
  BY <1>1, OperatorSettles
<1>2. ASSUME NEW i \in 1 .. Len(pending), Rejected(i) PROVE SInv'
  BY <1>2, AwaySettles DEF Rejected, Unauthorized
<1>3. ASSUME NEW i \in 1 .. Len(pending), NEW verdict \in {"ok", "failed"},
             Answer(i, verdict)
      PROVE  SInv'
  BY <1>3, AnswersSettle
<1>4. CASE UNCHANGED vars
  <2>1. authed' = authed /\ pending' = pending /\ view' = view /\ path' = path
    BY <1>4 DEF vars, sessionVars
  <2> QED
    BY <2>1 DEF SInv, PanelDue, PageDue, OnRouting, OnOrch, Due, Kind
<1> QED
  BY <1>1, <1>2, <1>3, <1>4 DEF Next

\* Whatever is clicked, in whatever order the answers come: once no answer is
\* awaited, and the last ones came in order, the panel or the page shows the
\* orch it is about, or an error (admin-routing.js and admin-orch-detail.js
\* compare no answer with what they want by then).
THEOREM ViewsSettle == Spec => []SettlesOnSubject
<1>1. SInv => SettlesOnSubject
  <2> SUFFICES ASSUME SInv, authed, ~view.overtaken, NoneDetailing
               PROVE  /\ OnRouting /\ view.subject # NoOrch => view.detail.orch = view.subject
                      /\ OnOrch => view.error \/ view.detail.orch = path
    BY DEF SettlesOnSubject
  <2>1. ASSUME NEW m \in 0 .. Len(pending), m # 0, Kind(m) \in Sure PROVE FALSE
    <3>1. m \in 1 .. Len(pending)
      BY <2>1
    <3> QED
      BY <2>1, <3>1 DEF NoneDetailing, PendingKinds, Sure, Detailing
  <2>2. \A o, b : Due(o, b) => b
    BY <2>1 DEF Due
  <2> QED
    BY <2>2 DEF SInv, PanelDue, PageDue
<1>2. BInv /\ SInv /\ [Next]_vars => SInv'
  BY NextSInv
<1> QED
  BY <1>1, <1>2, InitSInv, Invariance, PTL DEF Spec
=============================================================================
