-------------------------- MODULE AuditTrailProofs --------------------------
(***************************************************************************)
(* Proofs about the console's audit trail and the page that reads it, for  *)
(* any set of requests and any page size.                                  *)
(*                                                                         *)
(* The trail: a request has a row only once its handler has ended, and a   *)
(* handler that has ended adds no more.  The page: one request of it is    *)
(* under way at most, so that the cursor an answer was asked with is still *)
(* the cursor when it comes; rows are only appended, so that an answer     *)
(* served earlier is still of consecutive rows.                            *)
(***************************************************************************)
EXTENDS AuditTrail, FiniteSetTheorems, SequenceTheorems, TLAPS

\* A row is of a handler that has ended, each handler has one at most, and
\* one that has ended has one unless its insert threw.
Ended(r) == pc[r] \in {"sent", "failed"}
RowsOfEnded ==
    /\ \A i, j \in 1 .. Len(rows) : rows[i].req = rows[j].req => i = j
    /\ \A i \in 1 .. Len(rows) : Ended(rows[i].req)
    /\ \A r \in Requests \ unaudited : Ended(r) =>
         \E i \in 1 .. Len(rows) : rows[i].req = r

\* Consecutive ids of rows, newest first.
Run(ids) ==
    /\ \A i \in 1 .. Len(ids) - 1 : ids[i + 1] = ids[i] - 1
    /\ \A i \in 1 .. Len(ids) : ids[i] \in 1 .. Len(rows)

\* The cursor, if there is one, is the last id shown; a request for older
\* rows was made with it, and its answer goes on where the page ends.
CursorSound ==
    /\ cursor # NoCursor => events # <<>> /\ cursor = events[Len(events)]
    /\ fetch.st \in {"older", "olderServed"} =>
         fetch.before = cursor /\ cursor # NoCursor
    /\ fetch.st = "first" => fetch.before = NoCursor
    /\ fetch.st \in {"firstServed", "olderServed"} => Run(fetch.ids)
    /\ fetch.st = "olderServed" /\ fetch.ids # <<>> => fetch.ids[1] = cursor - 1

IInv == TypeOK /\ RowsOfEnded /\ OkMeansExecuted /\ NoGapNoDuplicate /\ CursorSound

----------------------------------------------------------------------------
(* The operators.                                                          *)

\* What listRecent returns: consecutive rows, starting at the newest or just
\* below the cursor.
LEMMA RecentFacts ==
    ASSUME NEW before \in 0 .. Len(rows), rows \in Seq(Row)
    PROVE  /\ Recent(before) \in Seq(Nat)
           /\ Run(Recent(before))
           /\ before # NoCursor /\ Recent(before) # <<>> =>
                Recent(before)[1] = before - 1
<1> DEFINE top == IF before = NoCursor THEN Len(rows) ELSE before - 1
           n   == IF top < PageSize THEN top ELSE PageSize
<1>1. Len(rows) \in Nat /\ before \in Nat /\ before <= Len(rows) /\ PageSize \in Nat
  BY PageAssumption
<1>2. top \in Nat /\ top <= Len(rows)
  BY <1>1 DEF NoCursor
<1>3. n \in Nat /\ n <= top
  BY <1>1, <1>2
<1>4. Recent(before) = [i \in 1 .. n |-> top + 1 - i]
  BY DEF Recent
<1>5. before # NoCursor => top = before - 1
  OBVIOUS
<1> HIDE DEF top, n
<1>6. \A i \in 1 .. n : top + 1 - i \in 1 .. top
  BY <1>2, <1>3
<1>7. Recent(before) \in Seq(Nat) /\ Len(Recent(before)) = n
  BY <1>2, <1>3, <1>4, <1>6
<1>8. Run(Recent(before))
  BY <1>1, <1>2, <1>3, <1>4, <1>6, <1>7 DEF Run
<1>9. Recent(before) # <<>> => n >= 1
  BY <1>3, <1>4
<1> QED
  BY <1>2, <1>3, <1>4, <1>5, <1>7, <1>8, <1>9

\* Two runs make one if the second goes on where the first ends.
LEMMA RunJoined ==
    ASSUME rows \in Seq(Row),
           NEW s \in Seq(Nat), NEW t \in Seq(Nat), Run(s), Run(t),
           t # <<>> => s # <<>> /\ t[1] = s[Len(s)] - 1
    PROVE  Run(s \o t)
<1>1. /\ s \o t \in Seq(Nat) /\ Len(s \o t) = Len(s) + Len(t)
      /\ \A i \in 1 .. Len(s) + Len(t) :
           (s \o t)[i] = IF i <= Len(s) THEN s[i] ELSE t[i - Len(s)]
  BY ConcatProperties
<1>2. Len(s) \in Nat /\ Len(t) \in Nat /\ Len(rows) \in Nat
  OBVIOUS
<1>3. ASSUME NEW i \in 1 .. Len(s \o t)
      PROVE  (s \o t)[i] \in 1 .. Len(rows)
  <2>1. CASE i <= Len(s)
    <3>1. i \in 1 .. Len(s) /\ (s \o t)[i] = s[i]
      BY <1>1, <1>2, <2>1
    <3> QED
      BY <3>1 DEF Run
  <2>2. CASE ~(i <= Len(s))
    <3>1. i - Len(s) \in 1 .. Len(t) /\ (s \o t)[i] = t[i - Len(s)]
      BY <1>1, <1>2, <2>2
    <3> QED
      BY <3>1 DEF Run
  <2> QED
    BY <2>1, <2>2
<1>4. ASSUME NEW i \in 1 .. Len(s \o t) - 1
      PROVE  (s \o t)[i + 1] = (s \o t)[i] - 1
  <2>1. i \in 1 .. Len(s) + Len(t) /\ i + 1 \in 1 .. Len(s) + Len(t)
    BY <1>1, <1>2
  <2>2. CASE i + 1 <= Len(s)
    <3>1. i \in 1 .. Len(s) - 1 /\ (s \o t)[i] = s[i] /\ (s \o t)[i + 1] = s[i + 1]
      BY <1>1, <1>2, <2>1, <2>2
    <3> QED
      BY <3>1 DEF Run
  <2>3. CASE i = Len(s)
    <3>1. (s \o t)[i] = s[Len(s)] /\ (s \o t)[i + 1] = t[1] /\ Len(t) >= 1
      BY <1>1, <1>2, <2>1, <2>3
    <3>2. t # <<>>
      BY <3>1
    <3> QED
      BY <3>1, <3>2
  <2>4. CASE i > Len(s)
    <3> DEFINE j == i - Len(s)
    <3>1. j \in 1 .. Len(t) - 1 /\ j + 1 = (i + 1) - Len(s)
      BY <1>1, <1>2, <2>4
    <3>2. (s \o t)[i] = t[j]
      BY <1>1, <1>2, <2>1, <2>4
    <3>3. (s \o t)[i + 1] = t[j + 1]
      BY <1>1, <1>2, <2>1, <2>4, <3>1
    <3> QED
      BY <3>1, <3>2, <3>3 DEF Run
  <2>5. i + 1 <= Len(s) \/ i = Len(s) \/ i > Len(s)
    BY <1>2, <2>1
  <2> QED
    BY ONLY <2>2, <2>3, <2>4, <2>5
<1> QED
  BY <1>3, <1>4 DEF Run

\* A run stays one when rows are appended.
LEMMA RunKept ==
    ASSUME rows \in Seq(Row), NEW ids \in Seq(Nat), Run(ids),
           Len(rows') \in Nat, Len(rows') >= Len(rows)
    PROVE  Run(ids)'
<1>1. \A i \in 1 .. Len(ids) : ids[i] \in 1 .. Len(rows')
  BY DEF Run
<1> QED
  BY <1>1 DEF Run

\* The id the cursor takes.
LEMMA LastIdFacts ==
    ASSUME NEW s \in Seq(Nat)
    PROVE  /\ LastId(s) \in Nat
           /\ LastId(s) # NoCursor => s # <<>> /\ LastId(s) = s[Len(s)]
<1>1. CASE s = <<>>
  BY <1>1 DEF LastId, NoCursor
<1>2. CASE s # <<>>
  <2>1. Len(s) \in 1 .. Len(s)
    BY <1>2, EmptySeq
  <2> QED
    BY <1>2, <2>1 DEF LastId
<1> QED
  BY <1>1, <1>2

\* A row is of a request.
LEMMA RowFacts ==
    ASSUME TypeOK
    PROVE  \A i \in 1 .. Len(rows) : rows[i].req \in Requests
<1>1. rows \in Seq(Row)
  BY DEF TypeOK
<1>2. \A i \in 1 .. Len(rows) : rows[i] \in Row
  BY <1>1
<1> QED
  BY <1>2 DEF Row

----------------------------------------------------------------------------
\* The invariant holds at the start, with an empty table and an empty page.
LEMMA InitIInv == Init => IInv
<1> SUFFICES ASSUME Init PROVE IInv
  OBVIOUS
<1>1. /\ rows = <<>> /\ events = <<>> /\ cursor = NoCursor /\ fetch = Idle
      /\ unaudited = {} /\ ran = {}
      /\ pc = [r \in Requests |-> "idle"]
  BY DEF Init
<1>2. TypeOK
  <2>1. fetch \in Fetch
    BY <1>1 DEF Fetch, Idle, NoCursor
  <2> QED
    BY <1>1, <2>1 DEF TypeOK, NoCursor
<1>3. Len(rows) = 0 /\ Len(events) = 0 /\ fetch.st = "idle"
  BY <1>1 DEF Idle
<1> QED
  BY <1>1, <1>2, <1>3 DEF IInv, RowsOfEnded, Ended, OkMeansExecuted, RowsOf,
     NoGapNoDuplicate, CursorSound

----------------------------------------------------------------------------
(* The handlers.                                                           *)

\* What the page's invariants need when the trail grows.
LEMMA PageKept ==
    ASSUME IInv, UNCHANGED pageVars, Len(rows') \in Nat, Len(rows') >= Len(rows)
    PROVE  NoGapNoDuplicate' /\ CursorSound'
<1>1. /\ UNCHANGED <<events, cursor, fetch>>
      /\ rows \in Seq(Row) /\ events \in Seq(Nat) /\ fetch.ids \in Seq(Nat)
  BY DEF pageVars, IInv, TypeOK, Fetch
<1>2. Run(events)
  BY DEF IInv, NoGapNoDuplicate, Run
<1>3. Run(events)'
  BY <1>1, <1>2, RunKept
<1>4. NoGapNoDuplicate'
  BY <1>1, <1>3 DEF NoGapNoDuplicate, Run
<1>5. Run(fetch.ids) => Run(fetch.ids)'
  BY <1>1, RunKept
<1>6. CursorSound'
  BY <1>1, <1>5 DEF IInv, CursorSound
<1> QED
  BY <1>4, <1>6

\* Call, Execute and CatchThrows write no row.
LEMMA CallStep ==
    ASSUME IInv, NEW r \in Requests, Call(r)
    PROVE  IInv'
<1>1. /\ pc[r] = "idle" /\ pc' = [pc EXCEPT ![r] = "calling"]
      /\ UNCHANGED <<ran, rows, unaudited, events, cursor, fetch>>
  BY DEF Call, pageVars
<1>2. pc \in [Requests -> {"idle", "calling", "sent", "failed", "lost"}]
  BY DEF IInv, TypeOK
<1>3. \A q \in Requests : Ended(q)' <=> Ended(q)
  BY <1>1, <1>2 DEF Ended
<1>4. TypeOK'
  BY <1>1, <1>2 DEF IInv, TypeOK
<1>5. \A i \in 1 .. Len(rows) : rows[i].req \in Requests
  BY RowFacts DEF IInv
<1>6. RowsOfEnded'
  BY <1>1, <1>3, <1>5 DEF IInv, RowsOfEnded
<1>7. OkMeansExecuted'
  BY <1>1, <1>2 DEF IInv, OkMeansExecuted, RowsOf
<1>8. NoGapNoDuplicate' /\ CursorSound'
  BY <1>1, PageKept DEF IInv, TypeOK, pageVars
<1> QED
  BY <1>4, <1>6, <1>7, <1>8 DEF IInv

\* The daemon executes a refresh, of a handler that waits or has given up.
LEMMA ExecuteStep ==
    ASSUME IInv, NEW r \in Requests, Execute(r)
    PROVE  IInv'
<1>1. /\ ran' = ran \union {r}
      /\ UNCHANGED <<pc, rows, unaudited, events, cursor, fetch>>
  BY DEF Execute, pageVars
<1>2. TypeOK'
  BY <1>1 DEF IInv, TypeOK
<1>3. RowsOfEnded' /\ OkMeansExecuted'
  BY <1>1 DEF IInv, RowsOfEnded, Ended, OkMeansExecuted, RowsOf
<1>4. NoGapNoDuplicate' /\ CursorSound'
  BY <1>1, PageKept DEF IInv, TypeOK, pageVars
<1> QED
  BY <1>2, <1>3, <1>4 DEF IInv

\* The append in the catch throws too: the attempt has no row.
LEMMA CatchThrowsStep ==
    ASSUME IInv, NEW r \in Requests, CatchThrows(r)
    PROVE  IInv'
<1>1. /\ pc[r] = "calling" /\ pc' = [pc EXCEPT ![r] = "failed"]
      /\ unaudited' = unaudited \union {r}
      /\ UNCHANGED <<ran, rows, events, cursor, fetch>>
  BY DEF CatchThrows, pageVars
<1>2. pc \in [Requests -> {"idle", "calling", "sent", "failed", "lost"}]
  BY DEF IInv, TypeOK
<1>3. /\ Ended(r)'
      /\ \A q \in Requests \ {r} : Ended(q)' <=> Ended(q)
  BY <1>1, <1>2 DEF Ended
<1>4. TypeOK'
  BY <1>1, <1>2 DEF IInv, TypeOK
<1>5. \A i \in 1 .. Len(rows) : rows[i].req \in Requests
  BY RowFacts DEF IInv
<1>6. RowsOfEnded'
  BY <1>1, <1>3, <1>5 DEF IInv, RowsOfEnded
<1>7. OkMeansExecuted'
  BY <1>1, <1>2 DEF IInv, OkMeansExecuted, RowsOf
<1>8. NoGapNoDuplicate' /\ CursorSound'
  BY <1>1, PageKept DEF IInv, TypeOK, pageVars
<1> QED
  BY <1>4, <1>6, <1>7, <1>8 DEF IInv

\* Succeed and Catch end the handler with a row.
LEMMA FinishStep ==
    ASSUME IInv, NEW r \in Requests, Succeed(r) \/ Catch(r)
    PROVE  IInv'
<1> DEFINE n == Len(rows) + 1
<1>1. PICK st \in {"sent", "failed"}, ok \in BOOLEAN :
        /\ Finish(r, st, ok) /\ pc[r] = "calling"
        /\ ok => r \in ran
        /\ st = "sent" => ok
  BY DEF Succeed, Catch
<1>2. /\ pc' = [pc EXCEPT ![r] = st]
      /\ rows' = Append(rows, [req |-> r, ok |-> ok])
      /\ UNCHANGED <<ran, unaudited, events, cursor, fetch>>
  BY <1>1 DEF Finish, pageVars
<1>3. /\ pc \in [Requests -> {"idle", "calling", "sent", "failed", "lost"}]
      /\ rows \in Seq(Row) /\ Len(rows) \in Nat
  BY DEF IInv, TypeOK
<1>4. [req |-> r, ok |-> ok] \in Row
  BY DEF Row
<1>5. /\ rows' \in Seq(Row) /\ Len(rows') = n
      /\ rows'[n].req = r /\ rows'[n].ok = ok
      /\ \A i \in 1 .. Len(rows) : rows'[i] = rows[i]
  BY <1>2, <1>3, <1>4
<1>6. 1 .. Len(rows') = (1 .. Len(rows)) \union {n} /\ n \notin 1 .. Len(rows)
  BY <1>3, <1>5
<1>7. /\ ~Ended(r) /\ Ended(r)'
      /\ \A q \in Requests \ {r} : pc'[q] = pc[q] /\ (Ended(q)' <=> Ended(q))
  BY <1>1, <1>2, <1>3 DEF Ended
<1>8. TypeOK'
  BY <1>2, <1>3, <1>5 DEF IInv, TypeOK
<1>9. \A i \in 1 .. Len(rows) : rows[i].req \in Requests /\ rows[i].req # r
  BY <1>7, RowFacts DEF IInv, RowsOfEnded
<1>10. RowsOfEnded'
  <2>1. \A i, j \in 1 .. Len(rows') : rows'[i].req = rows'[j].req => i = j
    BY <1>5, <1>6, <1>9 DEF IInv, RowsOfEnded
  <2>2. \A i \in 1 .. Len(rows') : (Ended(rows[i].req))' 
    BY <1>5, <1>6, <1>7, <1>9 DEF IInv, RowsOfEnded
  <2>3. \A q \in Requests \ unaudited' : Ended(q)' =>
          \E i \in 1 .. Len(rows') : rows'[i].req = q
    BY <1>2, <1>5, <1>6, <1>7 DEF IInv, RowsOfEnded
  <2> QED
    BY <2>1, <2>2, <2>3 DEF RowsOfEnded
<1>11. OkMeansExecuted'
  <2>1. \A i \in 1 .. Len(rows') : rows'[i].ok => rows'[i].req \in ran'
    BY <1>1, <1>2, <1>5, <1>6 DEF IInv, OkMeansExecuted
  <2>2. ASSUME NEW q \in Requests, pc'[q] = "sent"
        PROVE  \E i \in 1 .. Len(rows') : rows'[i].req = q /\ rows'[i].ok
    <3>1. CASE q = r
      <4>1. ok
        BY <1>1, <1>2, <1>3, <2>2, <3>1
      <4> QED
        BY <1>5, <1>6, <3>1, <4>1
    <3>2. CASE q # r
      <4>1. PICK i \in 1 .. Len(rows) : rows[i].req = q /\ rows[i].ok
        BY <1>7, <2>2, <3>2 DEF IInv, OkMeansExecuted, RowsOf
      <4> QED
        BY <1>5, <1>6, <4>1
    <3> QED
      BY <3>1, <3>2
  <2> QED
    BY <2>1, <2>2 DEF OkMeansExecuted, RowsOf
<1>12. NoGapNoDuplicate' /\ CursorSound'
  BY <1>2, <1>3, <1>5, PageKept DEF pageVars
<1> QED
  BY <1>8, <1>10, <1>11, <1>12 DEF IInv

----------------------------------------------------------------------------
(* The page, and the crash.                                                *)

\* What the trail's invariants need when only the page moves.
LEMMA TrailKept ==
    ASSUME IInv, UNCHANGED trailVars
    PROVE  RowsOfEnded' /\ OkMeansExecuted'
  BY DEF IInv, trailVars, RowsOfEnded, Ended, OkMeansExecuted, RowsOf

\* Whatever ends the page's request without an answer leaves it as it is.
LEMMA FetchGone ==
    ASSUME IInv, UNCHANGED <<rows, events, cursor>>, fetch' = Idle
    PROVE  NoGapNoDuplicate' /\ CursorSound' /\ fetch' \in Fetch
<1>1. fetch' \in Fetch /\ fetch'.st = "idle"
  BY DEF Fetch, Idle, NoCursor
<1> QED
  BY <1>1 DEF IInv, NoGapNoDuplicate, CursorSound

\* The process is killed: the open refreshes are lost, the table is kept.
LEMMA CrashStep ==
    ASSUME IInv, Crash
    PROVE  IInv'
<1>1. /\ pc' = [r \in Requests |-> IF pc[r] = "calling" THEN "lost" ELSE pc[r]]
      /\ fetch' = Idle
      /\ UNCHANGED <<ran, rows, unaudited, events, cursor>>
  BY DEF Crash
<1>2. pc \in [Requests -> {"idle", "calling", "sent", "failed", "lost"}]
  BY DEF IInv, TypeOK
<1>3. pc' \in [Requests -> {"idle", "calling", "sent", "failed", "lost"}]
  BY <1>1, <1>2
<1>4. \A q \in Requests : /\ Ended(q)' <=> Ended(q)
                          /\ pc'[q] = "sent" => pc[q] = "sent"
  BY <1>1, <1>2 DEF Ended
<1>5. NoGapNoDuplicate' /\ CursorSound' /\ fetch' \in Fetch
  BY <1>1, FetchGone
<1>6. TypeOK'
  BY <1>1, <1>3, <1>5 DEF IInv, TypeOK
<1>7. \A i \in 1 .. Len(rows) : rows[i].req \in Requests
  BY RowFacts DEF IInv
<1>8. RowsOfEnded'
  BY <1>1, <1>4, <1>7 DEF IInv, RowsOfEnded
<1>9. OkMeansExecuted'
  BY <1>1, <1>4 DEF IInv, OkMeansExecuted, RowsOf
<1> QED
  BY <1>5, <1>6, <1>8, <1>9 DEF IInv

\* The page asks for the first rows, or for the ones below its cursor.
LEMMA AskStep ==
    ASSUME IInv, Reload \/ Older
    PROVE  IInv'
<1>1. UNCHANGED <<trailVars, events, cursor>> /\ UNCHANGED <<pc, ran, rows, unaudited>>
  BY DEF Reload, Older, trailVars
<1>2. \/ fetch' = [Idle EXCEPT !.st = "first"]
      \/ fetch' = [Idle EXCEPT !.st = "older", !.before = cursor] /\ cursor # NoCursor
  BY DEF Reload, Older, OlderShown
<1>3. cursor \in Nat
  BY DEF IInv, TypeOK
<1>4. /\ fetch' \in Fetch
      /\ \/ fetch'.st = "first" /\ fetch'.before = NoCursor
         \/ fetch'.st = "older" /\ fetch'.before = cursor /\ cursor # NoCursor
  <2>1. CASE fetch' = [Idle EXCEPT !.st = "first"]
    <3>1. fetch' = [st |-> "first", before |-> NoCursor, ids |-> <<>>]
      BY <2>1 DEF Idle
    <3> QED
      BY <3>1 DEF Fetch, NoCursor
  <2>2. CASE fetch' = [Idle EXCEPT !.st = "older", !.before = cursor] /\ cursor # NoCursor
    <3>1. fetch' = [st |-> "older", before |-> cursor, ids |-> <<>>]
      BY <2>2 DEF Idle
    <3>2. fetch' \in Fetch
      BY <1>3, <3>1 DEF Fetch
    <3>3. fetch'.st = "older" /\ fetch'.before = cursor
      BY <3>1
    <3> QED
      BY <2>2, <3>2, <3>3
  <2> QED
    BY <1>2, <2>1, <2>2
<1>5. TypeOK'
  BY <1>1, <1>4 DEF IInv, TypeOK
<1>6. NoGapNoDuplicate'
  BY <1>1 DEF IInv, NoGapNoDuplicate
<1>7. CursorSound'
  BY <1>1, <1>4 DEF IInv, CursorSound
<1> QED
  BY <1>1, <1>5, <1>6, <1>7, TrailKept DEF IInv

\* The console reads a page of rows below the cursor.
LEMMA ServeStep ==
    ASSUME IInv, Serve
    PROVE  IInv'
<1>1. /\ UNCHANGED <<trailVars, events, cursor>> /\ UNCHANGED <<pc, ran, rows, unaudited>>
      /\ fetch.st \in {"first", "older"}
      /\ fetch' = [fetch EXCEPT
                     !.st = IF @ = "first" THEN "firstServed" ELSE "olderServed",
                     !.ids = Recent(fetch.before)]
  BY DEF Serve, trailVars
<1>2. /\ rows \in Seq(Row) /\ events \in Seq(Nat) /\ cursor \in Nat
      /\ fetch \in Fetch /\ Len(rows) \in Nat /\ Len(events) \in Nat
  BY DEF IInv, TypeOK
<1>3. cursor \in 0 .. Len(rows)
  <2>1. CASE cursor = NoCursor
    BY <1>2, <2>1 DEF NoCursor
  <2>2. CASE cursor # NoCursor
    <3>1. events # <<>> /\ cursor = events[Len(events)]
      BY <2>2 DEF IInv, CursorSound
    <3>2. Len(events) \in 1 .. Len(events)
      BY <1>2, <3>1, EmptySeq
    <3> QED
      BY <1>2, <3>1, <3>2 DEF IInv, NoGapNoDuplicate
  <2> QED
    BY <2>1, <2>2
<1>4. /\ fetch.st = "older" => fetch.before = cursor /\ cursor # NoCursor
      /\ fetch.st = "first" => fetch.before = NoCursor
  BY DEF IInv, CursorSound
<1>5. fetch.before \in 0 .. Len(rows)
  BY <1>1, <1>2, <1>3, <1>4 DEF NoCursor
<1>6. /\ Recent(fetch.before) \in Seq(Nat)
      /\ Run(Recent(fetch.before))
      /\ fetch.before # NoCursor /\ Recent(fetch.before) # <<>> =>
           Recent(fetch.before)[1] = fetch.before - 1
  BY <1>2, <1>5, RecentFacts
<1>7. /\ fetch' \in Fetch
      /\ fetch'.before = fetch.before /\ fetch'.ids = Recent(fetch.before)
      /\ \/ fetch.st = "first" /\ fetch'.st = "firstServed"
         \/ fetch.st = "older" /\ fetch'.st = "olderServed"
  BY <1>1, <1>2, <1>6 DEF Fetch
<1>8. TypeOK'
  BY <1>1, <1>7 DEF IInv, TypeOK
<1>9. NoGapNoDuplicate'
  BY <1>1 DEF IInv, NoGapNoDuplicate
<1>10. Run(fetch.ids)'
  BY <1>1, <1>6, <1>7 DEF Run
<1>11. CursorSound'
  BY <1>1, <1>4, <1>6, <1>7, <1>10 DEF IInv, CursorSound
<1> QED
  BY <1>1, <1>8, <1>9, <1>11, TrailKept DEF IInv

\* The page shows the rows: alone, or below the ones it has.
LEMMA ShowStep ==
    ASSUME IInv, ShowFirst \/ ShowOlder
    PROVE  IInv'
<1>1. /\ UNCHANGED trailVars /\ UNCHANGED <<pc, ran, rows, unaudited>>
      /\ cursor' = LastId(fetch.ids) /\ fetch' = Idle
      /\ \/ fetch.st = "firstServed" /\ events' = fetch.ids
         \/ fetch.st = "olderServed" /\ events' = events \o fetch.ids
  BY DEF ShowFirst, ShowOlder, trailVars
<1>2. /\ rows \in Seq(Row) /\ events \in Seq(Nat) /\ fetch.ids \in Seq(Nat)
  BY DEF IInv, TypeOK, Fetch
<1>3. Run(events) /\ Run(fetch.ids)
  BY <1>1 DEF IInv, NoGapNoDuplicate, CursorSound, Run
<1>4. events' \in Seq(Nat) /\ Run(events')
      /\ (fetch.ids # <<>> => /\ events' # <<>>
                              /\ events'[Len(events')] = fetch.ids[Len(fetch.ids)])
  <2>1. CASE fetch.st = "firstServed" /\ events' = fetch.ids
    BY <1>2, <1>3, <2>1
  <2>2. CASE fetch.st = "olderServed" /\ events' = events \o fetch.ids
    <3>1. fetch.ids # <<>> => events # <<>> /\ fetch.ids[1] = events[Len(events)] - 1
      BY <2>2 DEF IInv, CursorSound
    <3>2. Run(events')
      BY <1>2, <1>3, <2>2, <3>1, RunJoined
    <3>3. /\ events' \in Seq(Nat) /\ Len(events') = Len(events) + Len(fetch.ids)
          /\ \A i \in 1 .. Len(events) + Len(fetch.ids) :
               events'[i] = IF i <= Len(events) THEN events[i]
                            ELSE fetch.ids[i - Len(events)]
      BY <1>2, <2>2, ConcatProperties
    <3>4. ASSUME fetch.ids # <<>>
          PROVE  events' # <<>> /\ events'[Len(events')] = fetch.ids[Len(fetch.ids)]
      <4>1. Len(fetch.ids) \in Nat \ {0} /\ Len(events) \in Nat
        BY <1>2, <3>4, EmptySeq
      <4>2. /\ Len(events') \in 1 .. Len(events) + Len(fetch.ids)
            /\ ~(Len(events') <= Len(events))
            /\ Len(events') - Len(events) = Len(fetch.ids)
        BY <3>3, <4>1
      <4>3. events' # <<>>
        BY <3>3, <4>1, EmptySeq
      <4> QED
        BY <3>3, <4>2, <4>3
    <3> QED
      BY <3>2, <3>3, <3>4
  <2> QED
    BY <1>1, <2>1, <2>2
<1>5. /\ cursor' \in Nat
      /\ cursor' # NoCursor => fetch.ids # <<>> /\ cursor' = fetch.ids[Len(fetch.ids)]
  BY <1>1, <1>2, LastIdFacts
<1>6. fetch' \in Fetch /\ fetch'.st = "idle"
  BY <1>1 DEF Fetch, Idle, NoCursor
<1>7. TypeOK'
  BY <1>1, <1>4, <1>5, <1>6 DEF IInv, TypeOK
<1>8. NoGapNoDuplicate'
  BY <1>1, <1>4 DEF NoGapNoDuplicate, Run
<1>9. CursorSound'
  BY <1>4, <1>5, <1>6 DEF CursorSound
<1> QED
  BY <1>1, <1>7, <1>8, <1>9, TrailKept DEF IInv

\* A fetch that fails leaves what is shown.
LEMMA FetchFailsStep ==
    ASSUME IInv, FetchFails
    PROVE  IInv'
<1>1. /\ UNCHANGED <<trailVars, events, cursor>> /\ UNCHANGED <<pc, ran, rows, unaudited>>
      /\ fetch' = Idle
  BY DEF FetchFails, trailVars
<1>2. NoGapNoDuplicate' /\ CursorSound' /\ fetch' \in Fetch
  BY <1>1, FetchGone
<1>3. TypeOK'
  BY <1>1, <1>2 DEF IInv, TypeOK
<1> QED
  BY <1>1, <1>2, <1>3, TrailKept DEF IInv

\* Every step keeps the invariant.
LEMMA NextIInv == IInv /\ [Next]_vars => IInv'
<1> SUFFICES ASSUME IInv, [Next]_vars PROVE IInv'
  OBVIOUS
<1>1. CASE Handler
  BY <1>1, CallStep, FinishStep, CatchThrowsStep DEF Handler
<1>2. CASE \E r \in Requests : Execute(r)
  BY <1>2, ExecuteStep
<1>3. CASE Crash
  BY <1>3, CrashStep
<1>4. CASE Page
  BY <1>4, AskStep, ServeStep, ShowStep, FetchFailsStep DEF Page
<1>5. CASE UNCHANGED vars
  <2>1. /\ UNCHANGED trailVars
        /\ UNCHANGED <<pc, ran, rows, unaudited, events, cursor, fetch>>
    BY <1>5 DEF vars, trailVars, pageVars
  <2>2. TypeOK' /\ NoGapNoDuplicate' /\ CursorSound'
    BY <2>1 DEF IInv, TypeOK, NoGapNoDuplicate, CursorSound, Run
  <2> QED
    BY <2>1, <2>2, TrailKept DEF IInv
<1> QED
  BY <1>1, <1>2, <1>3, <1>4, <1>5 DEF Next

----------------------------------------------------------------------------
(* The theorems.                                                           *)

\* IInv is inductive, hence an invariant.
THEOREM Invariance == Spec => []IInv
<1> QED
  BY InitIInv, NextIInv, PTL DEF Spec

\* Type correctness: the page shows ids, its cursor is one or none.
THEOREM TypeCorrect == Spec => []TypeOK
<1>1. IInv => TypeOK
  BY DEF IInv
<1> QED
  BY <1>1, Invariance, PTL

\* An attempt leaves one row at most, and one unless the insert threw or the
\* process was killed (handleResolverRefresh.ts:52-73).
THEOREM OneRowEach == Spec => []OneRowPerAttempt
<1>1. IInv => OneRowPerAttempt
  <2> SUFFICES ASSUME IInv, NEW r \in Requests
               PROVE  /\ Cardinality(RowsOf(r)) <= 1
                      /\ Ended(r) /\ r \notin unaudited => RowsOf(r) # {}
    BY DEF OneRowPerAttempt, Ended
  <2>1. Ended(r) /\ r \notin unaudited => RowsOf(r) # {}
    BY DEF IInv, RowsOfEnded, RowsOf
  <2>2. CASE RowsOf(r) = {}
    BY <2>1, <2>2, FS_EmptySet
  <2>3. ASSUME NEW i \in RowsOf(r)
        PROVE  Cardinality(RowsOf(r)) <= 1
    <3>1. RowsOf(r) = {i}
      BY DEF IInv, RowsOfEnded, RowsOf
    <3>2. Cardinality({i}) = 1
      BY FS_Singleton
    <3> QED
      BY <3>1, <3>2
  <2> QED
    BY <2>1, <2>2, <2>3
<1> QED
  BY <1>1, Invariance, PTL

\* A row that says ok, and the answer 200, are of a refresh the daemon has
\* executed (handleResolverRefresh.ts:52-73).
THEOREM OkIsTrue == Spec => []OkMeansExecuted
<1>1. IInv => OkMeansExecuted
  BY DEF IInv
<1> QED
  BY <1>1, Invariance, PTL

\* The audit page shows consecutive rows, whatever was appended between two
\* of its requests, failed or was lost (auditEvents.ts:21-26).
THEOREM PagesAreConsecutive == Spec => []NoGapNoDuplicate
<1>1. IInv => NoGapNoDuplicate
  BY DEF IInv
<1> QED
  BY <1>1, Invariance, PTL
=============================================================================
