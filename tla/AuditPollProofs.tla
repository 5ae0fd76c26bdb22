-------------------------- MODULE AuditPollProofs --------------------------
(***************************************************************************)
(* Proofs about the audit-poll worker, for any number of events, ticks and *)
(* process lives, any page limit and any steps of the daemon's clock.      *)
(*                                                                         *)
(* The argument: while a tick is under way the watermark it asked with is  *)
(* still the watermark (SingleFlight), so everything in its page is dated  *)
(* at or after it; everything this life has recorded is dated at or before *)
(* it (MineSound).  What the two have in common is dated exactly at it.    *)
(***************************************************************************)
EXTENDS AuditPoll, FiniteSetTheorems, WellFoundedInduction, TLAPS

\* The daemon's log grows in the order of its dates.
LogOrdered ==
    /\ \A i \in Logged : log[i].at <= clock
    /\ \A i, j \in Logged :
         i < j /\ log[i].at > 0 /\ log[j].at > 0 => log[i].at <= log[j].at

\* A page holds logged events, none dated before the watermark it was asked
\* with.
PageSound ==
    \A t \in Ticks : call[t].st = "served" =>
        /\ call[t].page \subseteq Logged
        /\ \A i \in call[t].page : log[i].at >= call[t].since

\* What a page leaves out, because of its limit or because it was logged
\* later, comes after what it holds in the log.
PageCut ==
    OldestFirst =>
      \A t \in Ticks : call[t].st = "served" =>
        \A i \in Logged \ call[t].page, j \in call[t].page :
          log[i].at >= call[t].since => j < i

\* The watermark is at or past what this life has recorded, and one past
\* some row of it.
MineSound ==
    /\ \A i \in mine : i \in Logged /\ Mirrorable(i) /\ log[i].at <= watermark
    /\ watermark # NoWatermark => \E i \in mine : log[i].at + 1 = watermark

\* An event that does not follow another by a millisecond has a row for each
\* earlier life at most, and one more if this life has recorded it.
Follows(i) == \E j \in Logged : Mirrorable(j) /\ log[j].at + 1 = log[i].at
CopiesCounted ==
    /\ boots >= 1
    /\ \A i \in EventId \ Logged : copies[i] = 0
    /\ \A i \in Logged : ~Follows(i) =>
         /\ copies[i] <= boots
         /\ i \notin mine => copies[i] <= boots - 1

IInv == /\ TypeOK
        /\ SingleFlight
        /\ LogOrdered
        /\ PageSound
        /\ PageCut
        /\ MineSound
        /\ CopiesCounted
        /\ LostOnlyToTies

\* The bounds are natural numbers.
LEMMA Bounds == {MaxEvents, MaxCopies, MaxBoots} \subseteq Nat
  BY BoundsAssumption

----------------------------------------------------------------------------
(* The daemon's log only grows.                                            *)

\* The daemon appends one event, and the older ones stay as they are.
LEMMA LogGrows ==
    ASSUME TypeOK, LogOrdered,
           NEW o \in Orchs \union {NoOrch}, NEW d \in ClockSteps,
           NEW dated \in BOOLEAN, Log(o, d, dated)
    PROVE  LET n == Len(log) + 1 IN
           /\ Len(log') = n /\ n \in EventId
           /\ log' \in Seq(Event)
           /\ \A i \in Logged : log'[i] = log[i]
           /\ Logged' = Logged \union {n} /\ n \notin Logged
           /\ log'[n].at = clock' \/ log'[n].at = 0
           /\ clock' \in Nat /\ clock' >= clock
<1> DEFINE n == Len(log) + 1
           e == [at |-> IF dated THEN clock + d ELSE 0, orch |-> o]
<1>1. Len(log) \in Nat /\ clock \in Nat /\ d \in Nat /\ MaxEvents \in Nat
  BY Bounds, ClockAssumption DEF TypeOK
<1>2. e \in Event /\ log' = Append(log, e) /\ clock' = clock + d
  BY <1>1 DEF Log, Event
<1>3. Len(log') = n /\ log' \in Seq(Event) /\ log'[n] = e
  BY <1>1, <1>2 DEF TypeOK
<1>4. \A i \in 1 .. Len(log) : log'[i] = log[i]
  BY <1>1, <1>2 DEF TypeOK
<1>5. n \in EventId /\ Len(log) < MaxEvents
  BY <1>1 DEF Log, EventId
<1> QED
  BY <1>1, <1>2, <1>3, <1>4, <1>5 DEF Logged

\* Events already logged keep their date and address.
LEMMA MirrorableKept ==
    ASSUME NEW i, log'[i] = log[i]
    PROVE  Mirrorable(i)' <=> Mirrorable(i)
  BY DEF Mirrorable

\* An event of the log has a date and an index.
LEMMA MirrorableType ==
    ASSUME TypeOK, NEW i \in Logged
    PROVE  /\ log[i] \in Event /\ log[i].at \in Nat
           /\ i \in EventId /\ i \in Nat
<1>1. /\ Len(log) \in Nat /\ log \in Seq(Event)
      /\ MaxEvents \in Nat /\ Len(log) <= MaxEvents
  BY Bounds DEF TypeOK
<1>2. i \in 1 .. Len(log)
  BY DEF Logged
<1>3. log[i] \in Event
  BY <1>1, <1>2
<1> QED
  BY <1>1, <1>2, <1>3 DEF EventId, Event

----------------------------------------------------------------------------
\* The invariant holds at the start, with nothing logged or copied.
LEMMA InitIInv == Init => IInv
<1> SUFFICES ASSUME Init PROVE IInv
  OBVIOUS
<1>0. IdleCall \in Call /\ MaxCopies \in Nat
  BY Bounds DEF IdleCall, Call, NoWatermark
<1>1. TypeOK
  <2>1. log \in Seq(Event) /\ Len(log) <= MaxEvents
    BY Bounds DEF Init
  <2>2. call \in [Ticks -> Call] /\ copies \in [EventId -> 0 .. MaxCopies]
    BY <1>0 DEF Init
  <2> QED
    BY <2>1, <2>2 DEF Init, TypeOK
<1>2. Logged = {} /\ \A t \in Ticks : call[t].st = "idle"
  BY DEF Init, Logged, IdleCall
<1> QED
  BY <1>1, <1>2 DEF Init, IInv, SingleFlight, Busy, LogOrdered, PageSound,
     PageCut, MineSound, CopiesCounted, LostOnlyToTies, NoWatermark

----------------------------------------------------------------------------
(* One lemma per action.                                                   *)

\* The daemon logs an event: a page it has served stays a cut of the log.
LEMMA LogStep ==
    ASSUME IInv,
           NEW o \in Orchs \union {NoOrch}, NEW d \in ClockSteps,
           NEW dated \in BOOLEAN, Log(o, d, dated)
    PROVE  IInv'
<1> DEFINE n == Len(log) + 1
<1>1. /\ Len(log') = n /\ n \in EventId /\ log' \in Seq(Event)
      /\ \A i \in Logged : log'[i] = log[i]
      /\ Logged' = Logged \union {n} /\ n \notin Logged
      /\ log'[n].at = clock' \/ log'[n].at = 0
      /\ clock' \in Nat /\ clock' >= clock
  BY LogGrows DEF IInv
<1>2. UNCHANGED <<copies, timer, inFlight, watermark, call, mine, boots>>
  BY DEF Log, workerVars
<1>3. \A i \in Logged : log[i].at \in Nat /\ i \in Nat /\ i < n
  BY MirrorableType DEF IInv, Logged, TypeOK
<1>4. \A i \in Logged : Mirrorable(i)' <=> Mirrorable(i)
  BY <1>1, MirrorableKept
<1>5. TypeOK'
  <2>1. Len(log') <= MaxEvents
    BY <1>1, Bounds DEF EventId
  <2>2. watermark' \in {NoWatermark} \union 2 .. clock' + 1
    BY <1>1, <1>2 DEF IInv, TypeOK
  <2> QED
    BY <1>1, <1>2, <2>1, <2>2 DEF IInv, TypeOK
<1>6. SingleFlight'
  BY <1>2 DEF IInv, SingleFlight, Busy
<1>7. LogOrdered'
  <2>1. \A i \in Logged' : log'[i].at <= clock'
    <3>1. \A i \in Logged : log[i].at <= clock
      BY DEF IInv, LogOrdered
    <3>2. \A i \in Logged : log'[i] = log[i]
      BY <1>1
    <3>3. \A i \in Logged' : i \in Logged \/ i = n
      BY <1>1
    <3> QED
      BY <1>1, <1>3, <3>1, <3>2, <3>3 DEF IInv, TypeOK
  <2>2. ASSUME NEW i \in Logged', NEW j \in Logged',
               i < j, log'[i].at > 0, log'[j].at > 0
        PROVE  log'[i].at <= log'[j].at
    <3>1. i \in Logged
      BY <1>1, <1>3, <2>2 DEF IInv, TypeOK
    <3>2. CASE j \in Logged
      BY <1>1, <3>1, <3>2, <2>2 DEF IInv, LogOrdered
    <3>3. CASE j = n
      BY <1>1, <3>1, <3>3, <2>1, <2>2
    <3> QED
      BY <1>1, <3>2, <3>3
  <2> QED
    BY <2>1, <2>2 DEF LogOrdered
<1>8. PageSound'
  BY <1>1, <1>2 DEF IInv, PageSound
<1>9. PageCut'
  <2> SUFFICES ASSUME OldestFirst, NEW t \in Ticks, call[t].st = "served",
                      NEW i \in Logged' \ call[t].page, NEW j \in call[t].page,
                      log'[i].at >= call[t].since
               PROVE  j < i
    BY <1>2 DEF PageCut
  <2>1. j \in Logged
    BY DEF IInv, PageSound
  <2>2. CASE i \in Logged
    BY <1>1, <2>1, <2>2 DEF IInv, PageCut
  <2>3. CASE i = n
    BY <1>3, <2>1, <2>3
  <2> QED
    BY <1>1, <2>2, <2>3
<1>10. MineSound'
  BY <1>1, <1>2, <1>4 DEF IInv, MineSound
<1>11. CopiesCounted'
  <2>1. copies[n] = 0 /\ boots >= 1 /\ boots \in Nat
    BY <1>1 DEF IInv, CopiesCounted, TypeOK
  <2>2. ASSUME NEW i \in Logged, Follows(i) PROVE Follows(i)'
    BY <1>1, <1>4, <2>2 DEF Follows
  <2> QED
    BY <1>1, <1>2, <2>1, <2>2 DEF IInv, CopiesCounted
<1>12. LostOnlyToTies'
  <2> SUFFICES ASSUME OldestFirst, NEW i \in Logged', Mirrorable(i)',
                      log'[i].at < watermark
               PROVE  \E j \in mine : log'[j].at = log'[i].at
    BY <1>2 DEF LostOnlyToTies
  <2>0. mine \subseteq Logged
    BY DEF IInv, MineSound
  <2>1. CASE i \in Logged
    BY <1>1, <1>4, <2>0, <2>1 DEF IInv, LostOnlyToTies
  <2>2. CASE i = n
    <3>1. log'[n].at = clock' /\ clock' \in Nat /\ clock \in Nat
      BY <1>1, <2>2 DEF Mirrorable, IInv, TypeOK
    <3>2. watermark # NoWatermark /\ watermark <= clock + 1 /\ watermark \in Int
      BY <3>1, <2>2 DEF IInv, TypeOK, NoWatermark
    <3>3. PICK j \in mine : log[j].at + 1 = watermark
      BY <3>2 DEF IInv, MineSound
    <3>4. log'[j].at = log[j].at /\ log[j].at \in Nat
      BY <1>1, <1>3, <2>0
    <3>5. log[j].at = clock'
      BY <1>1, <3>1, <3>2, <3>3, <3>4, <2>2
    <3> QED
      BY <3>1, <3>4, <3>5, <2>2
  <2> QED
    BY <1>1, <2>1, <2>2
<1> QED
  BY <1>5, <1>6, <1>7, <1>8, <1>9, <1>10, <1>11, <1>12 DEF IInv

\* The conjuncts that a step leaves alone when the log, the table, the
\* watermark and the history stand still.
LEMMA StillStep ==
    ASSUME IInv, UNCHANGED <<log, clock, copies, watermark, mine, boots>>
    PROVE  LogOrdered' /\ MineSound' /\ CopiesCounted' /\ LostOnlyToTies'
  BY DEF IInv, LogOrdered, MineSound, CopiesCounted, LostOnlyToTies, Follows,
     Logged, Mirrorable

\* The daemon serves a page: a cut of its log from the worker's since on.
LEMMA ServeStep ==
    ASSUME IInv, NEW t \in Ticks, Serve(t)
    PROVE  IInv'
<1>1. PICK p \in Pages(call[t].since) :
         call' = [call EXCEPT ![t].st = "served", ![t].page = p]
  BY DEF Serve
<1>2. UNCHANGED <<log, clock, copies, timer, inFlight, watermark, mine, boots>>
  BY DEF Serve, daemonVars
<1>3. p \subseteq Matching(call[t].since)
  BY DEF Pages
<1>4. /\ p \subseteq Logged /\ p \subseteq EventId
      /\ \A i \in p : log[i].at >= call[t].since
  BY <1>3, MirrorableType DEF Matching, IInv
<1>5. call \in [Ticks -> Call] /\ call[t].st = "sent"
  BY DEF IInv, TypeOK, Serve
<1>6. call' \in [Ticks -> Call]
  BY <1>1, <1>4, <1>5 DEF Call
<1>7. /\ call'[t].st = "served" /\ call'[t].page = p
      /\ call'[t].since = call[t].since
      /\ \A u \in Ticks \ {t} : call'[u] = call[u]
  BY <1>1, <1>5 DEF Call
<1>8. TypeOK'
  BY <1>2, <1>6 DEF IInv, TypeOK
<1>9. SingleFlight'
  BY <1>2, <1>5, <1>7 DEF IInv, SingleFlight, Busy
<1>10. PageSound'
  BY <1>2, <1>4, <1>7 DEF IInv, PageSound, Logged
<1>11. PageCut'
  <2> SUFFICES ASSUME OldestFirst, NEW u \in Ticks, call'[u].st = "served",
                      NEW i \in Logged \ call'[u].page, NEW j \in call'[u].page,
                      log[i].at >= call'[u].since
               PROVE  j < i
    BY <1>2 DEF PageCut, Logged
  <2>1. CASE u # t
    BY <1>7, <2>1 DEF IInv, PageCut
  <2>2. CASE u = t
    <3>1. i \in Matching(call[t].since) \ p /\ j \in p
      BY <1>7, <2>2 DEF Matching
    <3> QED
      BY <3>1 DEF Pages
  <2> QED
    BY <2>1, <2>2
<1> QED
  BY <1>2, <1>8, <1>9, <1>10, <1>11, StillStep DEF IInv

\* start() and stop() touch the timer alone.
LEMMA StartStopStep ==
    ASSUME IInv, Start \/ Stop
    PROVE  IInv'
<1>1. UNCHANGED <<log, clock, copies, inFlight, watermark, call, mine, boots>>
      /\ timer' \in BOOLEAN
  BY DEF Start, Stop, daemonVars
<1>2. TypeOK' /\ SingleFlight' /\ PageSound' /\ PageCut'
  BY <1>1 DEF IInv, TypeOK, SingleFlight, Busy, PageSound, PageCut, Logged,
     Mirrorable
<1> QED
  BY <1>1, <1>2, StillStep DEF IInv

\* tick() asks with the watermark of the moment, and only when none is under way.
LEMMA TickStep ==
    ASSUME IInv, NEW t \in Ticks, Tick(t)
    PROVE  IInv'
<1>1. /\ UNCHANGED <<log, clock, copies, timer, watermark, mine, boots>>
      /\ ~inFlight /\ inFlight' = TRUE
      /\ call' = [call EXCEPT ![t] = [st |-> "sent", since |-> watermark,
                                      page |-> {}]]
  BY DEF Tick, daemonVars
<1>2. call \in [Ticks -> Call] /\ watermark \in Int
  BY DEF IInv, TypeOK, NoWatermark
<1>3. call' \in [Ticks -> Call]
  BY <1>1, <1>2 DEF Call
<1>4. /\ call'[t].st = "sent" /\ call'[t].since = watermark
      /\ \A u \in Ticks \ {t} : call'[u] = call[u]
  BY <1>1, <1>2
<1>5. \A u \in Ticks : ~Busy(u)
  BY <1>1 DEF IInv, SingleFlight
<1>6. TypeOK'
  BY <1>1, <1>3 DEF IInv, TypeOK
<1>7. SingleFlight'
  BY <1>1, <1>4, <1>5 DEF SingleFlight, Busy
<1>8. \A u \in Ticks : call'[u].st # "served"
  BY <1>4, <1>5 DEF Busy
<1> QED
  BY <1>1, <1>6, <1>7, <1>8, StillStep DEF IInv, PageSound, PageCut

\* Ending a tick, whichever way, leaves no tick under way.
LEMMA TickEnds ==
    ASSUME IInv, NEW t \in Ticks, Busy(t), inFlight' = FALSE,
           call' = [call EXCEPT ![t] = IdleCall]
    PROVE  /\ call' \in [Ticks -> Call]
           /\ \A u \in Ticks : call'[u].st = "idle"
           /\ SingleFlight' /\ PageSound' /\ PageCut'
<1>1. call \in [Ticks -> Call] /\ IdleCall \in Call
  BY DEF IInv, TypeOK, IdleCall, Call, NoWatermark
<1>2. \A u \in Ticks \ {t} : call[u].st = "idle"
  BY DEF IInv, SingleFlight, Busy
<1>3. \A u \in Ticks : call'[u].st = "idle"
  BY <1>1, <1>2 DEF IdleCall
<1> QED
  BY <1>1, <1>3 DEF SingleFlight, Busy, PageSound, PageCut

\* A poll that throws leaves the watermark and the rows alone.
LEMMA FailStep ==
    ASSUME IInv, NEW t \in Ticks, Fail(t)
    PROVE  IInv'
<1>1. UNCHANGED <<log, clock, copies, timer, watermark, mine, boots>>
  BY DEF Fail, daemonVars
<1>2. Busy(t) /\ inFlight' = FALSE /\ call' = [call EXCEPT ![t] = IdleCall]
  BY DEF Fail, Busy
<1>3. /\ call' \in [Ticks -> Call]
      /\ SingleFlight' /\ PageSound' /\ PageCut'
  BY <1>2, TickEnds
<1>4. TypeOK'
  BY <1>1, <1>2, <1>3 DEF IInv, TypeOK
<1> QED
  BY <1>1, <1>3, <1>4, StillStep DEF IInv

\* A new process starts without a watermark and without rows of its own.
LEMMA RestartStep ==
    ASSUME IInv, Restart
    PROVE  IInv'
<1>1. /\ UNCHANGED <<log, clock, copies>>
      /\ boots' = boots + 1 /\ mine' = {} /\ watermark' = NoWatermark
      /\ timer' = FALSE /\ inFlight' = FALSE
      /\ call' = [t \in Ticks |-> IdleCall]
  BY DEF Restart, daemonVars
<1>2. \A t \in Ticks : call'[t].st = "idle"
  BY <1>1 DEF IdleCall
<1>3. TypeOK'
  <2>1. IdleCall \in Call
    BY DEF IdleCall, Call, NoWatermark
  <2>2. call' \in [Ticks -> Call]
    BY <1>1, <2>1
  <2>3. /\ log' \in Seq(Event) /\ Len(log') <= MaxEvents /\ clock' \in Nat
        /\ copies' \in [EventId -> 0 .. MaxCopies] /\ boots' \in Nat
    BY <1>1 DEF IInv, TypeOK
  <2>4. /\ timer' \in BOOLEAN /\ inFlight' \in BOOLEAN /\ mine' \subseteq EventId
        /\ watermark' \in {NoWatermark} \union 2 .. clock' + 1
    BY <1>1
  <2> QED
    BY <2>2, <2>3, <2>4 DEF TypeOK
<1>4. SingleFlight' /\ PageSound' /\ PageCut'
  BY <1>1, <1>2 DEF SingleFlight, Busy, PageSound, PageCut
<1>5. LogOrdered' /\ MineSound'
  BY <1>1 DEF IInv, LogOrdered, MineSound, Logged
<1>6. CopiesCounted'
  <2>1. Logged' = Logged /\ \A i \in Logged : Follows(i)' <=> Follows(i)
    BY <1>1 DEF Follows, Logged, Mirrorable
  <2>2. boots \in Nat /\ \A i \in EventId : copies[i] \in Nat
    BY Bounds DEF IInv, TypeOK
  <2>3. \A i \in Logged : i \in EventId
    BY MirrorableType DEF IInv
  <2> QED
    BY <1>1, <2>1, <2>2, <2>3 DEF IInv, CopiesCounted
<1>7. LostOnlyToTies'
  BY <1>1, MirrorableType DEF IInv, LostOnlyToTies, Logged, NoWatermark
<1> QED
  BY <1>3, <1>4, <1>5, <1>6, <1>7 DEF IInv

\* What a step that records does to the rows, in one place.
LEMMA RecordFacts ==
    ASSUME IInv, NEW t \in Ticks, Record(t)
    PROVE  LET rows == RowsOf(call[t].page) IN
           /\ Busy(t) /\ call[t].st = "served" /\ call[t].since = watermark
           /\ rows \subseteq Logged
           /\ \A i \in rows : Mirrorable(i) /\ log[i].at >= watermark
           /\ mine' = mine \union rows
           /\ UNCHANGED <<log, clock, timer, boots>>
<1> DEFINE rows == RowsOf(call[t].page)
<1>1. /\ call[t].st = "served" /\ mine' = mine \union rows
      /\ UNCHANGED <<log, clock, timer, boots>>
  BY DEF Record, daemonVars
<1>2. Busy(t) /\ call[t].since = watermark
  BY <1>1 DEF Busy, IInv, SingleFlight
<1>3. /\ rows \subseteq Logged
      /\ \A i \in rows : Mirrorable(i) /\ log[i].at >= watermark
  BY <1>1, <1>2 DEF RowsOf, IInv, PageSound
<1> QED
  BY <1>1, <1>2, <1>3

\* The rows inserted are counted once each, up to the bound.
LEMMA CopiesFacts ==
    ASSUME IInv, NEW t \in Ticks, Record(t), NEW i \in EventId
    PROVE  /\ copies'[i] \in 0 .. MaxCopies
           /\ copies'[i] <= copies[i] + 1
           /\ i \notin RowsOf(call[t].page) => copies'[i] = copies[i]
<1> DEFINE rows == RowsOf(call[t].page)
<1>1. copies[i] \in 0 .. MaxCopies /\ MaxCopies \in Nat
  BY Bounds DEF IInv, TypeOK
<1>2. copies' = [j \in EventId |->
          copies[j] + IF j \in rows /\ copies[j] < MaxCopies THEN 1 ELSE 0]
  BY DEF Record
<1>3. CASE i \in rows /\ copies[i] < MaxCopies
  BY <1>1, <1>2, <1>3
<1>4. CASE ~(i \in rows /\ copies[i] < MaxCopies)
  BY <1>1, <1>2, <1>4
<1> QED
  BY <1>3, <1>4

\* Where it takes the watermark.
LEMMA AdvanceFacts ==
    ASSUME IInv, NEW t \in Ticks, Record(t)
    PROVE  LET rows == RowsOf(call[t].page) IN
           /\ \/ watermark' = watermark
              \/ /\ watermark' > watermark
                 /\ \E i \in rows : /\ log[i].at + 1 = watermark'
                                    /\ log[i].at > watermark
           /\ \A i \in rows : log[i].at <= watermark'
<1> DEFINE rows == RowsOf(call[t].page)
<1>1. Advance(rows)
  BY DEF Record
<1>2. rows \subseteq Logged
  BY RecordFacts
<1>3. PICK maxAt \in Dates(rows) :
         /\ \A d \in Dates(rows) : d <= maxAt
         /\ watermark' = IF maxAt > watermark THEN maxAt + 1 ELSE watermark
  BY <1>1 DEF Advance
<1>4. \A i \in rows : log[i].at \in Nat /\ log[i].at <= maxAt
  BY <1>2, <1>3, MirrorableType DEF Dates, IInv
<1>5. watermark \in Int /\ watermark <= maxAt
  BY <1>3 DEF Dates, IInv, TypeOK, NoWatermark
<1>6. maxAt \in Int
  BY <1>2, <1>3, <1>5, MirrorableType DEF Dates, IInv
<1>7. /\ \/ watermark' = watermark
         \/ /\ watermark' > watermark
            /\ \E i \in rows : log[i].at + 1 = watermark' /\ log[i].at > watermark
      /\ \A i \in rows : log[i].at <= watermark'
  <2>1. CASE maxAt > watermark
    <3>1. PICK i \in rows : log[i].at = maxAt
      BY <1>3, <1>5, <2>1 DEF Dates
    <3>2. watermark' = maxAt + 1 /\ maxAt \in Nat
      BY <1>3, <1>4, <2>1, <3>1
    <3>3. log[i].at + 1 = watermark' /\ log[i].at > watermark
      BY <2>1, <3>1, <3>2
    <3>4. watermark' > watermark
      BY <1>5, <2>1, <3>2
    <3>5. \A j \in rows : log[j].at <= watermark'
      BY <1>4, <3>2
    <3> HIDE DEF rows
    <3> QED
      BY <3>3, <3>4, <3>5
  <2>2. CASE maxAt = watermark
    <3>1. watermark' = watermark
      BY <1>3, <1>5, <2>2
    <3>2. \A i \in rows : log[i].at <= watermark'
      BY <1>4, <2>2, <3>1
    <3> QED
      BY <3>1, <3>2
  <2> QED
    BY <1>5, <1>6, <2>1, <2>2
<1> QED
  BY <1>7

\* recordBatch and the watermark after it, in one step.
LEMMA RecordStep ==
    ASSUME IInv, NEW t \in Ticks, Record(t)
    PROVE  IInv'
<1> DEFINE rows == RowsOf(call[t].page)
<1>1. /\ Busy(t) /\ call[t].st = "served" /\ call[t].since = watermark
      /\ rows \subseteq Logged
      /\ \A i \in rows : Mirrorable(i) /\ log[i].at >= watermark
      /\ mine' = mine \union rows
      /\ \A i \in rows : log[i].at <= watermark'
      /\ UNCHANGED <<log, clock, timer, boots>>
  BY RecordFacts, AdvanceFacts
<1>2. \/ watermark' = watermark
      \/ /\ watermark' > watermark
         /\ \E i \in rows : log[i].at + 1 = watermark' /\ log[i].at > watermark
  BY AdvanceFacts
<1>3. copies' \in [EventId -> 0 .. MaxCopies]
  <2>1. \A i \in EventId : copies'[i] \in 0 .. MaxCopies
    BY CopiesFacts
  <2> QED
    BY <2>1 DEF Record
<1>4. ASSUME NEW i \in EventId
       PROVE  /\ copies'[i] <= copies[i] + 1
              /\ i \notin rows => copies'[i] = copies[i]
  BY CopiesFacts
<1>5. inFlight' = FALSE /\ call' = [call EXCEPT ![t] = IdleCall]
  BY DEF Record
<1>6. /\ call' \in [Ticks -> Call]
      /\ SingleFlight' /\ PageSound' /\ PageCut'
  BY <1>1, <1>5, TickEnds
<1>7. \A i \in Logged : log[i].at \in Nat /\ i \in EventId /\ log[i].at <= clock
  BY MirrorableType DEF IInv, LogOrdered
<1>8. /\ watermark \in {NoWatermark} \union 2 .. clock + 1
      /\ clock \in Nat /\ watermark \in Int /\ boots \in Nat
  BY DEF IInv, TypeOK, NoWatermark
<1>9. watermark' \in {NoWatermark} \union 2 .. clock' + 1
  <2>1. CASE watermark' = watermark
    BY <1>1, <1>8, <2>1
  <2>2. ASSUME NEW i \in rows, log[i].at + 1 = watermark'
        PROVE  watermark' \in 2 .. clock + 1
    BY <1>1, <1>7, <1>8, <2>2 DEF Mirrorable
  <2> QED
    BY <1>1, <1>2, <2>1, <2>2
<1>10. TypeOK'
  <2>1. mine' \subseteq EventId
    BY <1>1, <1>7 DEF IInv, TypeOK
  <2> QED
    BY <1>1, <1>5, <1>6, <1>9, <1>3, <2>1 DEF IInv, TypeOK
<1>11. LogOrdered'
  BY <1>1 DEF IInv, LogOrdered, Logged
<1>12. MineSound'
  <2>1. ASSUME NEW i \in mine'
        PROVE  i \in Logged /\ Mirrorable(i) /\ log[i].at <= watermark'
    <3>1. CASE i \in rows
      BY <1>1, <3>1
    <3>2. CASE i \in mine
      BY <1>2, <1>7, <1>8, <1>9, <3>2 DEF IInv, MineSound, NoWatermark
    <3> QED
      BY <1>1, <2>1, <3>1, <3>2
  <2>2. watermark' # NoWatermark => \E i \in mine' : log[i].at + 1 = watermark'
    BY <1>1, <1>2 DEF IInv, MineSound
  <2> QED
    BY <1>1, <2>1, <2>2 DEF MineSound, Logged, Mirrorable
<1>13. CopiesCounted'
  <2>1. \A i \in EventId \ Logged : copies'[i] = 0
    BY <1>1, <1>4 DEF IInv, CopiesCounted
  <2>2. ASSUME NEW i \in Logged, ~Follows(i)
        PROVE  /\ copies'[i] <= boots
               /\ i \notin mine' => copies'[i] <= boots - 1
    <3>1. copies[i] \in Nat /\ copies'[i] \in Nat /\ i \in EventId
      BY <1>1, <1>7, <1>3, Bounds DEF IInv, TypeOK
    <3>2. CASE i \notin rows
      <4>1. copies'[i] = copies[i]
        BY <1>4, <3>1, <3>2
      <4>2. i \notin mine' => i \notin mine
        BY <1>1
      <4> QED
        BY <2>2, <4>1, <4>2 DEF IInv, CopiesCounted
    <3>3. CASE i \in rows
      <4>1. i \notin mine
        <5> SUFFICES ASSUME i \in mine PROVE FALSE
          OBVIOUS
        <5>1. log[i].at = watermark
          BY <1>1, <1>7, <1>8, <3>3 DEF IInv, MineSound
        <5>2. watermark # NoWatermark
          BY <1>7, <5>1 DEF NoWatermark
        <5>3. PICK j \in mine : log[j].at + 1 = watermark
          BY <5>2 DEF IInv, MineSound
        <5> QED
          BY <2>2, <5>1, <5>3 DEF IInv, MineSound, Follows
      <4>2. copies[i] <= boots - 1
        BY <2>2, <4>1 DEF IInv, CopiesCounted
      <4>3. i \in mine' /\ copies'[i] <= copies[i] + 1
        BY <1>1, <1>4, <3>1, <3>3
      <4> QED
        BY <1>8, <3>1, <4>2, <4>3
    <3> QED
      BY <3>2, <3>3
  <2> QED
    BY <1>1, <2>1, <2>2 DEF IInv, CopiesCounted, Logged, Follows, Mirrorable
<1>14. LostOnlyToTies'
  <2> SUFFICES ASSUME OldestFirst, NEW i \in Logged, Mirrorable(i),
                      log[i].at < watermark'
               PROVE  \E j \in mine' : log[j].at = log[i].at
    BY <1>1 DEF LostOnlyToTies, Logged, Mirrorable
  <2>1. CASE log[i].at < watermark
    BY <1>1, <2>1 DEF IInv, LostOnlyToTies
  <2>2. CASE log[i].at >= watermark
    <3>1. PICK j \in rows : log[j].at + 1 = watermark'
      BY <1>2, <1>7, <1>8, <2>2
    <3>2. log[i].at <= log[j].at
      BY <1>1, <1>7, <3>1
    <3>3. CASE i \in call[t].page
      BY <1>1, <3>3 DEF RowsOf
    <3>4. CASE i \notin call[t].page
      <4>1. j < i /\ j \in Logged
        BY <1>1, <2>2, <3>1, <3>4 DEF IInv, PageCut, RowsOf
      <4>2. log[j].at <= log[i].at
        BY <1>1, <3>1, <4>1 DEF IInv, LogOrdered, Mirrorable
      <4> QED
        BY <1>1, <1>7, <3>1, <3>2, <4>2
    <3> QED
      BY <3>3, <3>4
  <2> QED
    BY <1>7, <1>8, <2>1, <2>2
<1> QED
  BY <1>6, <1>10, <1>11, <1>12, <1>13, <1>14 DEF IInv

\* Every step keeps the invariant.
LEMMA NextIInv == IInv /\ [Next]_vars => IInv'
<1> SUFFICES ASSUME IInv, [Next]_vars PROVE IInv'
  OBVIOUS
<1>1. CASE Daemon
  BY <1>1, LogStep, ServeStep DEF Daemon
<1>2. CASE Worker
  BY <1>2, StartStopStep, TickStep, RecordStep, FailStep DEF Worker
<1>3. CASE Restart
  BY <1>3, RestartStep
<1>4. CASE UNCHANGED vars
  BY <1>4, StillStep DEF vars, daemonVars, workerVars, IInv, TypeOK, SingleFlight,
     Busy, PageSound, PageCut, Logged, Mirrorable
<1> QED
  BY <1>1, <1>2, <1>3, <1>4 DEF Next

----------------------------------------------------------------------------
(* The theorems.                                                           *)

\* IInv is inductive, hence an invariant.
THEOREM Invariance == Spec => []IInv
<1> QED
  BY InitIInv, NextIInv, PTL DEF Spec

\* Type correctness, with the watermark never more than one millisecond past
\* the daemon's clock (auditPoll.ts:43-45 and every assignment after it).
THEOREM TypeCorrect == Spec => []TypeOK
<1>1. IInv => TypeOK
  BY DEF IInv
<1> QED
  BY <1>1, Invariance, PTL

\* At most one tick is under way, and the watermark it asked with still holds
\* when its answer comes (auditPoll.ts:51-66).
THEOREM TicksAreSingleFlight == Spec => []SingleFlight
<1>1. IInv => SingleFlight
  BY DEF IInv
<1> QED
  BY <1>1, Invariance, PTL

\* One row for each life of the process at most, but for an event that
\* follows another by exactly a millisecond (auditPoll.ts:61-73).
THEOREM RecordedOncePerLife == Spec => []OncePerLife
<1>1. IInv => OncePerLife
  BY DEF IInv, OncePerLife, CopiesCounted, Follows
<1> QED
  BY <1>1, Invariance, PTL

\* With oldest-first pages the mirror is complete below the watermark, up to
\* events that share a millisecond with a recorded one (auditPoll.ts:73).
THEOREM CompleteUpToTies == Spec => []LostOnlyToTies
<1>1. IInv => LostOnlyToTies
  BY DEF IInv
<1> QED
  BY <1>1, Invariance, PTL

\* A life records again only what is dated exactly at the watermark
\* (auditPoll.ts:61-73).
THEOREM OnlyTheWatermarkRepeats == Spec => RepeatsOnlyAtWatermark
<1> DEFINE A == \A i \in EventId :
                  /\ copies'[i] <= copies[i] + 1
                  /\ i \in mine /\ copies'[i] > copies[i] => log[i].at = watermark
<1>1. IInv /\ [Next]_vars => [A]_vars
  <2> SUFFICES ASSUME IInv, Next PROVE A
    OBVIOUS
  <2>1. \A i \in EventId : copies[i] \in Nat
    BY Bounds DEF IInv, TypeOK
  <2>2. CASE copies' = copies
    BY <2>1, <2>2
  <2>3. ASSUME NEW t \in Ticks, Record(t) PROVE A
    <3> SUFFICES ASSUME NEW i \in EventId
                 PROVE  /\ copies'[i] <= copies[i] + 1
                        /\ i \in mine /\ copies'[i] > copies[i]
                             => log[i].at = watermark
      OBVIOUS
    <3>1. /\ copies'[i] <= copies[i] + 1
          /\ i \notin RowsOf(call[t].page) => copies'[i] = copies[i]
      BY <2>3, CopiesFacts
    <3>2. i \in RowsOf(call[t].page) => log[i].at >= watermark /\ i \in Logged
      BY <2>3, RecordFacts
    <3>3. i \in mine => log[i].at <= watermark
      BY DEF IInv, MineSound
    <3>4. watermark \in Int /\ (i \in Logged => log[i].at \in Nat)
      BY MirrorableType DEF IInv, TypeOK, NoWatermark
    <3> QED
      BY <2>1, <3>1, <3>2, <3>3, <3>4
  <2> QED
    BY <2>2, <2>3 DEF Next, Daemon, Worker, Log, Serve, Start, Stop, Tick, Fail,
       Restart
<1> QED
  BY <1>1, Invariance, PTL DEF Spec, RepeatsOnlyAtWatermark

\* The watermark moves only past rows inserted in the same step
\* (auditPoll.ts:69-74).
THEOREM WatermarkMovesWithRows == Spec => WatermarkFollowsRows
<1> DEFINE A == watermark' # watermark /\ boots' = boots =>
                  /\ watermark' > watermark
                  /\ \E i \in mine' \ mine : watermark' = log[i].at + 1
<1>1. IInv /\ [Next]_vars => [A]_vars
  <2> SUFFICES ASSUME IInv, Next, watermark' # watermark, boots' = boots
               PROVE  /\ watermark' > watermark
                      /\ \E i \in mine' \ mine : watermark' = log[i].at + 1
    OBVIOUS
  <2>1. ~Restart
    BY DEF Restart, IInv, TypeOK
  <2>2. PICK t \in Ticks : Record(t)
    BY <2>1 DEF Next, Daemon, Worker, Log, Serve, Start, Stop, Tick, Fail,
       workerVars
  <2>3. /\ watermark' > watermark
        /\ mine' = mine \union RowsOf(call[t].page)
        /\ RowsOf(call[t].page) \subseteq Logged
    BY <2>2, RecordFacts, AdvanceFacts
  <2>4. PICK i \in RowsOf(call[t].page) :
          log[i].at + 1 = watermark' /\ log[i].at > watermark
    BY <2>2, RecordFacts, AdvanceFacts
  <2>5. i \notin mine
    BY <2>3, <2>4, MirrorableType DEF IInv, MineSound, TypeOK, NoWatermark
  <2> QED
    BY <2>3, <2>4, <2>5
<1> QED
  BY <1>1, Invariance, PTL DEF Spec, WatermarkFollowsRows
----------------------------------------------------------------------------
(* The worker implements Mirror: what it spreads over a query, an answer   *)
(* and an insert amounts, whatever happens in between, to one atomic step. *)
(* The step is the insert.  Between the query and the insert the watermark *)
(* stands still (SingleFlight), and what the daemon logs meanwhile comes   *)
(* after everything in the page, so that the page is still what the log    *)
(* has from the watermark up to the last event of the page (PageCut), and  *)
(* the batch of Mirror's step is the rows inserted.                        *)

\* A nonempty set of naturals has a least element.
LEMMA LeastNatural ==
    ASSUME NEW T \in SUBSET Nat, T # {}
    PROVE  \E n \in T : \A m \in T : n <= m
<1> DEFINE R == OpToRel(<, Nat)
<1>1. \A x, y \in Nat : <<y, x>> \in R <=> y < x
  BY DEF OpToRel
<1>2. IsWellFoundedOn(R, Nat)
  BY NatLessThanWellFounded
<1> HIDE DEF R
<1>3. PICK n \in T : \A m \in T : ~(<<m, n>> \in R)
  BY <1>2, WFMin
<1>4. \A m \in T : ~(m < n) /\ m \in Nat /\ n \in Nat
  BY <1>1, <1>3
<1> QED
  BY <1>4

\* The orchestrators' events the log has from the watermark on, up to some
\* point of it: what Mirror's step takes.
LEMMA BatchFacts ==
    ASSUME IInv, NEW upTo \in 0 .. Len(log)
    PROVE  /\ M!Batch(upTo) \subseteq Logged
           /\ \A i \in Logged : i \in M!Batch(upTo) <=>
                i <= upTo /\ Mirrorable(i) /\ log[i].at >= watermark
<1>1. Len(log) \in Nat /\ upTo \in Nat /\ upTo <= Len(log)
  BY DEF IInv, TypeOK
<1> QED
  BY <1>1 DEF M!Batch, Logged, Mirrorable

\* The rows of a page are such a batch, up to just before the first event the
\* page leaves out.
LEMMA PageIsBatch ==
    ASSUME IInv, OldestFirst, NEW t \in Ticks, call[t].st = "served",
           call[t].since = watermark
    PROVE  \E upTo \in 0 .. Len(log) : RowsOf(call[t].page) = M!Batch(upTo)
<1> DEFINE page == call[t].page
           left == {i \in Logged \ page : log[i].at >= watermark}
<1>1. Len(log) \in Nat /\ Logged = 1 .. Len(log)
  BY DEF IInv, TypeOK, Logged
<1>2. page \subseteq Logged /\ \A i \in page : log[i].at >= watermark
  BY DEF IInv, PageSound
<1>3. \A i \in left, j \in page : j < i
  BY DEF IInv, PageCut
<1>4. PICK upTo \in 0 .. Len(log) :
        \A i \in Logged : log[i].at >= watermark => (i \in page <=> i <= upTo)
  <2>1. CASE left = {}
    <3>1. Len(log) \in 0 .. Len(log) /\ \A i \in Logged : i <= Len(log)
      BY <1>1
    <3> QED
      BY <2>1, <3>1
  <2>2. CASE left # {}
    <3>1. left \in SUBSET Nat
      BY <1>1
    <3>2. PICK n \in left : \A m \in left : n <= m
      BY <2>2, <3>1, LeastNatural
    <3>3. n - 1 \in 0 .. Len(log) /\ n \in Nat
      BY <1>1, <3>2
    <3>4. ASSUME NEW i \in Logged, log[i].at >= watermark
          PROVE  i \in page <=> i <= n - 1
      <4>1. i \in Nat
        BY <1>1
      <4>2. CASE i \in page
        BY <1>3, <3>3, <4>1, <4>2
      <4>3. CASE i \notin page
        <5>1. i \in left
          BY <3>4, <4>3
        <5> QED
          BY <3>2, <3>3, <4>1, <4>3, <5>1
      <4> QED
        BY <4>2, <4>3
    <3> QED
      BY <3>3, <3>4
  <2> QED
    BY <2>1, <2>2
<1>5. /\ M!Batch(upTo) \subseteq Logged
      /\ \A i \in Logged : i \in M!Batch(upTo) <=>
           i <= upTo /\ Mirrorable(i) /\ log[i].at >= watermark
  BY <1>4, BatchFacts
<1>6. \A i \in Logged : i \in RowsOf(page) <=> i \in M!Batch(upTo)
  BY <1>2, <1>4, <1>5 DEF RowsOf
<1>7. RowsOf(page) \subseteq Logged
  BY <1>2 DEF RowsOf
<1>8. RowsOf(page) = M!Batch(upTo)
  BY <1>5, <1>6, <1>7
<1> QED
  BY <1>8

----------------------------------------------------------------------------
(* The insert is Mirror's step.                                            *)

\* recordBatch of a page is one Copy of the mirror.
LEMMA RecordIsCopy ==
    ASSUME IInv, OldestFirst, NEW t \in Ticks, Record(t)
    PROVE  \E upTo \in 0 .. Len(log) : M!Copy(upTo)
<1> DEFINE rows == RowsOf(call[t].page)
<1>1. /\ call[t].st = "served" /\ call[t].since = watermark
      /\ rows \subseteq Logged /\ log' = log
      /\ \A i \in rows : log[i].at >= watermark
  BY RecordFacts
<1>2. PICK upTo \in 0 .. Len(log) : rows = M!Batch(upTo)
  BY <1>1, PageIsBatch
<1>3. copies' = [i \in EventId |->
          copies[i] + IF i \in rows /\ copies[i] < MaxCopies THEN 1 ELSE 0]
  BY DEF Record
<1>4. PICK maxAt \in Dates(rows) :
        /\ \A d \in Dates(rows) : d <= maxAt
        /\ watermark' = IF maxAt > watermark THEN maxAt + 1 ELSE watermark
  BY DEF Record, Advance
<1>5. watermark \in Int /\ \A i \in rows : log[i].at \in Nat
  BY <1>1, MirrorableType DEF IInv, TypeOK, NoWatermark
<1>6. watermark <= maxAt /\ \A i \in rows : log[i].at <= maxAt
  BY <1>4 DEF Dates
<1>7. \/ rows = {} /\ watermark' = watermark
      \/ \E i \in rows :
           /\ \A j \in rows : log[j].at <= log[i].at
           /\ watermark' = IF log[i].at > watermark
                           THEN log[i].at + 1 ELSE watermark
  <2>1. CASE \E i \in rows : log[i].at = maxAt
    BY <1>4, <1>6, <2>1
  <2>2. CASE ~\E i \in rows : log[i].at = maxAt
    <3>1. maxAt = watermark
      BY <1>4, <2>2 DEF Dates
    <3>2. rows = {}
      BY <1>1, <1>5, <1>6, <2>2, <3>1
    <3>3. watermark' = watermark
      BY <1>4, <1>5, <3>1
    <3> QED
      BY <3>2, <3>3
  <2> QED
    BY <2>1, <2>2
<1> HIDE DEF rows
<1>8. M!Copy(upTo)
  BY <1>1, <1>2, <1>3, <1>7 DEF M!Copy
<1> QED
  BY <1>8

\* Every step of the worker, the daemon or the container is a step of Mirror
\* or leaves its variables alone.
LEMMA StepSimulation ==
    ASSUME IInv, OldestFirst, [Next]_vars
    PROVE  [M!Next]_(M!vars)
<1>1. ASSUME NEW o \in Orchs \union {NoOrch}, NEW d \in ClockSteps,
             NEW dated \in BOOLEAN, Log(o, d, dated)
      PROVE  M!Next
  <2>1. /\ Len(log') = Len(log) + 1
        /\ \A i \in Logged : log'[i] = log[i]
    BY <1>1, LogGrows DEF IInv
  <2>2. M!Logs
    BY <1>1, <2>1 DEF M!Logs, Log, Logged, workerVars
  <2> QED
    BY <2>2 DEF M!Next
<1>2. ASSUME NEW t \in Ticks, Record(t)
      PROVE  M!Next
  BY <1>2, RecordIsCopy DEF M!Next
<1>3. CASE Restart
  <2>1. M!Forget
    BY <1>3 DEF M!Forget, M!NoMark, Restart, NoWatermark, daemonVars
  <2> QED
    BY <2>1 DEF M!Next
<1>4. ASSUME NEW t \in Ticks, Serve(t) \/ Tick(t) \/ Fail(t)
      PROVE  UNCHANGED M!vars
  BY <1>4 DEF Serve, Tick, Fail, M!vars, daemonVars
<1>5. CASE Start \/ Stop \/ UNCHANGED vars
  <2>1. UNCHANGED M!vars
    BY <1>5 DEF Start, Stop, vars, M!vars, daemonVars, workerVars
  <2> QED
    BY <2>1
<1> QED
  BY <1>1, <1>2, <1>3, <1>4, <1>5 DEF Next, Daemon, Worker

\* With a daemon that pages oldest first, the worker implements the atomic
\* mirror (auditPoll.ts:47-88).
THEOREM RefinesMirror ==
    ASSUME OldestFirst
    PROVE  Spec => ImplementsMirror
<1>1. Init => M!Init
  BY DEF Init, M!Init, M!NoMark, NoWatermark
<1>2. IInv /\ [Next]_vars => [M!Next]_(M!vars)
  BY StepSimulation
<1> QED
  BY <1>1, <1>2, Invariance, PTL DEF Spec, ImplementsMirror, M!Spec
----------------------------------------------------------------------------
(* The page that stops the worker.  What keeps an event from the mirror    *)
(* (MirroredUnlessBlocked) is not a matter of timing: it lasts for the     *)
(* rest of the process's life.                                             *)

\* The first Limit events from the watermark on leave it where it is.
Jam(p) ==
    /\ p \subseteq Matching(watermark) /\ Cardinality(p) = Limit
    /\ \A i \in p, j \in Matching(watermark) \ p : i < j
    /\ \A i \in p : Mirrorable(i) => log[i].at = watermark

\* As long as the process lives, a page like that stays in the way: the
\* watermark does not move, every poll is answered with the same page, and no
\* row of any other event is inserted (auditPoll.ts:61-73).
JamLasts ==
    [][\A p \in SUBSET EventId : Jam(p) /\ boots' = boots =>
          /\ Jam(p)'
          /\ watermark' = watermark
          /\ \A t \in Ticks : Serve(t) => call'[t].page = p
          /\ \A i \in EventId \ p : copies'[i] = copies[i]]_vars

\* A page is never longer than fetchLimit.
PagesCut ==
    \A t \in Ticks : call[t].st = "served" => Cardinality(call[t].page) <= Limit
JInv == IInv /\ PagesCut

\* Event ids are finitely many.
LEMMA EventsFinite ==
    \A S : S \subseteq EventId => IsFiniteSet(S) /\ Cardinality(S) \in Nat
<1>1. IsFiniteSet(EventId)
  BY BoundsAssumption, FS_Interval DEF EventId
<1> QED
  BY <1>1, FS_Subset, FS_CardinalityType

\* Of two sets of events, each an initial part of the same events, the one that
\* is not longer is part of the other.
LEMMA ShorterIsPart ==
    ASSUME NEW F \in SUBSET EventId, NEW p \in SUBSET F, NEW q \in SUBSET F,
           \A i \in p, j \in F \ p : i < j,
           \A i \in q, j \in F \ q : i < j,
           Cardinality(q) <= Cardinality(p)
    PROVE  q \subseteq p
<1> SUFFICES ASSUME NEW j \in q \ p PROVE FALSE
  OBVIOUS
<1>1. p \subseteq q
  <2> SUFFICES ASSUME NEW i \in p \ q PROVE FALSE
    OBVIOUS
  <2>1. i < j /\ j < i /\ i \in Int /\ j \in Int
    BY DEF EventId
  <2> QED
    BY <2>1
<1>2. IsFiniteSet(q) /\ Cardinality(q) \in Nat /\ Cardinality(p) \in Nat
  BY EventsFinite
<1>3. p # q
  OBVIOUS
<1>4. Cardinality(p) < Cardinality(q)
  BY <1>1, <1>2, <1>3, FS_Subset
<1> QED
  BY <1>2, <1>4

\* A page on its way back has been cut.
LEMMA PagesCutStep == IInv /\ PagesCut /\ [Next]_vars => PagesCut'
<1> SUFFICES ASSUME IInv, PagesCut, [Next]_vars,
                    NEW t \in Ticks, call'[t].st = "served"
             PROVE  Cardinality(call'[t].page) <= Limit
  BY DEF PagesCut
<1>1. call \in [Ticks -> Call]
  BY DEF IInv, TypeOK
<1>2. CASE call'[t] = call[t]
  BY <1>2 DEF PagesCut
<1>3. CASE Serve(t)
  <2>1. PICK p \in Pages(call[t].since) :
           call' = [call EXCEPT ![t].st = "served", ![t].page = p]
    BY <1>3 DEF Serve
  <2>2. call'[t].page = p
    BY <1>1, <2>1 DEF Call
  <2>3. Cardinality(p) <= Limit
    BY LimitAssumption DEF Pages
  <2> QED
    BY <2>2, <2>3
<1>4. CASE call'[t].st # "served"
  BY <1>4
<1>5. call'[t] = call[t] \/ Serve(t) \/ call'[t].st # "served"
  <2>1. CASE \E u \in Ticks : Serve(u)
    BY <1>1, <2>1 DEF Serve
  <2>2. CASE \E u \in Ticks : Tick(u)
    BY <1>1, <2>2 DEF Tick
  <2>3. CASE \E u \in Ticks : Record(u) \/ Fail(u)
    BY <1>1, <2>3 DEF Record, Fail, IdleCall
  <2>4. CASE Restart
    BY <1>1, <2>4 DEF Restart, IdleCall
  <2>5. CASE Start \/ Stop \/ UNCHANGED vars
    BY <2>5 DEF Start, Stop, vars, workerVars
  <2>6. CASE \E o \in Orchs \union {NoOrch}, d \in ClockSteps, dated \in BOOLEAN :
                Log(o, d, dated)
    BY <2>6 DEF Log, workerVars
  <2> QED
    BY <2>1, <2>2, <2>3, <2>4, <2>5, <2>6 DEF Next, Daemon, Worker
<1> QED
  BY <1>2, <1>3, <1>4, <1>5

\* A new event comes after the page, or below the watermark.
LEMMA JamLogStep ==
    ASSUME JInv, NEW p \in SUBSET EventId, Jam(p),
           NEW o \in Orchs \union {NoOrch}, NEW d \in ClockSteps,
           NEW dated \in BOOLEAN, Log(o, d, dated)
    PROVE  Jam(p)'
<1>1. PICK n : n = Len(log) + 1
  OBVIOUS
<1>2. /\ n \in EventId
      /\ \A i \in Logged : log'[i] = log[i] /\ i < n
      /\ Logged' = Logged \union {n} /\ n \notin Logged
  <2>1. /\ n \in EventId /\ \A i \in Logged : log'[i] = log[i]
        /\ Logged' = Logged \union {n} /\ n \notin Logged
    BY <1>1, LogGrows DEF JInv, IInv
  <2>2. \A i \in Logged : i < n
    BY <1>1 DEF Logged, JInv, IInv, TypeOK
  <2> QED
    BY <2>1, <2>2
<1>3. watermark' = watermark
  BY DEF Log, workerVars
<1>4. Matching(watermark) \subseteq Logged
      /\ Matching(watermark)' \subseteq Matching(watermark) \union {n}
      /\ Matching(watermark) \subseteq Matching(watermark)'
  BY <1>2, <1>3 DEF Matching
<1>5. \A i \in p : Mirrorable(i)' <=> Mirrorable(i)
  BY <1>2, <1>4 DEF Jam, Mirrorable
<1> QED
  BY <1>2, <1>3, <1>4, <1>5 DEF Jam

\* A poll that asks past a jam is answered with it.
LEMMA JamServeStep ==
    ASSUME JInv, OldestFirst, NEW p \in SUBSET EventId, Jam(p),
           NEW t \in Ticks, Serve(t)
    PROVE  call'[t].page = p
<1>1. call[t].since = watermark
  BY DEF JInv, IInv, SingleFlight, Busy, Serve
<1>2. PICK q \in Pages(watermark) :
         call' = [call EXCEPT ![t].st = "served", ![t].page = q]
  BY <1>1 DEF Serve
<1>3. PICK F : F = Matching(watermark)
  OBVIOUS
<1>4. F \in SUBSET EventId
  BY <1>3, MirrorableType DEF Matching, JInv, IInv
<1>5. /\ p \in SUBSET F /\ Cardinality(p) = Limit
      /\ \A i \in p, j \in F \ p : i < j
  BY <1>3 DEF Jam
<1>6. /\ Limit \in Nat /\ IsFiniteSet(F) /\ Cardinality(F) \in Nat
      /\ Cardinality(p) <= Cardinality(F)
      /\ Cardinality(p) = Cardinality(F) => p = F
  BY <1>4, <1>5, EventsFinite, FS_Subset, LimitAssumption
<1>7. q = p
  <2>1. CASE Cardinality(F) <= Limit
    <3>1. q = F
      BY <1>2, <1>3, <2>1 DEF Pages
    <3>2. Cardinality(p) = Cardinality(F)
      BY <1>5, <1>6, <2>1
    <3> QED
      BY <1>6, <3>1, <3>2
  <2>2. CASE ~(Cardinality(F) <= Limit)
    <3>1. /\ q \in SUBSET F /\ Cardinality(q) = Limit
          /\ \A i \in q, j \in F \ q : i < j
      BY <1>2, <1>3, <2>2 DEF Pages
    <3>2. q \subseteq p
      BY <1>4, <1>5, <1>6, <3>1, ShorterIsPart
    <3>3. p \subseteq q
      BY <1>4, <1>5, <1>6, <3>1, ShorterIsPart
    <3> QED
      BY <3>2, <3>3
  <2> QED
    BY <2>1, <2>2
<1>8. call \in [Ticks -> Call]
  BY DEF JInv, IInv, TypeOK
<1> QED
  BY <1>2, <1>7, <1>8 DEF Call

\* An answer that comes back in front of a jam holds nothing else.
LEMMA JamRecordStep ==
    ASSUME JInv, OldestFirst, NEW p \in SUBSET EventId, Jam(p),
           NEW t \in Ticks, Record(t)
    PROVE  /\ RowsOf(call[t].page) \subseteq p
           /\ UNCHANGED <<log, watermark>>
<1>1. PICK q : q = call[t].page
  OBVIOUS
<1>2. PICK F : F = Matching(watermark)
  OBVIOUS
<1>3. F \in SUBSET EventId
  BY <1>2, MirrorableType DEF Matching, JInv, IInv
<1>4. /\ p \in SUBSET F /\ Cardinality(p) = Limit
      /\ \A i \in p, j \in F \ p : i < j
  BY <1>2 DEF Jam
<1>5. call[t].st = "served" /\ call[t].since = watermark /\ log' = log
  BY RecordFacts DEF JInv
<1>6. q \in SUBSET F /\ Cardinality(q) <= Limit
  BY <1>1, <1>2, <1>5 DEF JInv, IInv, PageSound, PagesCut, Matching
<1>7. \A i \in q, j \in F \ q : i < j
  BY <1>1, <1>2, <1>5 DEF JInv, IInv, PageCut, Matching
<1>8. q \subseteq p
  BY <1>3, <1>4, <1>6, <1>7, ShorterIsPart
<1>9. \A i \in RowsOf(q) : log[i].at = watermark
  BY <1>8 DEF RowsOf, Jam
<1>10. watermark \in Int
  BY DEF JInv, IInv, TypeOK, NoWatermark
<1>11. watermark' = watermark
  BY <1>1, <1>9, <1>10, AdvanceFacts DEF JInv
<1> QED
  BY <1>1, <1>5, <1>8, <1>11 DEF RowsOf

\* With a daemon that pages oldest first, a page of events that the worker
\* skips, or that are dated at its watermark, is the last it ever gets
\* (auditPoll.ts:63, 66).
THEOREM JamsLast ==
    ASSUME OldestFirst
    PROVE  Spec => JamLasts
<1> DEFINE A == \A p \in SUBSET EventId : Jam(p) /\ boots' = boots =>
                  /\ Jam(p)'
                  /\ watermark' = watermark
                  /\ \A t \in Ticks : Serve(t) => call'[t].page = p
                  /\ \A i \in EventId \ p : copies'[i] = copies[i]
<1>1. JInv /\ [Next]_vars => [A]_vars
  <2> SUFFICES ASSUME JInv, Next, NEW p \in SUBSET EventId, Jam(p), boots' = boots
               PROVE  /\ Jam(p)'
                      /\ watermark' = watermark
                      /\ \A t \in Ticks : Serve(t) => call'[t].page = p
                      /\ \A i \in EventId \ p : copies'[i] = copies[i]
    OBVIOUS
  <2>1. \A t \in Ticks : Serve(t) => call'[t].page = p
    BY JamServeStep
  <2>2. ~Restart
    BY DEF Restart, JInv, IInv, TypeOK
  <2>3. ASSUME NEW o \in Orchs \union {NoOrch}, NEW d \in ClockSteps,
               NEW dated \in BOOLEAN, Log(o, d, dated)
        PROVE  Jam(p)' /\ watermark' = watermark /\ copies' = copies
    BY <2>3, JamLogStep DEF Log, workerVars
  <2>4. ASSUME NEW t \in Ticks, Record(t)
        PROVE  /\ Jam(p)' /\ watermark' = watermark
               /\ \A i \in EventId \ p : copies'[i] = copies[i]
    <3>1. RowsOf(call[t].page) \subseteq p /\ UNCHANGED <<log, watermark>>
      BY <2>4, JamRecordStep
    <3>2. Jam(p)'
      BY <3>1 DEF Jam, Matching, Logged, Mirrorable
    <3> QED
      BY <2>4, <3>1, <3>2, CopiesFacts DEF JInv
  <2>5. CASE UNCHANGED <<log, watermark, copies>>
    <3>1. Jam(p)'
      BY <2>5 DEF Jam, Matching, Logged, Mirrorable
    <3> QED
      BY <2>1, <2>5, <3>1
  <2> QED
    BY <2>1, <2>2, <2>3, <2>4, <2>5
    DEF Next, Daemon, Worker, Serve, Start, Stop, Tick, Fail, daemonVars
<1>2. JInv /\ [Next]_vars => JInv'
  BY NextIInv, PagesCutStep DEF JInv
<1>3. Init => JInv
  BY InitIInv DEF JInv, PagesCut, Init, IdleCall
<1> QED
  BY <1>1, <1>2, <1>3, PTL DEF Spec, JamLasts
=============================================================================
