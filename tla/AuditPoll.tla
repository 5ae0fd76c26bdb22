----------------------------- MODULE AuditPoll -----------------------------
(***************************************************************************)
(* The audit-poll worker (src/runtime/workers/auditPoll.ts).  Every        *)
(* interval it asks the resolver daemon for the audit events since an      *)
(* in-memory watermark, copies those of an orchestrator into the SQLite    *)
(* table routing_observations, and moves the watermark one millisecond     *)
(* past the newest row it copied.                                          *)
(*                                                                         *)
(* The daemon is another process: it appends to its log while a poll is in *)
(* flight, it answers from the log as it is when it serves the call, and   *)
(* the call may fail on either side of that (2 s deadline).  The console   *)
(* may be restarted at any moment; only the table survives.                *)
(***************************************************************************)
EXTENDS Integers, Sequences, FiniteSets

CONSTANTS
    Ticks,        \* invocations of tick() that may be under way together
    Orchs,        \* orchestrator addresses
    NoOrch,       \* the missing address of a resolver-level event
    Limit,        \* fetchLimit
    ClockSteps,   \* how far the daemon's clock may move between two events
    OldestFirst,  \* whether a page cut at Limit keeps the oldest events
    MaxEvents,    \* bound: length of the daemon's log
    MaxNoise,     \* bound: events in the log the worker skips
    MaxCopies,    \* bound: rows of one event are counted up to here
    MaxBoots      \* bound: lives of the console process

ASSUME LimitAssumption  == Limit \in Nat \ {0}
ASSUME ClockAssumption  == ClockSteps \subseteq Nat
ASSUME OrchAssumption   == NoOrch \notin Orchs
ASSUME BoundsAssumption == {MaxEvents, MaxNoise, MaxCopies, MaxBoots} \subseteq Nat

NoWatermark == -1                 \* watermarkMs = null, read as `?? -1`
EventId     == 1 .. MaxEvents
Event       == [at : Nat, orch : Orchs \union {NoOrch}]
Call        == [st : {"idle", "sent", "served"}, since : Int,
                page : SUBSET EventId]
IdleCall    == [st |-> "idle", since |-> NoWatermark, page |-> {}]

VARIABLES
    log,        \* the daemon's audit log
    clock,      \* the daemon's clock, in milliseconds
    copies,     \* rows of routing_observations, counted per event
    timer,      \* the interval is armed
    inFlight,   \* the single-flight flag
    watermark,  \* watermarkMs
    call,       \* the getAuditLog call each tick is waiting for
    mine,       \* history: events this life of the process has copied
    boots       \* lives of the process so far

daemonVars == <<log, clock>>
workerVars == <<timer, inFlight, watermark, call, mine>>
vars       == <<daemonVars, copies, workerVars, boots>>

Logged        == 1 .. Len(log)
Mirrorable(i) == log[i].orch # NoOrch /\ log[i].at > 0

TypeOK ==
    /\ log \in Seq(Event) /\ Len(log) <= MaxEvents
    /\ clock \in Nat
    /\ copies \in [EventId -> 0 .. MaxCopies]
    /\ timer \in BOOLEAN /\ inFlight \in BOOLEAN
    /\ watermark \in {NoWatermark} \union 2 .. clock + 1
    /\ call \in [Ticks -> Call]
    /\ mine \subseteq EventId
    /\ boots \in Nat

Init ==
    /\ log = <<>> /\ clock = 1
    /\ copies = [i \in EventId |-> 0]
    /\ timer = FALSE /\ inFlight = FALSE
    /\ watermark = NoWatermark
    /\ call = [t \in Ticks |-> IdleCall]
    /\ mine = {}
    /\ boots = 1

----------------------------------------------------------------------------
(* The resolver daemon, as the worker uses it.                             *)

\* The daemon logs an event; one it did not date reaches the console as 0.
Noise == {i \in Logged : ~Mirrorable(i)}
Log(o, d, dated) ==
    /\ Len(log) < MaxEvents
    /\ o = NoOrch \/ ~dated => Cardinality(Noise) < MaxNoise
    /\ clock' = clock + d
    /\ log' = Append(log, [at |-> IF dated THEN clock + d ELSE 0, orch |-> o])
    /\ UNCHANGED <<copies, workerVars, boots>>

\* The answers to a query: everything since, cut to Limit events.
Matching(since) == {i \in Logged : log[i].at >= since}
Pages(since) ==
    LET found == Matching(since) IN
    IF Cardinality(found) <= Limit THEN {found}
    ELSE {p \in SUBSET found :
            /\ Cardinality(p) = Limit
            /\ \A i \in p, j \in found \ p : OldestFirst => i < j}

Serve(t) ==
    /\ call[t].st = "sent"
    /\ \E p \in Pages(call[t].since) :
          call' = [call EXCEPT ![t].st = "served", ![t].page = p]
    /\ UNCHANGED <<daemonVars, copies, timer, inFlight, watermark, mine, boots>>

----------------------------------------------------------------------------
(* The worker.                                                             *)

Start ==
    /\ ~timer
    /\ timer' = TRUE
    /\ UNCHANGED <<daemonVars, copies, inFlight, watermark, call, mine, boots>>

\* stop() disarms the interval; a tick already under way is not waited for.
Stop ==
    /\ timer
    /\ timer' = FALSE
    /\ UNCHANGED <<daemonVars, copies, inFlight, watermark, call, mine, boots>>

\* Mutant: the inFlight test is missing.
Tick_Overlapping(t) ==
    /\ timer
    /\ call[t].st = "idle"
    /\ inFlight' = TRUE
    /\ call' = [call EXCEPT ![t] = [st |-> "sent", since |-> watermark,
                                    page |-> {}]]
    /\ UNCHANGED <<daemonVars, copies, timer, watermark, mine, boots>>

\* The interval fires and no tick is under way: tick() up to its await.
Tick(t) ==
    /\ timer
    /\ ~inFlight
    /\ call[t].st = "idle"
    /\ inFlight' = TRUE
    /\ call' = [call EXCEPT ![t] = [st |-> "sent", since |-> watermark,
                                    page |-> {}]]
    /\ UNCHANGED <<daemonVars, copies, timer, watermark, mine, boots>>

\* The rows a page yields, and where they take the watermark: maxAt starts
\* from it and is raised by every later date.
RowsOf(page) == {i \in page : Mirrorable(i)}
Dates(rows) == {log[i].at : i \in rows} \union {watermark}

\* Mutants: the watermark is the newest date itself, or two past it.
Advance_Inclusive(rows) ==
    \E maxAt \in Dates(rows) :
        (\A d \in Dates(rows) : d <= maxAt) /\ watermark' = maxAt
Advance_PlusTwo(rows) ==
    \E maxAt \in Dates(rows) :
        /\ \A d \in Dates(rows) : d <= maxAt
        /\ watermark' = IF maxAt > watermark THEN maxAt + 2 ELSE watermark

Advance(rows) ==
    \E maxAt \in Dates(rows) :
        /\ \A d \in Dates(rows) : d <= maxAt
        /\ watermark' = IF maxAt > watermark THEN maxAt + 1 ELSE watermark

\* Mutant: the watermark passes the events that were skipped, too.
Record_PastSkipped(t) ==
    LET rows == RowsOf(call[t].page) IN
    /\ call[t].st = "served"
    /\ copies' = [i \in EventId |->
                    copies[i] + IF i \in rows /\ copies[i] < MaxCopies THEN 1 ELSE 0]
    /\ mine' = mine \union rows
    /\ Advance(call[t].page)
    /\ inFlight' = FALSE
    /\ call' = [call EXCEPT ![t] = IdleCall]
    /\ UNCHANGED <<daemonVars, timer, boots>>

\* The answer arrives: tick() from its await to its end.
Record(t) ==
    LET rows == RowsOf(call[t].page) IN
    /\ call[t].st = "served"
    /\ copies' = [i \in EventId |->
                    copies[i] + IF i \in rows /\ copies[i] < MaxCopies THEN 1 ELSE 0]
    /\ mine' = mine \union rows
    /\ Advance(rows)
    /\ inFlight' = FALSE
    /\ call' = [call EXCEPT ![t] = IdleCall]
    /\ UNCHANGED <<daemonVars, timer, boots>>

\* Mutants: the watermark moves although the insert failed; the flag is not
\* reset on failure.
Fail_Advancing(t) ==
    /\ call[t].st # "idle"
    /\ inFlight' = FALSE
    /\ Advance(RowsOf(call[t].page))
    /\ call' = [call EXCEPT ![t] = IdleCall]
    /\ UNCHANGED <<daemonVars, copies, timer, mine, boots>>
Fail_FlagLeft(t) ==
    /\ call[t].st # "idle"
    /\ call' = [call EXCEPT ![t] = IdleCall]
    /\ UNCHANGED <<daemonVars, copies, timer, inFlight, watermark, mine, boots>>

\* The call or the insert fails: nothing moves, the next tick retries.
Fail(t) ==
    /\ call[t].st # "idle"
    /\ inFlight' = FALSE
    /\ call' = [call EXCEPT ![t] = IdleCall]
    /\ UNCHANGED <<daemonVars, copies, timer, watermark, mine, boots>>

\* The process exits, in whatever state, and is started again.
Restart ==
    /\ boots < MaxBoots
    /\ boots' = boots + 1
    /\ timer' = FALSE /\ inFlight' = FALSE
    /\ watermark' = NoWatermark
    /\ call' = [t \in Ticks |-> IdleCall]
    /\ mine' = {}
    /\ UNCHANGED <<daemonVars, copies>>

Daemon == \/ \E o \in Orchs \union {NoOrch}, d \in ClockSteps, dated \in BOOLEAN :
                Log(o, d, dated)
          \/ \E t \in Ticks : Serve(t)
Worker == \/ Start
          \/ Stop
          \/ \E t \in Ticks : Tick(t) \/ Record(t) \/ Fail(t)
Next == Daemon \/ Worker \/ Restart

Spec == Init /\ [][Next]_vars

(* main() reaches start() in every life, an armed interval keeps firing,   *)
(* and a call ends one way or the other (its deadline).  That the calls do *)
(* not fail for ever is an assumption on the daemon, not on this code.     *)
Fairness == /\ WF_vars(Start)
            /\ \A t \in Ticks : /\ WF_vars(Tick(t))
                                /\ SF_vars(Serve(t))
                                /\ SF_vars(Record(t))
FairSpec == Spec /\ Fairness
----------------------------------------------------------------------------
(* Properties.                                                             *)

Busy(t) == call[t].st # "idle"

\* At most one tick is under way, the flag says which way it is, and the
\* answer it waits for was asked with the watermark it will be compared to
\* (auditPoll.ts:51-66: the watermark is read before and again after the
\* await).
SingleFlight ==
    /\ \A t, u \in Ticks : Busy(t) /\ Busy(u) => t = u
    /\ inFlight <=> \E t \in Ticks : Busy(t)
    /\ \A t \in Ticks : Busy(t) => call[t].since = watermark

\* Polls of one process life never record an event twice
\* (auditPoll.ts:6-8, "the daemon only returns newer rows"; plan 0001
\* section 6, "so we don't double-record entries across polls").
NoDoubleRecord == [][\A i \in mine : copies'[i] = copies[i]]_vars

\* What the code does keep: whatever ticks overlap, fail or are cut by the
\* page limit, the only event a life records again is one dated exactly at
\* the watermark (auditPoll.ts:61-73: its date is not above the maxAt the
\* loop starts from, so the watermark does not pass it), and a batch never
\* holds an event twice.
RepeatsOnlyAtWatermark ==
    [][\A i \in EventId :
          /\ copies'[i] <= copies[i] + 1
          /\ i \in mine /\ copies'[i] > copies[i] => log[i].at = watermark]_vars

\* So an event that does not follow another one by exactly a millisecond has
\* at most one row for each life of the process: a restart forgets the
\* watermark and records again what the daemon still has.
OncePerLife ==
    \A i \in Logged :
      (\A j \in Logged : Mirrorable(j) => log[j].at + 1 # log[i].at)
        => copies[i] <= boots

\* With a daemon that pages oldest first, an orchestrator's event the
\* watermark has passed is missing from the mirror only if it shares its
\* millisecond with one that was recorded (the + 1 of auditPoll.ts:73).
LostOnlyToTies ==
    OldestFirst =>
      \A i \in Logged :
        Mirrorable(i) /\ log[i].at < watermark =>
          \E j \in mine : log[j].at = log[i].at

\* Within a life the watermark only moves forward, and only to one past an
\* event that was recorded in the same step and had not been before: never
\* after a failure, never past rows that were not inserted
\* (auditPoll.ts:11-12, "Failures do NOT advance the watermark").
WatermarkFollowsRows ==
    [][watermark' # watermark /\ boots' = boots =>
         /\ watermark' > watermark
         /\ \E i \in mine' \ mine : watermark' = log[i].at + 1]_vars

\* Every event of an orchestrator reaches the mirror while the interval stays
\* armed (auditPoll.ts:6-8, "After each batch, we advance the watermark").
EventuallyMirrored ==
    \A i \in EventId :
      (i \in Logged /\ Mirrorable(i) /\ timer) ~> (copies[i] > 0 \/ ~timer)

\* What the code does keep: only two things stop an event from getting there,
\* another event of its millisecond, and a page full of events that leave
\* the watermark where it is, skipped ones and those dated exactly at it.
Tie(i)  == i \in Logged /\ \E j \in Logged \ {i} : log[j].at = log[i].at
Blocked == Cardinality({j \in Matching(watermark) :
                          ~Mirrorable(j) \/ log[j].at = watermark}) >= Limit
MirroredUnlessBlocked ==
    \A i \in EventId :
      (i \in Logged /\ Mirrorable(i) /\ timer)
         ~> (copies[i] > 0 \/ ~timer \/ Tie(i) \/ Blocked)
----------------------------------------------------------------------------
(* The atomic mirror.                                                      *)

M == INSTANCE Mirror WITH mark <- watermark

\* Whatever happens between the query of a poll and its rows, the mirror
\* takes what a single step could have taken (auditPoll.ts:47-88): with a
\* daemon that pages oldest first, the events from the watermark on, none
\* left out before the last one taken.
ImplementsMirror == M!Spec
=============================================================================
