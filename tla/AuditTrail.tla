----------------------------- MODULE AuditTrail -----------------------------
(***************************************************************************)
(* The console's own audit trail: the refresh handlers that write it       *)
(* (src/runtime/http/handlers/handleResolverRefresh.ts), the table         *)
(* audit_events, and the audit page of the admin UI that reads it a page   *)
(* at a time (admin-ui/admin/components/admin-audit.js).                   *)
(*                                                                         *)
(* A refresh is an RPC to the resolver daemon followed by a row that says  *)
(* how it went.  The daemon may execute it after the call has been given   *)
(* up, an insert may throw, and the process may be killed between the RPC  *)
(* and the row.  Rows are appended while the audit page pages back.        *)
(***************************************************************************)
EXTENDS Integers, Sequences, FiniteSets

CONSTANTS
    Requests,  \* POST /api/resolver/refresh requests
    PageSize   \* PAGE_SIZE of the audit page

ASSUME PageAssumption == PageSize \in Nat \ {0}

VARIABLES
    pc,       \* how far each request is
    ran,      \* refreshes the daemon has executed
    rows,     \* audit_events; a row's id is its position
    unaudited,\* history: requests whose last insert threw
    events,   \* ids of the rows the audit page shows
    cursor,   \* its cursor: id of the last row, or NoCursor
    fetch     \* its request under way

trailVars == <<pc, ran, rows, unaudited>>
pageVars  == <<events, cursor, fetch>>
vars      == <<trailVars, pageVars>>

NoCursor == 0
Row      == [req : Requests, ok : BOOLEAN]
Idle     == [st |-> "idle", before |-> NoCursor, ids |-> <<>>]
Fetch    == [st : {"idle", "first", "older", "firstServed", "olderServed"},
             before : Nat, ids : Seq(Nat)]

TypeOK ==
    /\ pc \in [Requests -> {"idle", "calling", "sent", "failed", "lost"}]
    /\ ran \subseteq Requests /\ unaudited \subseteq Requests
    /\ rows \in Seq(Row)
    /\ events \in Seq(Nat) /\ cursor \in Nat /\ fetch \in Fetch

Init ==
    /\ pc = [r \in Requests |-> "idle"]
    /\ ran = {} /\ rows = <<>> /\ unaudited = {}
    /\ events = <<>> /\ cursor = NoCursor /\ fetch = Idle

----------------------------------------------------------------------------
(* runRefresh                                                              *)

\* The body (or the address) parses, and the RPC is sent with force = true.
Call(r) ==
    /\ pc[r] = "idle"
    /\ pc' = [pc EXCEPT ![r] = "calling"]
    /\ UNCHANGED <<ran, rows, unaudited, pageVars>>

\* The daemon executes the refresh, perhaps when nobody waits for it any more.
Execute(r) ==
    /\ pc[r] # "idle" /\ r \notin ran
    /\ ran' = ran \union {r}
    /\ UNCHANGED <<pc, rows, unaudited, pageVars>>

Finish(r, st, ok) ==
    /\ pc' = [pc EXCEPT ![r] = st]
    /\ rows' = Append(rows, [req |-> r, ok |-> ok])
    /\ UNCHANGED <<ran, unaudited, pageVars>>

\* Mutants: the row is written before the RPC has returned; the handler goes
\* on to its catch block after the row.
Succeed_Early(r) == pc[r] = "calling" /\ Finish(r, "sent", TRUE)
Succeed_ThenCatch(r) == pc[r] = "calling" /\ r \in ran /\ Finish(r, "calling", TRUE)

\* The RPC returned and the row is in: the handler replies 200.
Succeed(r) == pc[r] = "calling" /\ r \in ran /\ Finish(r, "sent", TRUE)

\* The catch block: the RPC failed or ran into its deadline, or the first
\* insert threw after it had returned.  Either way the row says ok = false.
Catch(r) == pc[r] = "calling" /\ Finish(r, "failed", FALSE)

\* The insert of the catch block throws too.
CatchThrows(r) ==
    /\ pc[r] = "calling"
    /\ pc' = [pc EXCEPT ![r] = "failed"]
    /\ unaudited' = unaudited \union {r}
    /\ UNCHANGED <<ran, rows, pageVars>>

\* The process is killed and restarted: its requests are gone, the page's
\* request fails.
Crash ==
    /\ \E r \in Requests : pc[r] = "calling"
    /\ pc' = [r \in Requests |-> IF pc[r] = "calling" THEN "lost" ELSE pc[r]]
    /\ fetch' = Idle
    /\ UNCHANGED <<ran, rows, unaudited, events, cursor>>

----------------------------------------------------------------------------
(* The audit page                                                          *)

\* connectedCallback() and the Reload button.
Reload ==
    /\ fetch.st = "idle"
    /\ fetch' = [Idle EXCEPT !.st = "first"]
    /\ UNCHANGED <<trailVars, events, cursor>>

\* The Older button, where render() shows it.
OlderShown == cursor # NoCursor /\ Len(events) >= PageSize
Older ==
    /\ fetch.st = "idle" /\ OlderShown
    /\ fetch' = [Idle EXCEPT !.st = "older", !.before = cursor]
    /\ UNCHANGED <<trailVars, events, cursor>>

\* listRecent: the newest PageSize rows, of those below the cursor if any.
\* Mutant: id <= before.
Recent_Inclusive(before) ==
    LET top == IF before = NoCursor THEN Len(rows) ELSE before
        n   == IF top < PageSize THEN top ELSE PageSize
    IN  [i \in 1 .. n |-> top + 1 - i]
Recent(before) ==
    LET top == IF before = NoCursor THEN Len(rows) ELSE before - 1
        n   == IF top < PageSize THEN top ELSE PageSize
    IN  [i \in 1 .. n |-> top + 1 - i]
Serve ==
    /\ fetch.st \in {"first", "older"}
    /\ fetch' = [fetch EXCEPT
                   !.st = IF @ = "first" THEN "firstServed" ELSE "olderServed",
                   !.ids = Recent(fetch.before)]
    /\ UNCHANGED <<trailVars, events, cursor>>

\* Mutant: -1 for a missing id.
LastId_MinusOne(s) == IF s = <<>> THEN -1 ELSE s[Len(s)]
LastId(s) == IF s = <<>> THEN NoCursor ELSE s[Len(s)]
ShowFirst ==
    /\ fetch.st = "firstServed"
    /\ events' = fetch.ids
    /\ cursor' = LastId(fetch.ids)
    /\ fetch' = Idle
    /\ UNCHANGED trailVars
ShowOlder ==
    /\ fetch.st = "olderServed"
    /\ events' = events \o fetch.ids
    /\ cursor' = LastId(fetch.ids)
    /\ fetch' = Idle
    /\ UNCHANGED trailVars

\* Mutant: the catch resets the cursor.
FetchFails_NoCursor ==
    /\ fetch.st # "idle"
    /\ fetch' = Idle /\ cursor' = NoCursor
    /\ UNCHANGED <<trailVars, events>>
\* The request fails: the page keeps what it shows, and its cursor.
FetchFails ==
    /\ fetch.st # "idle"
    /\ fetch' = Idle
    /\ UNCHANGED <<trailVars, events, cursor>>

Handler == \E r \in Requests : Call(r) \/ Succeed(r) \/ Catch(r) \/ CatchThrows(r)
Page    == Reload \/ Older \/ Serve \/ ShowFirst \/ ShowOlder \/ FetchFails
Next    == Handler \/ (\E r \in Requests : Execute(r)) \/ Crash \/ Page

Spec == Init /\ [][Next]_vars

\* An operator who keeps pressing Older, and a console that answers.
FairSpec == /\ Spec
            /\ WF_vars(Older) /\ SF_vars(Serve) /\ SF_vars(ShowOlder)
            /\ SF_vars(ShowFirst)
----------------------------------------------------------------------------
(* Properties.                                                             *)

RowsOf(r) == {i \in 1 .. Len(rows) : rows[i].req = r}

\* One attempt leaves one row at most, and one that was answered leaves one
\* unless the insert itself failed (handleResolverRefresh.ts:52-73: the two
\* appends are in the try and in its catch).
OneRowPerAttempt ==
    \A r \in Requests :
      /\ Cardinality(RowsOf(r)) <= 1
      /\ pc[r] \in {"sent", "failed"} /\ r \notin unaudited => RowsOf(r) # {}

\* A row with ok = true, and the 200 behind it, is never of a refresh the
\* daemon has not executed.  (The converse does not hold: a refresh given up
\* at its deadline is recorded as failed and may be executed later.)
OkMeansExecuted ==
    /\ \A i \in 1 .. Len(rows) : rows[i].ok => rows[i].req \in ran
    /\ \A r \in Requests : pc[r] = "sent" => \E i \in RowsOf(r) : rows[i].ok

\* The rows shown are consecutive, newest first: rows appended between two
\* pages make neither a gap nor a duplicate (auditEvents.ts:21-26: the cursor
\* is the id, not a date or an offset).
NoGapNoDuplicate ==
    /\ \A i \in 1 .. Len(events) - 1 : events[i + 1] = events[i] - 1
    /\ \A i \in 1 .. Len(events) : events[i] \in 1 .. Len(rows)

\* Who keeps pressing Older comes to the oldest row, or reloads: the button
\* is there until then, and no failure or new row takes it away.
OldestReached ==
    (events # <<>>) ~> (fetch.st = "first" \/ LastId(events) = 1)
=============================================================================
