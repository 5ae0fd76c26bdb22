------------------------------- MODULE Mirror -------------------------------
(***************************************************************************)
(* What the audit-poll worker promises, as one atomic step: the mirror     *)
(* takes, at once, the orchestrators' events that the daemon's log has     *)
(* from a mark on, up to some point of the log, and moves the mark one     *)
(* millisecond past the newest of them.  A restart forgets the mark.       *)
(*                                                                         *)
(* AuditPoll spreads that step over a query, an answer and an insert, with *)
(* the daemon logging, timers firing and calls failing in between, and     *)
(* implements this module.                                                 *)
(***************************************************************************)
EXTENDS Integers, Sequences

CONSTANTS
    NoOrch,    \* the missing address of a resolver-level event
    EventId,   \* positions of the log
    MaxCopies  \* bound: rows of one event are counted up to here

VARIABLES
    log,     \* the daemon's audit log
    copies,  \* rows of the mirror, counted per event
    mark     \* nothing dated before it is asked for

vars == <<log, copies, mark>>

NoMark == -1

Init == log = <<>> /\ copies = [i \in EventId |-> 0] /\ mark = NoMark

\* An event is logged, whatever it is.
Logs ==
    /\ Len(log') = Len(log) + 1
    /\ \A i \in 1 .. Len(log) : log'[i] = log[i]
    /\ UNCHANGED <<copies, mark>>

\* The batch: no event between the mark and the last one taken is left out.
Batch(upTo) ==
    {i \in 1 .. upTo : log[i].orch # NoOrch /\ log[i].at > 0 /\ log[i].at >= mark}

Copy(upTo) ==
    LET batch == Batch(upTo) IN
    /\ copies' = [i \in EventId |->
                    copies[i] + IF i \in batch /\ copies[i] < MaxCopies THEN 1 ELSE 0]
    /\ \/ batch = {} /\ mark' = mark
       \/ \E i \in batch : /\ \A j \in batch : log[j].at <= log[i].at
                           /\ mark' = IF log[i].at > mark THEN log[i].at + 1 ELSE mark
    /\ UNCHANGED log

Forget == mark' = NoMark /\ UNCHANGED <<log, copies>>

Next == \/ Logs
        \/ \E upTo \in 0 .. Len(log) : Copy(upTo)
        \/ Forget

Spec == Init /\ [][Next]_vars
=============================================================================
