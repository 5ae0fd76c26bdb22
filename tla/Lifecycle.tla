------------------------------ MODULE Lifecycle ------------------------------
(***************************************************************************)
(* One process of the console from boot to exit (src/main.ts): it reads    *)
(* its environment (Config), opens SQLite, runs the bootstrap migration if *)
(* it finds other than two tables, listens, serves, and on SIGTERM or      *)
(* SIGINT stops the audit poll, waits for the requests under way, closes   *)
(* the database and exits; 30 s after the signal it exits whatever is left.*)
(*                                                                         *)
(* The migration is a script of four statements that SQLite commits one by *)
(* one, and the process may be killed between any two of its steps.  The   *)
(* path of the database may be one that cannot be opened or written, for a *)
(* time or for good.  The container restarts a process that has exited,    *)
(* with the environment it had; besides that only the schema is kept.      *)
(***************************************************************************)
EXTENDS Config, Naturals, Sequences, FiniteSets

CONSTANTS
    Environments, \* what the container may be started with
    Requests,     \* HTTP requests
    MaxCrashes    \* bound: times the process is killed

ASSUME CrashAssumption == MaxCrashes \in Nat
ASSUME EnvAssumption   == Environments \subseteq [Variables -> Texts]

VARIABLES
    env,      \* the environment of the container
    phase,    \* where the process is
    stmt,     \* the statement of the migration it runs next
    disk,     \* the database's path: it can be written, only opened, or neither
    schema,   \* the objects in the database
    closing,  \* a signal was received
    request,  \* the state of each request
    exit,     \* how the last process ended
    crashes

vars == <<env, phase, stmt, disk, schema, closing, request, exit, crashes>>

Script == <<"audit_events", "idx_audit_occurred_at",
            "routing_observations", "idx_routing_observations_orch">>
Tables == {"audit_events", "routing_observations"}
Objects == {Script[i] : i \in 1 .. Len(Script)}

TypeOK ==
    /\ env \in Environments
    /\ phase \in {"down", "migrating", "listening", "serving"}
    /\ stmt \in 0 .. Len(Script)
    /\ disk \in {"ok", "full", "gone"}
    /\ schema \subseteq Objects
    /\ closing \in BOOLEAN
    /\ request \in [Requests -> {"new", "open", "answered", "dropped"}]
    /\ exit \in {"none", "code 0", "code 1", "killed"}
    /\ crashes \in Nat

Init ==
    /\ env \in Environments
    /\ phase = "down" /\ stmt = 0 /\ schema = {}
    /\ disk \in {"ok", "full", "gone"}
    /\ closing = FALSE
    /\ request = [r \in Requests |-> "new"]
    /\ exit = "none" /\ crashes = 0

Alive == phase # "down"

\* SQLite takes an empty path for a database of the process's own, which is
\* gone with it.  (":memory:" counts as such a text.)
Temporary == env.STATE_PATH = "empty"
CanOpen   == Temporary \/ disk # "gone"
CanWrite  == Temporary \/ disk = "ok"

\* The process is gone, with the requests it had not answered.
Gone(how) ==
    /\ exit' = how
    /\ phase' = "down" /\ stmt' = 0
    /\ closing' = FALSE
    /\ request' = [r \in Requests |->
                     IF request[r] = "open" THEN "dropped" ELSE request[r]]
    /\ schema' = IF Temporary THEN {} ELSE schema
    /\ UNCHANGED <<env, disk>>
----------------------------------------------------------------------------
\* loadEnv or parseListenAddr throws, and main() rejects.
Refused ==
    /\ phase = "down" /\ ~Loads(env)
    /\ Gone("code 1") /\ UNCHANGED crashes

\* openSqlite throws: its mkdirSync, the opening of the file or, if only its
\* writing fails, perhaps the pragma that makes a WAL.
OpenThrows ==
    /\ phase = "down" /\ Loads(env) /\ ~CanWrite
    /\ Gone("code 1") /\ UNCHANGED crashes

BootIf(migrated) ==
    /\ phase = "down" /\ Loads(env) /\ CanOpen
    /\ IF migrated
       THEN phase' = "listening" /\ UNCHANGED stmt
       ELSE phase' = "migrating" /\ stmt' = 1
    /\ UNCHANGED <<env, disk, schema, closing, request, exit, crashes>>

\* Mutants: one table is enough; every object is asked for.
Boot_OneTable   == BootIf(schema \intersect Tables # {})
Boot_AllObjects == BootIf(schema = Objects)

\* The container starts the process; applyBootstrapMigrationIfNeeded looks
\* for the tables and runs the whole script unless both are there.
Boot == BootIf(Cardinality(schema \intersect Tables) = 2)

\* Mutant: the script's end is found one statement late.
Migrate_PastEnd ==
    /\ phase = "migrating" /\ Script[stmt] \notin schema /\ CanWrite
    /\ schema' = schema \union {Script[stmt]}
    /\ IF stmt > Len(Script)
       THEN phase' = "listening" /\ stmt' = 0
       ELSE stmt' = stmt + 1 /\ UNCHANGED phase
    /\ UNCHANGED <<env, disk, closing, request, exit, crashes>>

\* CREATE TABLE, CREATE INDEX: each statement commits by itself.
Migrate ==
    /\ phase = "migrating" /\ Script[stmt] \notin schema /\ CanWrite
    /\ schema' = schema \union {Script[stmt]}
    /\ IF stmt = Len(Script)
       THEN phase' = "listening" /\ stmt' = 0
       ELSE stmt' = stmt + 1 /\ UNCHANGED phase
    /\ UNCHANGED <<env, disk, closing, request, exit, crashes>>

\* The object exists, or cannot be written: exec throws, main() rejects,
\* exit 1.
MigrateThrows ==
    /\ phase = "migrating" /\ (Script[stmt] \in schema \/ ~CanWrite)
    /\ Gone("code 1") /\ UNCHANGED crashes

\* listen() resolves.  (The start and stop of the audit poll on either side
\* of this are AuditPoll's; a signal while listen() is pending stops the
\* poll before it is started.)
Listen ==
    /\ phase = "listening"
    /\ phase' = "serving"
    /\ UNCHANGED <<env, stmt, disk, schema, closing, request, exit, crashes>>

\* The address is taken, or not ours.
ListenFails ==
    /\ phase = "listening"
    /\ Gone("code 1") /\ UNCHANGED crashes

Open(r) ==
    /\ phase = "serving" /\ ~closing /\ request[r] = "new"
    /\ request' = [request EXCEPT ![r] = "open"]
    /\ UNCHANGED <<env, phase, stmt, disk, schema, closing, exit, crashes>>

Answer(r) ==
    /\ request[r] = "open"
    /\ request' = [request EXCEPT ![r] = "answered"]
    /\ UNCHANGED <<env, phase, stmt, disk, schema, closing, exit, crashes>>

\* shutdown() up to its await.  A second signal returns at once; before the
\* handlers are installed a signal simply kills (Crash).
Signal ==
    /\ phase \in {"listening", "serving"} /\ ~closing
    /\ closing' = TRUE
    /\ UNCHANGED <<env, phase, stmt, disk, schema, request, exit, crashes>>

\* Mutant: close does not wait for the open requests.
Close_AtOnce == Alive /\ closing /\ Gone("code 0") /\ UNCHANGED crashes

\* http.close() resolves when no request is open; then SQLite is closed and
\* the process exits in the same turn of the event loop.
Close ==
    /\ Alive /\ closing
    /\ \A r \in Requests : request[r] # "open"
    /\ Gone("code 0") /\ UNCHANGED crashes

\* Mutant: the timer is cleared while a request is open.
HardKill_Cleared ==
    /\ Alive /\ closing
    /\ \A r \in Requests : request[r] # "open"
    /\ Gone("code 1") /\ UNCHANGED crashes

\* Thirty seconds after the signal: exit 1.
HardKill == Alive /\ closing /\ Gone("code 1") /\ UNCHANGED crashes

Crash ==
    /\ Alive /\ crashes < MaxCrashes
    /\ crashes' = crashes + 1
    /\ Gone("killed")

\* The path's directory is mounted, its owner or its space changes.
DiskChanges ==
    /\ disk' \in {"ok", "full", "gone"} \ {disk}
    /\ UNCHANGED <<env, phase, stmt, schema, closing, request, exit, crashes>>

Next == \/ Refused \/ OpenThrows \/ Boot \/ Migrate \/ MigrateThrows \/ Listen \/ ListenFails
        \/ \E r \in Requests : Open(r) \/ Answer(r)
        \/ Signal \/ Close \/ HardKill \/ Crash \/ DiskChanges

Spec == Init /\ [][Next]_vars

\* The container restarts, the process runs, the 30 s timer fires, and the
\* address does not stay taken for ever.  Nothing says that the disk ever gets
\* better, that a request is ever answered, or that a signal ever comes.
FairSpec == /\ Spec
            /\ WF_vars(Refused \/ OpenThrows \/ Boot) /\ WF_vars(Migrate \/ MigrateThrows)
            /\ SF_vars(Listen /\ ~closing) /\ WF_vars(HardKill)
----------------------------------------------------------------------------
\* Whatever kills and restarts came before, a process that listens has both
\* tables and the first index; only the script's last statement can be
\* missing, and then for good (main.ts:119: two tables are enough).
ServesWithTables ==
    phase \in {"listening", "serving"} =>
        Objects \ {Script[4]} \subseteq schema

\* A restart finds its way back to serving, unless a kill or a full disk left
\* the schema with one table of the two (main.ts:105-107 says the script is
\* run "iff the schema has no tables yet"; it is also run on one table, and
\* throws), the environment is refused, or the database cannot be opened or
\* written, which env.ts:26 accepts any path for (main.ts:34).
ComesBack ==
    phase = "down" ~> \/ phase = "serving" \/ closing
                      \/ Cardinality(schema \intersect Tables) = 1
                      \/ ~Loads(env) \/ ~CanWrite

\* And what the compose file makes of .env.example is not refused
\* (.env.example:12-15, "Optional explicit registry contract ... When unset,
\* the console resolves ServiceRegistry via Controller"; README.md:78-82,
\* "curl http://127.0.0.1:8080/healthz # 200").
ExampleServes ==
    phase = "down" /\ env = Compose(Example) ~>
        phase = "serving" \/ closing \/ ~CanWrite

\* After a signal the process ends, requests that hang included.
ShutdownEnds == closing ~> phase = "down"

\* An orderly exit drops no request it had accepted: only a kill or the 30 s
\* limit does (main.ts:84-88).
OrderlyExitAnswers ==
    [][exit' = "code 0" =>
         \A r \in Requests : request'[r] = "dropped" => request[r] = "dropped"]_vars
=============================================================================
