-------------------------- MODULE LifecycleProofs --------------------------
(***************************************************************************)
(* Proofs about the process from boot to exit, for any environments, any   *)
(* set of requests and any number of kills.                                *)
(*                                                                         *)
(* The argument: the statements of the migration run in order and none is  *)
(* ever undone, but for a database that goes with its process, so that the *)
(* schema is always a prefix of the script, and a migration under way has  *)
(* either just begun or stands at the end of that prefix.  A process that  *)
(* listens has found both tables, or has run the last statement: three     *)
(* objects of the four are there.                                          *)
(***************************************************************************)
EXTENDS Lifecycle, FiniteSetTheorems, TLAPS

\* The objects of the first m statements.
Prefix(m) == {Script[i] : i \in 1 .. m}

\* The schema is a prefix of the script, whatever was killed when.
GrownTo(m) ==
    /\ schema = Prefix(m)
    /\ phase = "migrating" => stmt \in 1 .. 4 /\ (stmt = 1 \/ stmt = m + 1)
    /\ phase \in {"listening", "serving"} => m >= 3
SchemaGrows == \E m \in 0 .. 4 : GrownTo(m)

IInv == TypeOK /\ SchemaGrows

----------------------------------------------------------------------------
(* The script.                                                             *)

\* Four statements, and four objects (main.ts:102-104).
LEMMA ScriptLength == Len(Script) = 4 /\ {0, 1} \subseteq 0 .. Len(Script)
  BY DEF Script

\* The four statements of 0001_init.sql, and the two tables among them.
LEMMA ScriptFacts ==
    /\ \A i, j \in 1 .. 4 : Script[i] = Script[j] => i = j
    /\ Objects = Prefix(4)
    /\ Tables = {Script[1], Script[3]}
<1>1. /\ Script[1] = "audit_events" /\ Script[2] = "idx_audit_occurred_at"
      /\ Script[3] = "routing_observations"
      /\ Script[4] = "idx_routing_observations_orch"
  BY DEF Script
<1>2. \A i \in 1 .. 4 : i = 1 \/ i = 2 \/ i = 3 \/ i = 4
  OBVIOUS
<1>3. \A i, j \in 1 .. 4 : Script[i] = Script[j] => i = j
  BY <1>1, <1>2
<1> QED
  BY <1>1, <1>3, ScriptLength DEF Objects, Prefix, Tables

\* A statement adds its object to the prefix before it, and its object is
\* in a prefix only if the statement is.
LEMMA PrefixFacts ==
    /\ \A m \in 0 .. 3 : Prefix(m) \union {Script[m + 1]} = Prefix(m + 1)
    /\ \A m \in 0 .. 4 : Prefix(m) \subseteq Objects
    /\ \A m \in 0 .. 4, i \in 1 .. 4 : Script[i] \in Prefix(m) <=> i <= m
    /\ Prefix(0) = {}
<1>1. \A m \in 0 .. 3 : 1 .. m + 1 = (1 .. m) \union {m + 1}
  OBVIOUS
<1>2. \A m \in 0 .. 3 : Prefix(m) \union {Script[m + 1]} = Prefix(m + 1)
  BY <1>1 DEF Prefix
<1>3. \A m \in 0 .. 4 : Prefix(m) \subseteq Prefix(4)
  BY DEF Prefix
<1>4. \A m \in 0 .. 4, i \in 1 .. 4 : Script[i] \in Prefix(m) <=> i <= m
  BY ScriptFacts DEF Prefix
<1>5. Prefix(0) = {}
  BY DEF Prefix
<1> QED
  BY <1>2, <1>3, <1>4, <1>5, ScriptFacts

\* What applyBootstrapMigrationIfNeeded counts: both tables are there from
\* the third statement on.
LEMMA BothTables ==
    ASSUME NEW m \in 0 .. 4
    PROVE  Cardinality(Prefix(m) \intersect Tables) = 2 => m >= 3
<1> SUFFICES ASSUME m < 3
             PROVE  Cardinality(Prefix(m) \intersect Tables) # 2
  OBVIOUS
<1>1. Script[3] \notin Prefix(m)
  BY PrefixFacts
<1>2. Prefix(m) \intersect Tables \subseteq {Script[1]}
  BY <1>1, ScriptFacts
<1>3. CASE Prefix(m) \intersect Tables = {}
  BY <1>3, FS_EmptySet
<1>4. CASE Prefix(m) \intersect Tables = {Script[1]}
  <2>1. Cardinality({Script[1]}) = 1
    BY FS_Singleton
  <2> QED
    BY <1>4, <2>1
<1> QED
  BY <1>2, <1>3, <1>4

----------------------------------------------------------------------------
(* The invariant.                                                          *)

\* The invariant holds at the start, over a database without a schema.
LEMMA InitIInv == Init => IInv
<1> SUFFICES ASSUME Init PROVE IInv
  OBVIOUS
<1>1. TypeOK
  <2>1. request \in [Requests -> {"new", "open", "answered", "dropped"}]
    BY DEF Init
  <2>2. stmt \in 0 .. Len(Script)
    BY ScriptLength DEF Init
  <2> QED
    BY <2>1, <2>2 DEF Init, TypeOK
<1>2. GrownTo(0)
  BY PrefixFacts DEF Init, GrownTo
<1> QED
  BY <1>1, <1>2 DEF IInv, SchemaGrows

\* The script may have run no statement at all (main.ts:102).
LEMMA ZeroStatements == 0 \in 0 .. 4
  BY SMT

\* An exit, of whatever kind, leaves the database as it is, or nothing of it.
LEMMA GoneStep ==
    ASSUME IInv, NEW how \in {"code 0", "code 1", "killed"}, Gone(how),
           crashes' \in Nat
    PROVE  IInv'
<1>1. /\ exit' = how /\ phase' = "down" /\ stmt' = 0 /\ closing' = FALSE
      /\ request' = [r \in Requests |->
                       IF request[r] = "open" THEN "dropped" ELSE request[r]]
      /\ schema' = schema \/ schema' = {}
      /\ UNCHANGED <<env, disk>>
  BY DEF Gone
<1>2. TypeOK'
  <2>1. request' \in [Requests -> {"new", "open", "answered", "dropped"}]
    BY <1>1 DEF IInv, TypeOK
  <2>2. stmt' = 0
    BY <1>1
  <2>3. 0 \in 0 .. Len(Script)
    BY ScriptLength
  <2> QED
    BY <1>1, <2>1, <2>2, <2>3 DEF IInv, TypeOK
<1>3. SchemaGrows'
  <2>1. CASE schema' = schema
    <3>1. PICK m \in 0 .. 4 : GrownTo(m)
      BY DEF IInv, SchemaGrows
    <3>2. GrownTo(m)'
      BY <1>1, <2>1, <3>1 DEF GrownTo
    <3> QED
      BY <3>2 DEF SchemaGrows
  <2>2. CASE schema' = {}
    <3>1. PICK m \in 0 .. 4 : m = 0
      BY ONLY ZeroStatements, Zenon
    <3>2. GrownTo(m)'
      BY <1>1, <2>2, <3>1, PrefixFacts DEF GrownTo
    <3> QED
      BY <3>2 DEF SchemaGrows
  <2> QED
    BY <1>1, <2>1, <2>2
<1> QED
  BY <1>2, <1>3 DEF IInv

\* The process boots: it migrates only a database without both tables.
LEMMA BootStep ==
    ASSUME IInv, Boot
    PROVE  IInv'
<1>1. /\ phase = "down"
      /\ UNCHANGED <<env, disk, schema, closing, request, exit, crashes>>
      /\ \/ /\ Cardinality(schema \intersect Tables) = 2
            /\ phase' = "listening" /\ stmt' = stmt
         \/ phase' = "migrating" /\ stmt' = 1
  BY DEF Boot, BootIf
<1>2. TypeOK'
  <2>1. stmt' = stmt \/ stmt' = 1
    BY <1>1
  <2>2. 1 \in 0 .. Len(Script)
    BY ScriptLength
  <2>3. stmt \in 0 .. Len(Script)
    BY DEF IInv, TypeOK
  <2>4. stmt' \in 0 .. Len(Script)
    BY <2>1, <2>2, <2>3
  <2> QED
    BY <1>1, <2>4 DEF IInv, TypeOK
<1>3. PICK m \in 0 .. 4 : GrownTo(m)
  BY DEF IInv, SchemaGrows
<1>4. GrownTo(m)'
  <2>1. CASE phase' = "migrating" /\ stmt' = 1
    BY <1>1, <1>3, <2>1 DEF GrownTo
  <2>2. CASE Cardinality(schema \intersect Tables) = 2 /\ phase' = "listening"
    BY <1>1, <1>3, <2>2, BothTables DEF GrownTo
  <2> QED
    BY <1>1, <2>1, <2>2
<1> QED
  BY <1>2, <1>4 DEF IInv, SchemaGrows

\* One statement adds its object to the prefix there is.
LEMMA MigrateStep ==
    ASSUME IInv, Migrate
    PROVE  IInv'
<1>1. PICK m \in 0 .. 4 : GrownTo(m)
  BY DEF IInv, SchemaGrows
<1>2. /\ phase = "migrating" /\ Script[stmt] \notin schema
      /\ schema' = schema \union {Script[stmt]}
      /\ \/ stmt = 4 /\ phase' = "listening" /\ stmt' = 0
         \/ stmt # 4 /\ phase' = "migrating" /\ stmt' = stmt + 1
      /\ UNCHANGED <<env, disk, closing, request, exit, crashes>>
  BY ScriptLength DEF Migrate
<1>3. stmt \in 1 .. 4 /\ schema = Prefix(m) /\ (stmt = 1 \/ stmt = m + 1)
  BY <1>1, <1>2 DEF GrownTo
<1>4. stmt = m + 1 /\ m \in 0 .. 3
  <2>1. ~(stmt <= m)
    BY <1>2, <1>3, PrefixFacts
  <2> QED
    BY <1>3, <2>1
<1>5. schema' = Prefix(m + 1) /\ m + 1 \in 0 .. 4
  BY <1>2, <1>3, <1>4, PrefixFacts
<1>6. stmt' \in 0 .. 4 /\ (phase' = "migrating" => stmt' = m + 2 /\ stmt' \in 1 .. 4)
  BY <1>2, <1>3, <1>4
<1>7. phase' = "listening" => m + 1 >= 3
  BY <1>2, <1>4
<1>8. TypeOK'
  BY <1>2, <1>5, <1>6, PrefixFacts, ScriptLength DEF IInv, TypeOK
<1>9. GrownTo(m + 1)'
  BY <1>2, <1>4, <1>5, <1>6, <1>7 DEF GrownTo
<1> QED
  BY <1>5, <1>8, <1>9 DEF IInv, SchemaGrows

\* The steps that leave the schema and the migration alone.
LEMMA ServingStep ==
    ASSUME IInv, Listen \/ Signal \/ DiskChanges \/ \E r \in Requests : Open(r) \/ Answer(r)
    PROVE  IInv'
<1>1. /\ UNCHANGED <<env, stmt, schema, exit, crashes>>
      /\ phase' = phase \/ (phase = "listening" /\ phase' = "serving")
      /\ closing' \in BOOLEAN /\ disk' \in {"ok", "full", "gone"}
  BY DEF Listen, Signal, DiskChanges, Open, Answer, IInv, TypeOK
<1>2. request' \in [Requests -> {"new", "open", "answered", "dropped"}]
  BY DEF Listen, Signal, DiskChanges, Open, Answer, IInv, TypeOK
<1>3. TypeOK'
  BY <1>1, <1>2 DEF IInv, TypeOK
<1>4. SchemaGrows'
  BY <1>1 DEF IInv, SchemaGrows, GrownTo
<1> QED
  BY <1>3, <1>4 DEF IInv

\* Every step keeps the invariant.
LEMMA NextIInv == IInv /\ [Next]_vars => IInv'
<1> SUFFICES ASSUME IInv, [Next]_vars PROVE IInv'
  OBVIOUS
<1>1. crashes \in Nat
  BY DEF IInv, TypeOK
<1>2. CASE Refused \/ OpenThrows \/ MigrateThrows \/ ListenFails \/ HardKill \/ Close \/ Crash
  <2>1. crashes' = crashes \/ crashes' = crashes + 1
    BY <1>2 DEF Refused, OpenThrows, MigrateThrows, ListenFails, HardKill, Close, Crash
  <2>2. crashes' \in Nat
    BY <1>1, <2>1
  <2> QED
    BY <1>2, <2>2, GoneStep DEF Refused, OpenThrows, MigrateThrows, ListenFails, HardKill,
       Close, Crash
<1>3. CASE Boot
  BY <1>3, BootStep
<1>4. CASE Migrate
  BY <1>4, MigrateStep
<1>5. CASE Listen \/ Signal \/ DiskChanges \/ \E r \in Requests : Open(r) \/ Answer(r)
  BY <1>5, ServingStep
<1>6. CASE UNCHANGED vars
  BY <1>6 DEF vars, IInv, TypeOK, SchemaGrows, GrownTo
<1> QED
  BY <1>2, <1>3, <1>4, <1>5, <1>6 DEF Next

----------------------------------------------------------------------------
(* The theorems.                                                           *)

\* The database holds a prefix of the script at all times (main.ts:102-124:
\* one exec() of statements that commit one by one).
THEOREM Invariance == Spec => []IInv
<1> QED
  BY InitIInv, NextIInv, PTL DEF Spec

\* Type correctness of the process's state (main.ts:25-100).
THEOREM TypeCorrect == Spec => []TypeOK
<1>1. IInv => TypeOK
  BY DEF IInv
<1> QED
  BY <1>1, Invariance, PTL

\* After any kills and restarts, a process that listens has all but the last
\* object of the schema (main.ts:105-124).
THEOREM ListensWithTables == Spec => []ServesWithTables
<1>1. IInv => ServesWithTables
  <2> SUFFICES ASSUME IInv, phase \in {"listening", "serving"}
               PROVE  Objects \ {Script[4]} \subseteq schema
    BY DEF ServesWithTables
  <2>1. PICK m \in 0 .. 4 : GrownTo(m)
    BY DEF IInv, SchemaGrows
  <2>2. schema = Prefix(m) /\ m >= 3
    BY <2>1 DEF GrownTo
  <2>3. \A i \in 1 .. 4 : i # 4 => Script[i] \in schema
    BY <2>2, PrefixFacts
  <2> QED
    BY <2>3, ScriptFacts DEF Prefix
<1> QED
  BY <1>1, Invariance, PTL

\* An exit with code 0 drops no request it had accepted (main.ts:84-88).
THEOREM OrderlyExitDropsNothing == Spec => OrderlyExitAnswers
<1> DEFINE A == exit' = "code 0" =>
                  \A r \in Requests : request'[r] = "dropped" => request[r] = "dropped"
<1>1. TypeOK /\ [Next]_vars => [A]_vars
  <2> SUFFICES ASSUME TypeOK, Next, exit' = "code 0",
                      NEW r \in Requests, request'[r] = "dropped"
               PROVE  request[r] = "dropped"
    OBVIOUS
  <2>1. CASE Close
    BY <2>1 DEF Close, Gone
  <2>2. CASE UNCHANGED request
    BY <2>2
  <2>3. ASSUME NEW q \in Requests, Open(q) \/ Answer(q)
        PROVE  request[r] = "dropped"
    BY <2>3 DEF Open, Answer, TypeOK
  <2> QED
    BY <2>1, <2>2, <2>3 DEF Next, Refused, OpenThrows, Boot, BootIf, Migrate, MigrateThrows,
       Listen, ListenFails, Signal, HardKill, Crash, Gone, DiskChanges
<1> QED
  BY <1>1, TypeCorrect, PTL DEF Spec, OrderlyExitAnswers
----------------------------------------------------------------------------
(* A migration that was interrupted.                                       *)

\* There is something in the database, and the migration is not on its way,
\* or has just begun over it.
Settled == schema # {} /\ (phase = "migrating" => stmt = 1)

\* A migration is never resumed: what the process that began it has not
\* created stays missing from the file (main.ts:105-124).
NeverResumed == [][~Temporary /\ Settled => Settled' /\ schema' = schema]_vars

\* One table of the two, and no process that has got past the migration.
HalfMade ==
    /\ Cardinality(schema \intersect Tables) = 1
    /\ phase = "down" \/ (phase = "migrating" /\ stmt = 1)

\* With one table of the two in the file no process ever listens again
\* (main.ts:119: the script is run over it, and its first statement throws).
HalfMadeForGood == [][~Temporary /\ HalfMade => HalfMade']_vars

\* Over a schema that is there, the first statement throws.
LEMMA SettledThrows == IInv /\ Settled => ~Migrate
<1> SUFFICES ASSUME IInv, Settled, Migrate PROVE FALSE
  OBVIOUS
<1>1. PICK m \in 0 .. 4 : GrownTo(m)
  BY DEF IInv, SchemaGrows
<1>2. stmt = 1 /\ schema = Prefix(m) /\ m >= 1
  BY <1>1, PrefixFacts DEF Migrate, Settled, GrownTo
<1> QED
  BY <1>2, PrefixFacts DEF Migrate

\* What is settled stays as it is.
LEMMA SettledStep ==
    ASSUME IInv, ~Temporary, Settled, [Next]_vars
    PROVE  Settled' /\ schema' = schema
<1>1. ~Migrate
  BY SettledThrows
<1>2. schema' = schema
  BY <1>1 DEF Next, Refused, OpenThrows, Boot, BootIf, MigrateThrows, Listen, ListenFails,
     Open, Answer, Signal, Close, HardKill, Crash, Gone, DiskChanges, vars
<1>3. phase' = "migrating" => stmt' = 1
  <2>1. CASE Boot
    BY <2>1 DEF Boot, BootIf
  <2>2. CASE Refused \/ OpenThrows \/ MigrateThrows \/ ListenFails \/ Close \/ HardKill \/ Crash
    BY <2>2 DEF Refused, OpenThrows, MigrateThrows, ListenFails, Close, HardKill, Crash, Gone
  <2>3. CASE \/ Listen \/ Signal \/ DiskChanges \/ UNCHANGED vars
             \/ \E r \in Requests : Open(r) \/ Answer(r)
    BY <2>3 DEF Settled, Listen, Signal, DiskChanges, Open, Answer, vars
  <2> QED
    BY <1>1, <2>1, <2>2, <2>3 DEF Next
<1> QED
  BY <1>2, <1>3 DEF Settled

\* Whatever is killed and started again, the migration is not resumed
\* (main.ts:105-124).
THEOREM MigrationIsNeverResumed == Spec => NeverResumed
<1>1. IInv /\ [Next]_vars => [~Temporary /\ Settled => Settled' /\ schema' = schema]_vars
  BY SettledStep
<1> QED
  BY <1>1, Invariance, PTL DEF Spec, NeverResumed

\* A kill between the first table and the second is one the console does not
\* recover from (main.ts:119).
THEOREM HalfASchemaStaysDown == Spec => HalfMadeForGood
<1>1. IInv /\ [Next]_vars => [~Temporary /\ HalfMade => HalfMade']_vars
  <2> SUFFICES ASSUME IInv, Next, ~Temporary, HalfMade PROVE HalfMade'
    OBVIOUS
  <2>1. Settled
    <3>1. schema # {}
      BY FS_EmptySet DEF HalfMade
    <3> QED
      BY <3>1 DEF HalfMade, Settled
  <2>2. schema' = schema /\ ~Migrate /\ (phase' = "migrating" => stmt' = 1)
    BY <2>1, SettledStep, SettledThrows DEF Settled
  <2>3. phase' \in {"down", "migrating"}
    <3>1. CASE Boot
      BY <3>1 DEF Boot, BootIf, HalfMade
    <3>2. CASE \/ Refused \/ OpenThrows \/ MigrateThrows \/ ListenFails
               \/ Close \/ HardKill \/ Crash
      BY <3>2 DEF Refused, OpenThrows, MigrateThrows, ListenFails, Close, HardKill, Crash, Gone
    <3>3. CASE Listen \/ Signal \/ DiskChanges \/ \E r \in Requests : Open(r) \/ Answer(r)
      BY <3>3 DEF HalfMade, Listen, Signal, DiskChanges, Open, Answer
    <3> QED
      BY <2>2, <3>1, <3>2, <3>3 DEF Next
  <2> QED
    BY <2>2, <2>3 DEF HalfMade
<1> QED
  BY <1>1, Invariance, PTL DEF Spec, HalfMadeForGood
----------------------------------------------------------------------------
(* The environment.                                                        *)

\* The .env files whose container starts.
Starts(dotenv) ==
    /\ \A v \in Asked \union Passed : dotenv[v] = "valid"
    /\ \A v \in Substituted : Blank(dotenv[v]) \/ dotenv[v] = "valid"

\* A process whose environment is refused never gets past loadEnv.
RefusedStaysDown == ~Loads(env) => phase = "down"

\* The variables, by what compose.yaml does with them.
LEMMA ComposeFacts ==
    ASSUME NEW dotenv \in [Variables -> Texts]
    PROVE  /\ \A v \in Fixed : Compose(dotenv)[v] = "valid"
           /\ \A v \in Substituted :
                Compose(dotenv)[v] = IF Blank(dotenv[v]) THEN "valid" ELSE dotenv[v]
           /\ \A v \in Passed :
                Compose(dotenv)[v] = IF Blank(dotenv[v]) THEN "empty" ELSE dotenv[v]
           /\ \A v \in Asked :
                Compose(dotenv)[v] = IF Blank(dotenv[v]) THEN "unset" ELSE dotenv[v]
           /\ \A v \in Variables \ (Fixed \union Substituted \union Asked \union Passed) :
                Compose(dotenv)[v] = "unset"
<1>1. Fixed \union Substituted \union Asked \union Passed \subseteq Variables
  BY DEF Fixed, Substituted, Asked, Passed, Variables, EnvSchema
<1>2. /\ Fixed \intersect Substituted = {} /\ Fixed \intersect Asked = {}
      /\ Fixed \intersect Passed = {} /\ Substituted \intersect Asked = {}
      /\ Substituted \intersect Passed = {} /\ Asked \intersect Passed = {}
  BY DEF Fixed, Substituted, Asked, Passed
<1> HIDE DEF Fixed, Substituted, Asked, Passed, Variables
<1>3. \A v \in Variables : Compose(dotenv)[v] =
        CASE v \in Fixed                           -> "valid"
          [] v \in Substituted /\ Blank(dotenv[v]) -> "valid"
          [] v \in Passed /\ Blank(dotenv[v])      -> "empty"
          [] v \in Substituted \union Asked \union Passed /\ ~Blank(dotenv[v]) -> dotenv[v]
          [] OTHER                                 -> "unset"
  BY DEF Compose
<1> QED
  BY <1>1, <1>2, <1>3

\* What loadEnv says of the variables of the container.
LEMMA LoadsFacts ==
    ASSUME NEW e
    PROVE  Loads(e) <=>
             /\ \A v \in Variables : Accepts(EnvSchema[v], e[v])
             /\ e.LISTEN_ADDR \in {"unset", "valid"}
  BY DEF Loads

\* What is accepted of each group of variables that compose.yaml passes, and of
\* those it does not.
LEMMA AcceptedTexts ==
    /\ \A v \in Variables : Accepts(EnvSchema[v], "valid")
    /\ \A v \in Variables \ Asked : Accepts(EnvSchema[v], "unset")
    /\ \A v \in Asked, text \in Texts \ {"valid"} : ~Accepts(EnvSchema[v], text)
    /\ \A v \in Passed, text \in {"empty", "zero", "malformed"} :
         ~Accepts(EnvSchema[v], text)
    /\ \A v \in Substituted, text \in {"zero", "malformed"} :
         ~Accepts(EnvSchema[v], text)
  BY DEF Accepts, EnvSchema, Setting, Variables, Asked, Passed, Substituted, Texts

\* The console starts from a .env file just if the token, the chain's RPC and
\* the registry's address are there and valid, and each of the four settings
\* with a default is left out or valid (compose.yaml:26-46, env.ts:11-74).
THEOREM ComposeStarts ==
    ASSUME NEW dotenv \in [Variables -> Texts]
    PROVE  Loads(Compose(dotenv)) <=> Starts(dotenv)
<1>1. \A v \in Variables : dotenv[v] \in Texts
  OBVIOUS
<1>2. Fixed \union Substituted \union Asked \union Passed \subseteq Variables
  BY DEF Fixed, Substituted, Asked, Passed, Variables, EnvSchema
<1>3. Compose(dotenv).LISTEN_ADDR = "valid"
  BY ComposeFacts DEF Fixed
<1>4. ASSUME Starts(dotenv), NEW v \in Variables
      PROVE  Accepts(EnvSchema[v], Compose(dotenv)[v])
  <2>1. CASE v \in Fixed \union Asked \union Substituted \union Passed
    <3>1. Compose(dotenv)[v] = "valid"
      BY <1>4, <2>1, ComposeFacts DEF Starts, Blank
    <3> QED
      BY <3>1, AcceptedTexts
  <2>2. CASE v \notin Fixed \union Asked \union Substituted \union Passed
    <3>1. Compose(dotenv)[v] = "unset"
      BY <2>2, ComposeFacts
    <3> QED
      BY <2>2, <3>1, AcceptedTexts
  <2> QED
    BY <2>1, <2>2
<1>5. ASSUME Loads(Compose(dotenv)) PROVE Starts(dotenv)
  <2>1. \A v \in Variables : Accepts(EnvSchema[v], Compose(dotenv)[v])
    BY <1>5, LoadsFacts
  <2>2. ASSUME NEW v \in Asked PROVE dotenv[v] = "valid"
    <3>1. Compose(dotenv)[v] = IF Blank(dotenv[v]) THEN "unset" ELSE dotenv[v]
      BY ComposeFacts
    <3>2. Compose(dotenv)[v] \in Texts
      BY <1>1, <1>2, <3>1 DEF Texts
    <3> QED
      BY <1>2, <2>1, <3>1, <3>2, AcceptedTexts
  <2>3. ASSUME NEW v \in Passed PROVE dotenv[v] = "valid"
    <3>1. Compose(dotenv)[v] = IF Blank(dotenv[v]) THEN "empty" ELSE dotenv[v]
      BY ComposeFacts
    <3>2. Compose(dotenv)[v] \notin {"empty", "zero", "malformed"}
      BY <1>2, <2>1, AcceptedTexts
    <3> QED
      BY <1>1, <1>2, <3>1, <3>2 DEF Texts, Blank
  <2>4. ASSUME NEW v \in Substituted PROVE Blank(dotenv[v]) \/ dotenv[v] = "valid"
    <3>1. Compose(dotenv)[v] = IF Blank(dotenv[v]) THEN "valid" ELSE dotenv[v]
      BY ComposeFacts
    <3>2. Compose(dotenv)[v] \notin {"zero", "malformed"}
      BY <1>2, <2>1, AcceptedTexts
    <3> QED
      BY <1>1, <1>2, <3>1, <3>2 DEF Texts, Blank
  <2> QED
    BY <2>2, <2>3, <2>4 DEF Starts
<1> QED
  BY <1>3, <1>4, <1>5, LoadsFacts
\* A .env made from .env.example is refused whatever else is filled in, as long
\* as the registry's address is left out (.env.example:12-15, env.ts:24).
THEOREM BlankRegistryIsRefused ==
    ASSUME NEW dotenv \in [Variables -> Texts],
           Blank(dotenv.SERVICE_REGISTRY_ADDRESS)
    PROVE  ~Loads(Compose(dotenv))
<1>1. ~Starts(dotenv)
  BY DEF Starts, Passed, Blank
<1> QED
  BY <1>1, ComposeStarts

\* .env.example is such a file.
LEMMA ExampleIsBlank ==
    Example \in [Variables -> Texts] /\ Blank(Example.SERVICE_REGISTRY_ADDRESS)
<1>1. "SERVICE_REGISTRY_ADDRESS" \in Variables
  BY DEF Variables, EnvSchema
<1>2. Example.SERVICE_REGISTRY_ADDRESS = "empty"
  BY <1>1 DEF Example
<1>3. Example \in [Variables -> Texts]
  BY DEF Example, Texts
<1> QED
  BY <1>2, <1>3 DEF Blank

\* A process with an environment that loadEnv refuses exits before it opens
\* anything (main.ts:21-24).
THEOREM RefusedNeverRuns == Spec => []RefusedStaysDown
<1>1. Init => RefusedStaysDown
  BY DEF Init, RefusedStaysDown
<1>2. RefusedStaysDown /\ [Next]_vars => RefusedStaysDown'
  <2> SUFFICES ASSUME RefusedStaysDown, [Next]_vars, ~Loads(env)'
               PROVE  phase' = "down"
    BY DEF RefusedStaysDown
  <2>1. env' = env
    BY DEF Next, Refused, OpenThrows, Boot, BootIf, Migrate, MigrateThrows, Listen,
       ListenFails, Open, Answer, Signal, Close, HardKill, Crash, Gone, DiskChanges, vars
  <2>2. ~Loads(env)
    <3>1. Loads(env)' <=> Loads(env')
      BY DEF Loads
    <3> QED
      BY <2>1, <3>1
  <2>3. phase = "down"
    BY <2>2 DEF RefusedStaysDown
  <2>4. ~Boot /\ ~OpenThrows
    BY <2>2 DEF Boot, BootIf, OpenThrows
  <2> QED
    BY <2>3, <2>4 DEF Next, Refused, Migrate, MigrateThrows, Listen, ListenFails,
       Open, Answer, Signal, Close, HardKill, Crash, Gone, Alive, DiskChanges, vars
<1> QED
  BY <1>1, <1>2, PTL DEF Spec

\* The quick start does not come up: with the container's environment made
\* of .env.example, no process ever gets past loadEnv (README.md:78-82).
THEOREM ExampleNeverRuns == Spec => [](env = Compose(Example) => phase = "down")
<1>1. RefusedStaysDown => (env = Compose(Example) => phase = "down")
  BY ExampleIsBlank, BlankRegistryIsRefused DEF RefusedStaysDown
<1> QED
  BY <1>1, RefusedNeverRuns, PTL
=============================================================================
