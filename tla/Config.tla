------------------------------- MODULE Config -------------------------------
(***************************************************************************)
(* The environment of the process (src/config/env.ts), as the container    *)
(* gives it (compose.yaml) from a .env file (.env.example).                *)
(*                                                                         *)
(* Abstraction: of a variable's text only which of these it is:            *)
(*   "unset", "empty", "zero" (the digit 0), "valid" for its kind and not  *)
(*   zero, or "malformed" (any other).                                     *)
(***************************************************************************)

Texts == {"unset", "empty", "zero", "valid", "malformed"}

\* EnvSchema: what each variable is, and what becomes of a missing one.
Setting(kind, absent) == [kind |-> kind, absent |-> absent]
EnvSchema ==
    [LISTEN_ADDR              |-> Setting("text", "default"),
     ADMIN_TOKEN              |-> Setting("token", "required"),
     CHAIN_RPC                |-> Setting("url", "required"),
     CHAIN_ID                 |-> Setting("positive", "default"),
     CONTROLLER_ADDRESS       |-> Setting("address", "default"),
     SERVICE_REGISTRY_ADDRESS |-> Setting("address", "optional"),
     STATE_PATH               |-> Setting("text", "default"),
     RESOLVER_SOCKET_PATH     |-> Setting("text", "default"),
     SENDER_SOCKET_PATH       |-> Setting("text", "default"),
     CHAIN_READ_TTL_SEC       |-> Setting("nonnegative", "default"),
     RESOLVER_AUDIT_POLL_INTERVAL_SEC |-> Setting("nonnegative", "default"),
     SENDER_ADDRESS           |-> Setting("address", "optional"),
     MIN_BALANCE_WEI          |-> Setting("digits", "optional"),
     LOG_LEVEL                |-> Setting("enum", "default"),
     LOG_FORMAT               |-> Setting("enum", "default")]
Variables == DOMAIN EnvSchema

\* z.coerce.number(): Number("") is 0.  A default stands in for a missing
\* variable, never for an empty one.
Accepts(setting, text) ==
    \/ text = "valid" \/ setting.kind = "text"
    \/ text = "unset" /\ setting.absent # "required"
    \/ text = "empty" /\ setting.kind = "nonnegative"
    \/ text = "zero"  /\ setting.kind \in {"nonnegative", "digits"}

\* loadEnv, then parseListenAddr on what it returns.
Loads(env) ==
    /\ \A v \in Variables : Accepts(EnvSchema[v], env[v])
    /\ env.LISTEN_ADDR \in {"unset", "valid"}
----------------------------------------------------------------------------
\* compose.yaml passes these variables and no others: the ones it sets
\* itself, and those of .env, with a default of its own, an empty string, or
\* a refusal for a variable that is not set or empty there.
Fixed       == {"LISTEN_ADDR", "STATE_PATH", "RESOLVER_SOCKET_PATH", "SENDER_SOCKET_PATH"}
Substituted == {"CHAIN_ID", "CONTROLLER_ADDRESS", "LOG_LEVEL", "LOG_FORMAT"}
Asked       == {"ADMIN_TOKEN", "CHAIN_RPC"}
Passed      == {"SERVICE_REGISTRY_ADDRESS"}

Blank(text) == text \in {"unset", "empty"}
Compose(dotenv) ==
    [v \in Variables |->
       CASE v \in Fixed                           -> "valid"
         [] v \in Substituted /\ Blank(dotenv[v]) -> "valid"
         [] v \in Passed /\ Blank(dotenv[v])      -> "empty"
         [] v \in Substituted \union Asked \union Passed /\ ~Blank(dotenv[v]) -> dotenv[v]
         [] OTHER                                 -> "unset"]

\* .env.example, with ADMIN_TOKEN and CHAIN_RPC filled in.
Example ==
    [v \in Variables |->
       IF v \in {"SERVICE_REGISTRY_ADDRESS", "SENDER_ADDRESS", "MIN_BALANCE_WEI"}
       THEN "empty"
       ELSE IF v \in {"LISTEN_ADDR", "STATE_PATH"} THEN "unset" ELSE "valid"]
=============================================================================
