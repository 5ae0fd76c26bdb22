------------------------------- MODULE Session -------------------------------
(***************************************************************************)
(* The admin page's session (admin-app.js, admin-login.js, api-base.js):   *)
(* the credential in sessionStorage, whether the app shows the login form, *)
(* and the requests under way.  The browser and the console may answer     *)
(* them in any order, and one sent with an old credential may be answered  *)
(* long after the operator has signed in again.                            *)
(*                                                                         *)
(* Dashboard EXTENDS this module: it says what is mounted while the app is *)
(* signed in and what each request's answer does to it.                    *)
(*                                                                         *)
(* Abstraction: of the credential only whether there is one; the console's *)
(* verdict on it is free (its ADMIN_TOKEN may be another one after a       *)
(* restart), except that a request without a token is never answered 200.  *)
(* Every failure but a 401 (network, 4xx, 5xx) is "failed".                *)
(***************************************************************************)
EXTENDS Naturals, Sequences, SequencesExt

CONSTANTS
    Orchs,      \* orchestrators the pages ask about
    NoOrch,     \* a request or a selection without one
    MaxPending  \* bound: requests under way

ASSUME SessionAssumption == NoOrch \notin Orchs /\ MaxPending \in Nat

VARIABLES
    stored,    \* sessionStorage holds a credential
    authed,    \* admin-app: _authed
    checking,  \* admin-login: _loading, a sign-in waits for /api/health
    pending    \* the requests under way, in the order they were sent

sessionVars == <<stored, authed, checking, pending>>

\* "gone": its component is unmounted; it still sends `more` requests, one
\* after the other, as long as they succeed.
Kinds == {"health", "list", "listAll", "orch", "orchAfter", "refreshOne",
          "refreshAll", "load", "loadAfter", "refreshOrch", "wallet", "escrow",
          "search", "gone"}
Request == [what : Kinds, orch : Orchs \union {NoOrch},
            more : 0 .. 2, token : BOOLEAN]

\* A request as it is sent now: getAuthHeaders reads sessionStorage.
Ask(what, orch) ==
    [what |-> what, orch |-> orch, more |-> 0, token |-> stored]
AskMore(n) ==
    [what |-> "gone", orch |-> NoOrch, more |-> n, token |-> stored]

Kind(i) == pending[i].what
Rest(i) == RemoveAt(pending, i)
PendingKinds == {Kind(i) : i \in 1 .. Len(pending)}
Room(n) == Len(pending) + n <= MaxPending

SessionInit ==
    /\ stored = FALSE /\ authed = FALSE /\ checking = FALSE
    /\ pending = <<>>

\* The form is submitted: the credential is stored first, then checked.  A
\* place is kept for what the app sends when it is signed in.
Submit ==
    /\ ~authed /\ ~checking /\ Room(2)
    /\ stored' = TRUE /\ checking' = TRUE
    /\ pending' = Append(pending, [Ask("health", NoOrch) EXCEPT !.token = TRUE])
    /\ UNCHANGED authed

\* The answers the console may give: 200 only to a token.
MayAnswer(i, verdict) ==
    /\ verdict \in {"ok", "failed"}
    /\ verdict = "ok" => pending[i].token

\* /api/health answers anything but 401: the app is signed in, whatever
\* sessionStorage holds by now, and sends the requests `first`.
SignedIn(i, verdict, first) ==
    /\ Kind(i) = "health" /\ MayAnswer(i, verdict)
    /\ authed' = TRUE /\ checking' = FALSE
    /\ pending' = Rest(i) \o first
    /\ UNCHANGED stored

\* Mutant: the storage is not cleared.
Unauthorized_Kept(i, left) ==
    /\ stored' = stored /\ authed' = FALSE
    /\ checking' = (checking /\ Kind(i) # "health")
    /\ pending' = left
\* Any request answered 401: the storage is cleared and the app shows the
\* login form; `left` are the other requests, their components unmounted.
Unauthorized(i, left) ==
    /\ stored' = FALSE /\ authed' = FALSE
    /\ checking' = (checking /\ Kind(i) # "health")
    /\ pending' = left

SignOut(left) ==
    /\ authed
    /\ stored' = FALSE /\ authed' = FALSE
    /\ pending' = left
    /\ UNCHANGED checking

\* The browser reloads the page: all but sessionStorage starts anew, and an
\* app that finds a token there takes itself for signed in.
BrowserReload(first) ==
    /\ authed' = stored /\ checking' = FALSE
    /\ pending' = IF stored THEN first ELSE <<>>
    /\ UNCHANGED stored

\* Sends the requests qs; nothing else of the session changes.
Send(qs) ==
    /\ pending' = pending \o qs
    /\ UNCHANGED <<stored, authed, checking>>

\* Request i is answered, with anything but 401, and followed by qs.
Answered(i, qs) ==
    /\ pending' = Rest(i) \o qs
    /\ UNCHANGED <<stored, authed, checking>>
=============================================================================
