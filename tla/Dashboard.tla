------------------------------ MODULE Dashboard ------------------------------
(***************************************************************************)
(* The views of the admin page but the audit page's: the routing dashboard *)
(* (admin-routing.js), where one of the roster is selected, the           *)
(* direct-link page (admin-orch-detail.js), whose address changes under    *)
(* the same element when the hash goes from one orch to another, the       *)
(* sender's wallet and escrow (admin-sender.js), and the capability search *)
(* (admin-capabilities.js).  They ask the console and write what it        *)
(* answers into their state, with no check that the answer is still the    *)
(* one they want.                                                          *)
(*                                                                         *)
(* Abstraction: of a roster, a wallet or a route only whether one has been *)
(* loaded, of an orch's data only whose it is.  A 404 is an answer about   *)
(* its orch, and 503 wallet_not_configured a failure.                      *)
(***************************************************************************)
EXTENDS Session

VARIABLES
    path,  \* location.hash: one of the Pages or the address of an orch
    view   \* the state of the mounted element

vars == <<sessionVars, path, view>>

Pages == {"routing", "sender", "capabilities"}

ASSUME PagesAssumption == Orchs \intersect Pages = {}

NoDetail == [orch |-> NoOrch, ok |-> FALSE]
View ==
    [subject   : Orchs \union {NoOrch},  \* _selected, or address
     detail    : [orch : Orchs \union {NoOrch}, ok : BOOLEAN],  \* _detail, _data
     rows      : BOOLEAN,     \* _orchs, _wallet or _escrow, or _result is there
     first     : BOOLEAN,     \* the sender's first answer of two was good
     loading   : BOOLEAN,     \* _loading
     error     : BOOLEAN,     \* _error
     refreshing : BOOLEAN,    \* _refreshing
     overtaken : BOOLEAN]     \* history: an answer came before an older one

Unmounted ==
    [subject |-> NoOrch, detail |-> NoDetail, rows |-> FALSE, first |-> FALSE,
     loading |-> FALSE, error |-> FALSE, refreshing |-> FALSE,
     overtaken |-> FALSE]

TypeOK ==
    /\ stored \in BOOLEAN /\ authed \in BOOLEAN /\ checking \in BOOLEAN
    /\ pending \in Seq(Request) /\ Len(pending) <= MaxPending
    /\ path \in Orchs \union Pages
    /\ view \in View
    /\ ~authed => view = Unmounted

Init == SessionInit /\ path = "routing" /\ view = Unmounted

\* Requests whose answers are written into detail.
Detailing == {"orch", "orchAfter", "load", "loadAfter"}
NoneDetailing == PendingKinds \intersect Detailing = {}

\* What a new element shows and sends: the dashboard its roster; the orch
\* page the same load twice, from connectedCallback and from updated; the
\* sender both of its requests; the search nothing.
Mounted(p) ==
    [Unmounted EXCEPT !.loading = p # "capabilities",
                      !.subject = IF p \in Pages THEN NoOrch ELSE p]
Both == <<Ask("wallet", NoOrch), Ask("escrow", NoOrch)>>
First(p) ==
    CASE p = "routing"      -> <<Ask("list", NoOrch)>>
      [] p = "sender"       -> Both
      [] p = "capabilities" -> <<>>
      [] OTHER              -> <<Ask("load", p), Ask("load", p)>>

\* The element is unmounted: of what it has sent, each request still sends
\* the ones its function awaits next.
Remaining(q) ==
    CASE q.what = "gone" -> q.more
      [] q.what \in {"refreshAll", "refreshOrch", "orchAfter"} -> 1
      [] q.what = "refreshOne" -> IF view.subject = q.orch THEN 2 ELSE 1
      [] OTHER -> 0
Left(q) ==
    IF q.what = "health" THEN q
    ELSE [q EXCEPT !.what = "gone", !.orch = NoOrch, !.more = Remaining(q)]
LeftOf(qs) == [i \in 1 .. Len(qs) |-> Left(qs[i])]

\* _reload and _load up to their await.
ReloadStart(v) == [v EXCEPT !.loading = TRUE, !.error = FALSE]
LoadStart(v, o) ==
    [v EXCEPT !.subject = o, !.detail = NoDetail, !.loading = TRUE, !.error = FALSE,
              !.overtaken = @ /\ ~NoneDetailing]
----------------------------------------------------------------------------
(* The operator.                                                           *)

OnRouting == authed /\ path = "routing"
OnOrch    == authed /\ path \in Orchs

\* What is drawn: the roster unless it loads; the panel of the selected orch,
\* an error in its place; the orch page unless it loads or has an error.
RosterShown == OnRouting /\ view.rows /\ ~view.loading
PanelShown  == OnRouting /\ view.subject # NoOrch /\ view.detail.ok
PageShown   == OnOrch /\ ~view.loading /\ ~view.error /\ view.detail.ok

SignIn == Submit /\ UNCHANGED <<path, view>>

SignsOut == SignOut(LeftOf(pending)) /\ view' = Unmounted /\ UNCHANGED path

Reopen ==
    /\ BrowserReload(First(path))
    /\ view' = IF stored THEN Mounted(path) ELSE Unmounted
    /\ UNCHANGED path

\* The hash changes: under the login form, between two views, or from one
\* orch to another, where the element stays and loads anew.
Navigate(p) ==
    /\ p # path /\ path' = p
    /\ \/ ~authed /\ UNCHANGED <<sessionVars, view>>
       \/ /\ authed /\ ~({p, path} \subseteq Orchs) /\ Room(2)
          /\ view' = Mounted(p)
          /\ pending' = LeftOf(pending) \o First(p)
          /\ UNCHANGED <<stored, authed, checking>>
       \/ /\ authed /\ {p, path} \subseteq Orchs /\ Room(1)
          /\ view' = LoadStart(view, p)
          /\ Send(<<Ask("load", p)>>)

Reload ==
    /\ OnRouting /\ Room(1)
    /\ view' = ReloadStart(view)
    /\ Send(<<Ask("list", NoOrch)>>)
    /\ UNCHANGED path

\* A click on a row of the roster; on the selected one it closes the panel.
Select(o) ==
    /\ RosterShown /\ Room(1)
    /\ IF view.subject = o
       THEN /\ view' = [view EXCEPT !.subject = NoOrch, !.detail = NoDetail]
            /\ UNCHANGED sessionVars
       ELSE /\ view' = [view EXCEPT !.subject = o, !.detail = NoDetail,
                                    !.overtaken = @ /\ ~NoneDetailing]
            /\ Send(<<Ask("orch", o)>>)
    /\ UNCHANGED path

RefreshOne ==
    /\ PanelShown /\ Room(1)
    /\ Send(<<Ask("refreshOne", view.subject)>>)
    /\ UNCHANGED <<path, view>>

RefreshAll ==
    /\ OnRouting /\ ~view.refreshing /\ Room(1)
    /\ view' = [view EXCEPT !.refreshing = TRUE]
    /\ Send(<<Ask("refreshAll", NoOrch)>>)
    /\ UNCHANGED path

\* The sender's Reload button, and the form of the search.
ReloadSender ==
    /\ authed /\ path = "sender" /\ ~view.loading /\ Room(2)
    /\ view' = Mounted(path)
    /\ Send(Both)
    /\ UNCHANGED path

Search ==
    /\ authed /\ path = "capabilities" /\ ~view.loading /\ Room(1)
    /\ view' = [Unmounted EXCEPT !.loading = TRUE]
    /\ Send(<<Ask("search", NoOrch)>>)
    /\ UNCHANGED path

RefreshOrch ==
    /\ PageShown /\ ~view.refreshing /\ Room(1)
    /\ view' = [view EXCEPT !.refreshing = TRUE]
    /\ Send(<<Ask("refreshOrch", path)>>)
    /\ UNCHANGED path
----------------------------------------------------------------------------
(* The answers.                                                            *)

Entered(i, verdict) ==
    /\ SignedIn(i, verdict, First(path))
    /\ view' = Mounted(path)
    /\ UNCHANGED path

\* Mutant: the app does not hear of it.
Rejected_StaysIn(i) ==
    /\ stored' = FALSE /\ pending' = Rest(i)
    /\ checking' = (checking /\ Kind(i) # "health")
    /\ UNCHANGED <<authed, path, view>>
Rejected(i) ==
    /\ Unauthorized(i, LeftOf(Rest(i)))
    /\ view' = Unmounted
    /\ UNCHANGED path

Overtakes(i) == \E j \in 1 .. i - 1 : Kind(j) \in Detailing

\* Mutant: the spinner is stopped by a success only.
ListAnswered_NoFinally(i, verdict) ==
    /\ Kind(i) \in {"list", "listAll"} /\ MayAnswer(i, verdict)
    /\ view' = IF verdict = "ok"
               THEN [view EXCEPT !.loading = FALSE, !.rows = TRUE,
                                 !.refreshing = @ /\ Kind(i) = "list"]
               ELSE [view EXCEPT !.error = TRUE]
    /\ Answered(i, <<>>)
    /\ UNCHANGED path
\* The end of _reload, and of the _refreshAll that awaits it.
ListAnswered(i, verdict) ==
    /\ Kind(i) \in {"list", "listAll"} /\ MayAnswer(i, verdict)
    /\ view' = [view EXCEPT !.loading = FALSE,
                            !.rows = @ \/ verdict = "ok",
                            !.error = @ \/ verdict = "failed",
                            !.refreshing = @ /\ Kind(i) = "list"]
    /\ Answered(i, <<>>)
    /\ UNCHANGED path

\* The end of _select: the answer, or its error, becomes the panel.
OrchAnswered(i, verdict) ==
    /\ Kind(i) = "orch" /\ MayAnswer(i, verdict)
    /\ view' = [view EXCEPT !.detail = [orch |-> pending[i].orch, ok |-> verdict = "ok"],
                            !.overtaken = @ \/ Overtakes(i)]
    /\ Answered(i, <<>>)
    /\ UNCHANGED path

\* Mutant: the panel is asked for whichever orch is selected by now.
OneRefreshed_Unchecked(i, verdict) ==
    /\ Kind(i) = "refreshOne" /\ MayAnswer(i, verdict)
    /\ \/ /\ verdict = "failed"
          /\ view' = [view EXCEPT !.error = TRUE] /\ Answered(i, <<>>)
       \/ /\ verdict = "ok"
          /\ UNCHANGED view /\ Answered(i, <<Ask("orchAfter", pending[i].orch)>>)
    /\ UNCHANGED path
\* _refreshOne: the refresh, the panel if its orch is still selected, the
\* roster; the first failure ends it.
OneRefreshed(i, verdict) ==
    /\ Kind(i) = "refreshOne" /\ MayAnswer(i, verdict)
    /\ \/ /\ verdict = "failed"
          /\ view' = [view EXCEPT !.error = TRUE] /\ Answered(i, <<>>)
       \/ /\ verdict = "ok" /\ view.subject = pending[i].orch
          /\ UNCHANGED view /\ Answered(i, <<Ask("orchAfter", pending[i].orch)>>)
       \/ /\ verdict = "ok" /\ view.subject # pending[i].orch
          /\ view' = ReloadStart(view) /\ Answered(i, <<Ask("list", NoOrch)>>)
    /\ UNCHANGED path
OrchAfterAnswered(i, verdict) ==
    /\ Kind(i) = "orchAfter" /\ MayAnswer(i, verdict)
    /\ IF verdict = "ok"
       THEN /\ view' = [ReloadStart(view) EXCEPT
                            !.detail = [orch |-> pending[i].orch, ok |-> TRUE],
                            !.overtaken = @ \/ Overtakes(i)]
            /\ Answered(i, <<Ask("list", NoOrch)>>)
       ELSE /\ view' = [view EXCEPT !.error = TRUE,
                                    !.overtaken = @ \/ Overtakes(i)]
            /\ Answered(i, <<>>)
    /\ UNCHANGED path

AllRefreshed(i, verdict) ==
    /\ Kind(i) = "refreshAll" /\ MayAnswer(i, verdict)
    /\ IF verdict = "ok"
       THEN view' = ReloadStart(view) /\ Answered(i, <<Ask("listAll", NoOrch)>>)
       ELSE /\ view' = [view EXCEPT !.error = TRUE, !.refreshing = FALSE]
            /\ Answered(i, <<>>)
    /\ UNCHANGED path

\* The end of _load, and of the _refresh that awaits it.  An error stays
\* until the next load starts, whatever other loads bring.
LoadAnswered(i, verdict) ==
    /\ Kind(i) \in {"load", "loadAfter"} /\ MayAnswer(i, verdict)
    /\ view' = [view EXCEPT !.loading = FALSE,
                            !.detail = IF verdict = "ok"
                                       THEN [orch |-> pending[i].orch, ok |-> TRUE]
                                       ELSE @,
                            !.error = @ \/ verdict = "failed",
                            !.overtaken = @ \/ Overtakes(i),
                            !.refreshing = @ /\ Kind(i) = "load"]
    /\ Answered(i, <<>>)
    /\ UNCHANGED path

\* _refresh loads the address the page has by now.
OrchRefreshed(i, verdict) ==
    /\ Kind(i) = "refreshOrch" /\ MayAnswer(i, verdict)
    /\ IF verdict = "ok"
       THEN view' = LoadStart(view, path) /\ Answered(i, <<Ask("loadAfter", path)>>)
       ELSE /\ view' = [view EXCEPT !.error = TRUE, !.refreshing = FALSE]
            /\ Answered(i, <<>>)
    /\ UNCHANGED path

\* Promise.allSettled: the first answer of the two waits for the other, and
\* what both bring is shown at once.
SenderAnswered(i, verdict) ==
    /\ Kind(i) \in {"wallet", "escrow"} /\ MayAnswer(i, verdict)
    /\ view' = IF {"wallet", "escrow"} \subseteq PendingKinds
               THEN [view EXCEPT !.first = verdict = "ok"]
               ELSE [view EXCEPT !.loading = FALSE, !.first = FALSE,
                                 !.rows = view.first \/ verdict = "ok",
                                 !.error = ~view.first \/ verdict = "failed"]
    /\ Answered(i, <<>>)
    /\ UNCHANGED path

SearchAnswered(i, verdict) ==
    /\ Kind(i) = "search" /\ MayAnswer(i, verdict)
    /\ view' = [view EXCEPT !.loading = FALSE, !.rows = verdict = "ok",
                            !.error = verdict = "failed"]
    /\ Answered(i, <<>>)
    /\ UNCHANGED path

\* Mutant: one request too many.
GoneAnswered_OffByOne(i, verdict) ==
    /\ Kind(i) = "gone" /\ MayAnswer(i, verdict)
    /\ Answered(i, IF verdict = "ok" /\ pending[i].more >= 0
                   THEN <<AskMore(pending[i].more - 1)>> ELSE <<>>)
    /\ UNCHANGED <<path, view>>
\* An answer to an unmounted element: its state is seen no more, but what
\* its function sends next goes out, with the credential of the moment.
GoneAnswered(i, verdict) ==
    /\ Kind(i) = "gone" /\ MayAnswer(i, verdict)
    /\ Answered(i, IF verdict = "ok" /\ pending[i].more > 0
                   THEN <<AskMore(pending[i].more - 1)>> ELSE <<>>)
    /\ UNCHANGED <<path, view>>

Operator ==
    \/ SignIn \/ SignsOut \/ Reopen
    \/ \E p \in Orchs \union Pages : Navigate(p)
    \/ ReloadSender \/ Search
    \/ Reload \/ RefreshOne \/ RefreshAll \/ RefreshOrch
    \/ \E o \in Orchs : Select(o)
Answer(i, verdict) ==
    \/ Entered(i, verdict) \/ ListAnswered(i, verdict) \/ OrchAnswered(i, verdict)
    \/ OneRefreshed(i, verdict) \/ OrchAfterAnswered(i, verdict)
    \/ AllRefreshed(i, verdict) \/ LoadAnswered(i, verdict)
    \/ OrchRefreshed(i, verdict) \/ SenderAnswered(i, verdict)
    \/ SearchAnswered(i, verdict) \/ GoneAnswered(i, verdict)

Next == \/ Operator
        \/ \E i \in 1 .. Len(pending) :
             Rejected(i) \/ \E verdict \in {"ok", "failed"} : Answer(i, verdict)

Spec == Init /\ [][Next]_vars
----------------------------------------------------------------------------
\* Behind the login form there is no credential, whatever answers are still
\* out (FRONTEND.md:126-127); while one is being checked there may be.
LoggedOutIsClean == ~authed /\ ~checking => ~stored

\* An app that shows the console's data has a credential: one that a late
\* 401 of an earlier session has left without (admin-login.js:92-94 announces
\* the sign-in all the same) gets to show nothing.
DataNeedsToken == view.rows \/ view.detail.ok => authed /\ stored

\* Once the answers are in, in the order they were asked for, the panel or
\* the page shows the orch it is about, or an error.
SettlesOnSubject ==
    authed /\ ~view.overtaken /\ NoneDetailing =>
        /\ OnRouting /\ view.subject # NoOrch => view.detail.orch = view.subject
        /\ OnOrch /\ ~view.loading => view.error \/ view.detail.orch = path

\* A button that spins waits for a request that is under way: no answer,
\* failure, change of page or second click leaves it spinning for good.
SpinnersEnd ==
    /\ checking => "health" \in PendingKinds
    /\ view.loading =>
         PendingKinds \intersect {"list", "listAll", "load", "loadAfter",
                                   "wallet", "escrow", "search"} # {}
    /\ view.refreshing =>
         PendingKinds \intersect
           {"refreshAll", "listAll", "refreshOrch", "loadAfter"} # {}

\* The page at #/orchs/:address shows, with every answer in, the orch of its
\* address (admin-orch-detail.js:6-7, "Per-orch direct-link drilldown ...
\* Loads the orch via getOrch()").
DrilldownShowsItsOrch ==
    PageShown /\ NoneDetailing => view.detail.orch = path
=============================================================================
