------------------------------ MODULE Dashboard ------------------------------
(***************************************************************************)
(* The dashboard in one browser tab (services/dashboard/src): the session   *)
(* (lib/auth.tsx), the requests that carry its token (lib/api.ts), the      *)
(* query cache that all pages and all sessions of the tab share (App.tsx),  *)
(* and the buttons of the flows, knowledge-base and settings pages.         *)
(*                                                                          *)
(* A page's query is modelled with TanStack Query as the code configures    *)
(* it: fetched when the page opens or gets the focus and its data is older  *)
(* than staleTime, retried once, one fetch at a time, and started anew when *)
(* it is invalidated on an open page.  tenant-api is what it answers: each  *)
(* account's version of every list, and its documents, which the indexer    *)
(* moves on.                                                                *)
(*                                                                          *)
(* Its answers are those the pages are written for.  The tenant-api beside  *)
(* them asks for fields that two requests lack (a login's tenant_slug, an   *)
(* upload's name) and refuses these; the model lets either happen.  Toasts, *)
(* the fields of forms, the conversations page and a second tab, which      *)
(* would change localStorage behind this one, are left out.                 *)
(***************************************************************************)
EXTENDS Naturals, FiniteSets

CONSTANTS
    Account(_),     \* the tenant that the n-th token is for
    Tours,          \* bound: the sets of pages that a tab opens
    Docs,           \* the documents an account may have, its quota
    Stocked,        \* the accounts that have indexed documents to begin with
    None,           \* no token, no data, no fetch
    MaxLogins,      \* bound: logins, each with a token of its own
    MaxCalls        \* bound: clicks that send something

Pages == UNION Tours

\* What the buttons of each page send.
Ops == [flows    |-> {"create", "activate", "delete"},
        kb       |-> {"upload", "erase"},
        settings |-> {"connect", "dryRun"}]

\* A document is "settled" when it is indexed or failed.
Statuses == {"absent", "pending", "indexing", "settled"}
\* Tokens are numbered as POST /auth/login issues them.
Tokens   == 1..MaxLogins
Accounts == {Account(t) : t \in Tokens}

ASSUME DashboardAssumption ==
    /\ "kb" \in Pages /\ Pages \subseteq DOMAIN Ops
    /\ \A tour \in Tours : "flows" \in tour
    /\ None \notin Tokens /\ None \notin Accounts
    /\ None \notin {"ok", "noContent", "refused", "unauthorized"}
    /\ MaxLogins \in Nat /\ MaxCalls \in Nat

VARIABLES
    token,      \* localStorage's "token" and AuthContext's: one tab keeps them equal
    tour,       \* the pages this tab opens
    route,      \* the open page, or "login"
    dialog,     \* FlowsPage's createOpen
    list,       \* the query cache: each page's data, isInvalidated, isError
    fetch,      \* the fetch of each query: its token, until it has its answer
    calls,      \* what the buttons have sent
    version,    \* tenant-api: the version of each list of each account
    docs,       \* tenant-api: the status of each document of each account
    issued,     \* how many tokens were issued
    lapsed,     \* those past their expiry
    made,       \* how many calls were sent
    seen,       \* history: accounts of the sessions since the tab was loaded
    told        \* history: the last change confirmed of a list on the screen

session == <<tour, token, route, dialog, issued, seen>>
server  == <<version, docs, lapsed>>
vars    == <<session, server, list, fetch, calls, made, told>>

Data  == [owner : Accounts, version : 0..MaxCalls, docs : [Docs -> Statuses]]
Empty == [data |-> None, invalid |-> FALSE, failed |-> FALSE]
Answers == {None, "ok", "noContent", "refused", "unauthorized"}

TypeOK ==
    /\ token \in (1..issued) \cup {None}
    /\ tour \in Tours /\ route \in tour \cup {"login"}
    /\ dialog \in BOOLEAN /\ (dialog => route = "flows")
    /\ route # "login" => token # None
    /\ list \in [Pages -> [data : Data \cup {None}, invalid : BOOLEAN, failed : BOOLEAN]]
    /\ fetch \in [Pages -> {None} \cup [token : Tokens \cup {None},
                            answer : {None, "ok", "unauthorized"},
                            data : Data \cup {None}]]
    /\ \A c \in calls :
          /\ c.page \in Pages /\ c.op \in Ops[c.page]
          /\ c.token \in Tokens \cup {None} /\ c.answer \in Answers
          /\ c.from \in {"page", "left", "gone"} /\ c.n \in 1..made
    /\ version \in [Accounts -> [Pages -> 0..MaxCalls]]
    /\ docs \in [Accounts -> [Docs -> Statuses]]
    /\ issued \in 0..MaxLogins /\ lapsed \subseteq 1..issued
    /\ made \in 0..MaxCalls
    /\ seen \subseteq Accounts
    /\ told \in [Pages -> {None} \cup [owner : Accounts, version : 0..MaxCalls]]

Init ==
    /\ token = None /\ tour \in Tours /\ route = "login" /\ dialog = FALSE
    /\ list = [p \in Pages |-> Empty]
    /\ fetch = [p \in Pages |-> None]
    /\ calls = {}
    /\ version = [a \in Accounts |-> [p \in Pages |-> 0]]
    /\ docs = [a \in Accounts |->
                 [d \in Docs |-> IF a \in Stocked THEN "settled" ELSE "absent"]]
    /\ issued = 0 /\ lapsed = {} /\ made = 0 /\ seen = {}
    /\ told = [p \in Pages |-> None]

-----------------------------------------------------------------------------
(* Queries *)

\* Shell shows the tenant on every page, with the query of the settings page.
Mounted(p) == route # "login" /\ p \in tour \cap {route, "settings"}

\* request() reads the token from localStorage when it is called.
NewFetch == [token |-> token, answer |-> None, data |-> None]

\* The queries when page p opens: data that is absent, invalidated or older than
\* staleTime is fetched, unless a fetch is under way.
Opened(p, tok, old) ==
    [q \in Pages |->
        IF /\ q \in tour \cap {p, "settings"} /\ fetch[q] = None
           /\ old \/ list[q].data = None \/ list[q].invalid
        THEN [token |-> tok, answer |-> None, data |-> None]
        ELSE fetch[q]]

\* refetchOnWindowFocus: staleTime may have passed.
Focus(p) ==
    /\ Mounted(p) /\ fetch[p] = None
    /\ fetch' = [fetch EXCEPT ![p] = NewFetch]
    /\ UNCHANGED <<session, server, list, calls, made, told>>

\* (mutant) hasPending does not ask for "indexing"
HasPending_Narrow(rows) == \E d \in Docs : rows[d] = "pending"

\* hasPending.
HasPending(rows) == \E d \in Docs : rows[d] \in {"pending", "indexing"}

\* refetchInterval: every three seconds while a document is pending.
Poll ==
    /\ route = "kb" /\ fetch["kb"] = None
    /\ list["kb"].data # None /\ HasPending(list["kb"].data.docs)
    /\ fetch' = [fetch EXCEPT !["kb"] = NewFetch]
    /\ UNCHANGED <<session, server, list, calls, made, told>>

Authorized(t) == t \in Tokens \ lapsed

\* Only the knowledge-base page lists documents.
Shown(p, a) == IF p = "kb" THEN docs[a] ELSE [d \in Docs |-> "absent"]

\* GET: what the token's account has at that moment.
ServeFetch(p) ==
    /\ fetch[p] # None /\ fetch[p].answer = None
    /\ \/ /\ Authorized(fetch[p].token)
          /\ LET a == Account(fetch[p].token) IN
             fetch' = [fetch EXCEPT ![p] =
                         [token |-> None, answer |-> "ok",
                          data |-> [owner |-> a, version |-> version[a][p], docs |-> Shown(p, a)]]]
       \/ /\ ~Authorized(fetch[p].token)
          /\ fetch' = [fetch EXCEPT ![p] =
                         [token |-> None, answer |-> "unauthorized", data |-> None]]
    /\ UNCHANGED <<session, server, list, calls, made, told>>

\* The document is loaded again: React and the query cache start from nothing;
\* of the calls sent, those not served yet may still be.
Reload(keeps) ==
    /\ token' = keeps /\ dialog' = FALSE
    /\ list' = [p \in Pages |-> Empty]
    /\ calls' = {[c EXCEPT !.from = "gone"] : c \in {k \in calls : k.answer = None}}
    /\ seen' = IF keeps = None THEN {} ELSE {Account(keeps)}
    /\ UNCHANGED <<tour, issued>>

\* (mutant) the 401 of a late answer goes to the login page by the router
SessionEnds_Soft ==
    /\ token' = None /\ route' = "login" /\ dialog' = FALSE /\ seen' = {}
    /\ fetch' = [p \in Pages |-> None]
    /\ UNCHANGED <<tour, list, calls, issued, told>>

\* request() meets a 401: the token is removed, whichever it is by now, and
\* window.location leaves for /login.
SessionEnds ==
    /\ Reload(None)
    /\ route' = "login"
    /\ fetch' = [p \in Pages |-> None]
    /\ UNCHANGED told

\* The query's function resolves.
FetchReturns(p) ==
    /\ fetch[p] # None
    /\ \/ /\ fetch[p].answer = "unauthorized"
          /\ SessionEnds
       \/ /\ fetch[p].answer = "ok"
          /\ fetch' = [fetch EXCEPT ![p] = None]
          /\ list' = [list EXCEPT ![p] = [Empty EXCEPT !.data = fetch[p].data]]
          /\ UNCHANGED <<session, calls, told>>
    /\ UNCHANGED <<server, made>>

\* It rejects, and so does its retry (retry: 1): the query keeps its data, and
\* its error, which only the flows page reads.
FetchFails(p) ==
    /\ fetch[p] # None /\ fetch[p].answer = None
    /\ fetch' = [fetch EXCEPT ![p] = None]
    /\ list' = [list EXCEPT ![p].failed = (p = "flows")]
    /\ UNCHANGED <<session, server, calls, made, told>>

\* (mutant) invalidateQueries lets the fetch under way finish
Invalidated_Joins(p) ==
    IF Mounted(p) /\ fetch[p] = None THEN [fetch EXCEPT ![p] = NewFetch] ELSE fetch

\* invalidateQueries: an open page's fetch is cancelled and starts anew, except
\* the first one of all.  The cancelled fetch is dropped here, though its request
\* has no abort signal and goes on: its data is ignored, but a late 401 of it
\* would end the session there is, as that of a call does.
Invalidated(p) ==
    IF Mounted(p) /\ (fetch[p] = None \/ list[p].data # None)
    THEN [fetch EXCEPT ![p] = NewFetch]
    ELSE fetch

-----------------------------------------------------------------------------
(* The session *)

\* The components of the page that is left unmount: useMutation forgets.
Left == {IF c.from = "page" THEN [c EXCEPT !.from = "left"] ELSE c : c \in calls}

\* LoginPage: a token for an account; 401 counts as the end of a session.
Login ==
    /\ route = "login" /\ issued < MaxLogins
    /\ issued' = issued + 1
    /\ token' = issued' /\ route' = "flows"
    /\ \E old \in BOOLEAN : fetch' = Opened("flows", issued', old)
    /\ seen' = seen \cup {Account(issued')}
    /\ UNCHANGED <<tour, dialog, server, list, calls, made, told>>

LoginRefused ==
    /\ route = "login"
    /\ SessionEnds
    /\ UNCHANGED <<server, made>>

\* (mutant) the ProtectedRoute does not notice
Logout_Stays ==
    /\ route # "login"
    /\ token' = None /\ calls' = Left
    /\ UNCHANGED <<tour, route, dialog, server, list, fetch, made, issued, seen, told>>

\* Shell's handleLogout.
Logout ==
    /\ route # "login"
    /\ token' = None /\ route' = "login" /\ dialog' = FALSE
    /\ calls' = Left
    /\ UNCHANGED <<tour, server, list, fetch, made, issued, seen, told>>

Navigate(p) ==
    /\ p \in tour /\ route \notin {p, "login"}
    /\ route' = p /\ dialog' = FALSE
    /\ \E old \in BOOLEAN : fetch' = Opened(p, token, old)
    /\ calls' = Left
    /\ UNCHANGED <<tour, token, issued, seen, server, list, made, told>>

\* The user reloads the page: AuthProvider starts from localStorage, and the
\* ProtectedRoute keeps the page or turns it into the login page.
Refresh ==
    /\ Reload(token)
    /\ route' = IF token = None THEN "login" ELSE route
    /\ fetch' = [p \in Pages |-> IF token # None /\ Mounted(p) THEN NewFetch ELSE None]
    /\ UNCHANGED <<server, made, told>>

\* Tokens live equally long: they lapse in the order they were issued.
Lapse(t) ==
    /\ t \in (1..issued) \ lapsed /\ 1..(t - 1) \subseteq lapsed
    /\ lapsed' = lapsed \cup {t}
    /\ UNCHANGED <<session, version, docs, list, fetch, calls, made, told>>

-----------------------------------------------------------------------------
(* The buttons *)

\* A page that is loading has no buttons, nor has the flows page on an error.
Usable(p) ==
    /\ list[p].data # None \/ fetch[p] = None
    /\ p = "flows" => ~list[p].failed

\* isPending of the page's mutation, which disables its buttons; the buttons
\* that delete a document and the Enter key of the dry run do not ask.
Pending(p, op) == \E c \in calls : c.page = p /\ c.op = op /\ c.from = "page"

Send(page, op) ==
    /\ made < MaxCalls
    /\ made' = made + 1
    /\ calls' = calls \cup {[n |-> made + 1, page |-> page, op |-> op,
                            token |-> token, answer |-> None, from |-> "page"]}
    /\ UNCHANGED <<session, server, list, fetch, told>>

\* The dialog of a new flow opens with an empty form, and closes by "Cancelar",
\* by its corner, or when any creation this page sent succeeds.
Dialog(opens) ==
    /\ route = "flows" /\ Usable("flows")
    /\ dialog' = opens
    /\ UNCHANGED <<tour, token, route, issued, seen>>
    /\ UNCHANGED <<server, list, fetch, calls, made, told>>

\* handleCreateJson, handleCreateAssistant, once their form is complete.
HandleCreate ==
    /\ route = "flows" /\ Usable("flows") /\ dialog
    /\ ~Pending("flows", "create")
    /\ Send("flows", "create")

\* "Activar", and handleDelete once it is confirmed: a flow's buttons.
HandleFlow(op) ==
    /\ route = "flows" /\ Usable("flows") /\ ~dialog
    /\ ~Pending("flows", op)
    /\ Send("flows", op)

HandleFileChange ==
    /\ route = "kb" /\ Usable("kb")
    /\ ~Pending("kb", "upload")
    /\ Send("kb", "upload")

\* handleDelete of a document in the list, once it is confirmed.
HandleDelete ==
    /\ route = "kb" /\ list["kb"].data # None
    /\ \E d \in Docs : list["kb"].data.docs[d] # "absent"
    /\ Send("kb", "erase")

Connect ==
    /\ route = "settings"
    /\ ~Pending("settings", "connect")
    /\ Send("settings", "connect")

HandleDryRun == route = "settings" /\ Send("settings", "dryRun")

\* Nobody waits any more for the answer to a call of a page that was reloaded.
Answered(c, answer) ==
    calls' = (calls \ {c}) \cup
             {[k EXCEPT !.answer = answer] : k \in {c} \cap {k \in calls : k.from # "gone"}}

\* The call takes effect: the list it is about has a new version.
NewVersion(c) == [version EXCEPT ![Account(c.token)][c.page] = @ + 1]

\* tenant-api serves a call; an upload needs room, a deleted document a row,
\* and a deletion is answered without a body.
ServeCall(c) ==
    /\ c \in calls /\ c.answer = None
    /\ LET a == Account(c.token) IN
       \/ /\ ~Authorized(c.token)
          /\ Answered(c, "unauthorized")
          /\ UNCHANGED <<version, docs>>
       \/ Answered(c, "refused") /\ UNCHANGED <<version, docs>>
       \/ /\ Authorized(c.token) /\ c.op \notin {"upload", "erase"}
          /\ version' = IF c.op = "dryRun" THEN version ELSE NewVersion(c)
          /\ Answered(c, IF c.op = "delete" THEN "noContent" ELSE "ok")
          /\ UNCHANGED docs
       \/ /\ Authorized(c.token) /\ c.op = "upload"
          /\ \E d \in Docs :
                /\ docs[a][d] = "absent"
                /\ docs' = [docs EXCEPT ![a][d] = "pending"]
          /\ version' = NewVersion(c) /\ Answered(c, "ok")
       \/ /\ Authorized(c.token) /\ c.op = "erase"
          /\ \E d \in Docs :
                /\ docs[a][d] # "absent"
                /\ docs' = [docs EXCEPT ![a][d] = "absent"]
          /\ version' = NewVersion(c) /\ Answered(c, "noContent")
       \/ /\ Authorized(c.token)
          /\ \/ c.op = "upload" /\ \A d \in Docs : docs[a][d] # "absent"
             \/ c.op = "erase" /\ \A d \in Docs : docs[a][d] = "absent"
          /\ Answered(c, "refused") /\ UNCHANGED <<version, docs>>
    /\ UNCHANGED <<session, lapsed, list, fetch, made, told>>

\* The answer arrives.  onSuccess invalidates the list.  A body that is not
\* there cannot be read as JSON: a deletion ends in onError, which only tells.
CallReturns(c) ==
    /\ c \in calls /\ c.answer # None
    /\ CASE c.answer = "unauthorized" /\ c.op # "upload" -> SessionEnds
         [] c.answer = "ok" /\ c.op # "dryRun" ->
               /\ calls' = calls \ {c}
               /\ list' = [list EXCEPT ![c.page].invalid = TRUE]
               /\ fetch' = Invalidated(c.page)
               /\ told' = IF Mounted(c.page) /\ list[c.page].data # None
                          THEN [told EXCEPT ![c.page] =
                                  [owner   |-> Account(c.token),
                                   version |-> version[Account(c.token)][c.page]]]
                          ELSE told
               /\ dialog' = (dialog /\ ~(c.op = "create" /\ c.from = "page"))
               /\ UNCHANGED <<tour, token, route, issued, seen>>
         [] OTHER ->
               /\ calls' = calls \ {c}
               /\ UNCHANGED <<session, list, fetch, told>>
    /\ UNCHANGED <<server, made>>

\* rag-indexer, seen through the status column (see KbDocuments).
Indexer(a, d) ==
    /\ docs[a][d] \in {"pending", "indexing"}
    /\ \E s \in {"indexing", "settled"} : docs' = [docs EXCEPT ![a][d] = s]
    /\ UNCHANGED <<session, version, lapsed, list, fetch, calls, made, told>>

-----------------------------------------------------------------------------
Request == \E c \in calls : ServeCall(c) \/ CallReturns(c)
Load(p) == ServeFetch(p) \/ FetchReturns(p)

Next ==
    \/ \E p \in Pages : Focus(p) \/ Load(p) \/ FetchFails(p) \/ Navigate(p)
    \/ Poll
    \/ Login \/ LoginRefused \/ Logout \/ Refresh
    \/ \E t \in Tokens : Lapse(t)
    \/ \E opens \in BOOLEAN : Dialog(opens)
    \/ HandleCreate \/ \E op \in {"activate", "delete"} : HandleFlow(op)
    \/ HandleFileChange \/ HandleDelete
    \/ Connect \/ HandleDryRun
    \/ Request
    \/ \E a \in Accounts, d \in Docs : Indexer(a, d)

Spec == Init /\ [][Next]_vars

\* The polling timer ticks, and a page that keeps asking is answered at last:
\* tenant-api does not fail for ever.
FairSpec ==
    /\ Spec
    /\ WF_vars(Poll)
    /\ SF_vars(ServeFetch("kb"))
    /\ WF_vars(FetchReturns("kb"))

-----------------------------------------------------------------------------
(* Properties *)

\* A list that was before the user's eyes when a change of it was confirmed, and
\* is not marked as invalid, is at least as new as that change
\* (invalidateQueries in every onSuccess): a fetch from before the change is
\* not taken for the list after it.
ReadYourWrites ==
    \A p \in Pages :
        (/\ told[p] # None /\ list[p].data # None /\ ~list[p].invalid
         /\ list[p].data.owner = told[p].owner)
        => list[p].data.version >= told[p].version

\* The cache is not emptied between two sessions of one load of the tab, but an
\* expired session leaves nothing behind: what is cached belongs to an account
\* that was logged in since the tab was loaded (api.ts on 401).
NothingFromBeforeTheReload ==
    \A p \in Pages : list[p].data # None => list[p].data.owner \in seen

\* The open page shows a document as pending that no longer is.
Behind ==
    /\ route = "kb" /\ list["kb"].data # None
    /\ \E d \in Docs :
          /\ list["kb"].data.docs[d] \in {"pending", "indexing"}
          /\ docs[list["kb"].data.owner][d] \notin {"pending", "indexing"}

\* An open knowledge-base page does not show a document as pending for ever
\* once it is indexed, failed or deleted (refetchInterval in KbPage.tsx).
PageCatchesUp == []<>~Behind
=============================================================================
