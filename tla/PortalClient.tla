---------------------------- MODULE PortalClient ----------------------------
(***************************************************************************)
(* The page of the SVE-GIP portal (apps/svegip/app.js): one user's         *)
(* browser, its navigation, the panels it fills from the platform services *)
(* and the decisions it sends to Workflow.                                 *)
(*                                                                         *)
(* The page is one thread: an action runs to its next await.  Answers come *)
(* in any order, after the user has gone elsewhere, or not at all.  A      *)
(* panel is filled through the DOM node the request was made for, and a    *)
(* render replaces the nodes: a load is attached while its node is on the  *)
(* screen.                                                                 *)
(*                                                                         *)
(* A definition that no other uses, placed before the one it resembles, is *)
(* a faulty variant of it: README.md says which property rules it out.     *)
(***************************************************************************)
EXTENDS Naturals, FiniteSets, Sequences, SequencesExt

CONSTANTS
    Session,      \* the accounts that may sign in
    Visited,      \* bound: the pages the user asks for
    Subjects,     \* Subjects[p]: what page p of Selectable can be opened for
    Search,       \* what the directory can be searched for
    Tool,         \* the tools opened: see ToolAllowed
    Task,         \* the approval tasks assigned to the user
    MaxLoads,     \* bound: requests for panels under way
    MaxHistory,   \* bound: entries of navHistory
    None

HrmsActives ==
    {"hrms", "hrmsDirectory", "hrmsEmployee", "hrmsLifecycle", "hrmsCase", "hrmsApprovals"}

Page == HrmsActives \cup
    {"home", "announcements", "search", "mysve", "mytasks", "sve", "skl", "executive",
     "projects", "governance", "documents", "admin"}

Selectable == {"hrmsEmployee", "hrmsLifecycle", "hrmsCase"}
TaskPage == {"mytasks", "hrmsApprovals"}
Fetched == HrmsActives \cup {"mysve", "mytasks"}

\* The pages whose tabs are drawn again from a cache.
Cached == {"hrmsEmployee", "hrmsCase"}

ASSUME PortalClientAssumption ==
    /\ None \notin Session /\ None \notin {"skl", "sent"}
    /\ Visited \subseteq Page \ (Selectable \cup {"announcements", "search"})
    /\ Tool \subseteq {"accounts", "documents", "decisions"}
    /\ DOMAIN Subjects = Selectable
    /\ MaxLoads \in Nat \ {0}
    /\ MaxHistory \in Nat

VARIABLES
    session,    \* the signed-in account, None at the sign-in screen
    active,     \* the page
    skl,        \* sklContext
    history,    \* navHistory
    selected,   \* hrmsSelectedEmployeeId, hrmsLifecycleType and hrmsSelectedCaseId
    search,     \* hrmsDirectoryFilters.search
    cache,      \* hrmsProfileDataCache and hrmsCaseDataCache
    panel,      \* what the content area shows
    loads,      \* the requests for panels under way
    opening,    \* the tools whose request is under way
    deciding,   \* hrmsPendingDecisions, each with how far it got
    reviewing,  \* the probation decision under way (bound: one, nothing in the page
                \* keeps it to one): the case it names, and, no state of the code, the
                \* case that was on the screen
    pending,    \* Workflow's PENDING tasks of the user
    known       \* no state of the code: the tasks the user was answered about and
                \* that were no longer pending then

page == <<session, active, skl, history, selected, search, cache>>
vars == <<page, panel, loads, opening, deciding, reviewing, pending, known>>

-----------------------------------------------------------------------------
(* Who may open what.                                                      *)

Policy(role) ==
    CASE role = "Administrator" -> Page
      [] role = "Management" ->
            {"home", "mysve", "mytasks", "sve", "skl", "executive", "projects",
             "governance", "hrms", "documents", "admin"}
      [] role = "Executive Office" ->
            {"home", "mysve", "mytasks", "sve", "executive", "projects", "governance",
             "hrms", "documents"}
      [] role = "SKL User / Legal Reviewer" ->
            {"home", "mysve", "mytasks", "skl", "projects", "governance", "documents"}
      [] OTHER -> {"home", "mysve", "mytasks", "documents"}

PortalAllowed(p) ==
    \/ p \in Policy(session.role)
    \/ p = "admin" /\ "accounts.manage" \in session.permissions
    \/ p \in HrmsActives /\ ("hr.access" \in session.permissions \/ "hrms" \in Policy(session.role))
    \/ p = "sve" /\ session.unit = "SVE"
    \/ p = "skl" /\ session.unit = "SKL"

ToolAllowed(tool) ==
    CASE tool = "accounts" ->
            session.role = "Administrator" \/ "accounts.manage" \in session.permissions
      [] tool = "documents" -> PortalAllowed("documents")
      [] tool = "decisions" -> session.role \in {"Administrator", "Management", "Executive Office"}

-----------------------------------------------------------------------------
(* Rendering.                                                              *)

Blank(state) == [state |-> state, page |-> None, about |-> None, offered |-> {}]

\* What a load of page p is for.
About(p, sel, term) ==
    IF p \in Selectable THEN sel[p] ELSE IF p = "hrmsDirectory" THEN term ELSE p

Detached(ls) ==
    [l \in DOMAIN ls |-> IF ls[l] = None THEN None ELSE [ls[l] EXCEPT !.attached = FALSE]]

\* hrmsAsyncRender: says it is loading, and asks.
AsyncRender(p, about, ls) ==
    \E l \in DOMAIN ls :
        /\ ls[l] = None
        /\ \A k \in DOMAIN ls : ls[k] = None => l <= k
        /\ loads' = [ls EXCEPT ![l] = [page |-> p, about |-> about, attached |-> TRUE, reply |-> None]]
        /\ panel' = Blank("loading")

\* render and renderSection: the nodes of before are gone.
Render(p, sel, term) ==
    IF p \in Fetched /\ About(p, sel, term) # None
    THEN AsyncRender(p, About(p, sel, term), Detached(loads))
    ELSE loads' = Detached(loads) /\ panel' = Blank("static")

\* renderSection alone: a tool's screen has no content area, so it throws there.
RenderSection ==
    IF panel.state = "tool"
    THEN UNCHANGED <<panel, loads>>
    ELSE Render(active, selected, search)

-----------------------------------------------------------------------------
NothingSelected == [p \in Selectable |-> IF p = "hrmsLifecycle" THEN "onboarding" ELSE None]

Init ==
    /\ session = None /\ active = "home" /\ skl = FALSE /\ history = <<>>
    /\ selected = NothingSelected /\ search = "" /\ cache = [p \in Cached |-> None]
    /\ panel = Blank("static") /\ loads = [l \in 1 .. MaxLoads |-> None]
    /\ opening = {} /\ deciding = [t \in Task |-> None] /\ reviewing = None /\ known = {}
    /\ pending \in SUBSET Task

\* bootstrapAuth finds the cookie's account, or secureLogin is given it.
SignIn ==
    /\ session = None
    /\ session' \in Session
    /\ active' \in {"home"} \cup
         {p \in {"skl"} : session'.role = "SKL User / Legal Reviewer" /\ session'.unit = "SKL"}
    /\ UNCHANGED <<skl, history, selected, search, cache, panel, loads, opening, deciding,
                   reviewing, pending, known>>

\* signOut, or a request answered 401: the browser leaves the page.
Leave ==
    /\ session # None
    /\ session' = None /\ active' = "home" /\ skl' = FALSE /\ history' = <<>>
    /\ selected' = NothingSelected /\ search' = "" /\ cache' = [p \in Cached |-> None]
    /\ panel' = Blank("static") /\ loads' = [l \in 1 .. MaxLoads |-> None]
    /\ opening' = {} /\ deciding' = [t \in Task |-> None] /\ reviewing' = None /\ known' = {}
    /\ UNCHANGED pending

-----------------------------------------------------------------------------
(* Navigation.                                                             *)

Here == [active |-> active, skl |-> skl]

\* denyPortalAccess.
Deny(sel) ==
    IF active = "home"
    THEN UNCHANGED <<active, history, panel, loads>>
    ELSE /\ active' = "home"
         /\ history' = <<>>
         /\ Render("home", sel, search)

Enter(p, ctx, track, sel) ==
    /\ history' = IF track /\ active # p THEN Append(history, Here) ELSE history
    /\ Len(history') <= MaxHistory
    /\ active' = p
    /\ skl' = IF p = "skl" \/ ctx = "skl" THEN TRUE
              ELSE IF p \in {"home", "sve", "executive", "people", "admin"} THEN FALSE ELSE skl
    /\ Render(p, sel, search)

Go(p, ctx, track, sel) ==
    IF PortalAllowed(p)
    THEN Enter(p, ctx, track, sel)
    ELSE Deny(sel) /\ UNCHANGED skl

\* The workspace the breadcrumb leads back to, without a trace in navHistory.
Breadcrumb ==
    CASE active = "home" -> None
      [] active # "home" /\ skl -> IF active = "skl" THEN None ELSE "skl"
      [] ~skl /\ active \in HrmsActives \ {"hrms"} -> "hrms"
      [] ~skl /\ active \in {"executive", "projects", "governance", "documents"} -> "sve"
      [] OTHER -> None

\* A click on a link.  Links of the SKL context are drawn on its own pages.
Click(p, ctx, track) ==
    /\ session # None
    /\ ctx = "skl" => (skl \/ active = "skl") /\ p \in {"projects", "governance", "documents"}
    /\ ~track => p = Breadcrumb
    /\ Go(p, ctx, track, selected)
    /\ UNCHANGED <<session, selected, search, cache, opening, deciding, reviewing, pending, known>>

\* goHrmsEmployee, goHrmsLifecycle and goHrmsCase, from the pages that list them.
Select(p, x) ==
    /\ active \in HrmsActives
    /\ selected' = [selected EXCEPT ![p] = x]
    /\ cache' = IF p \in Cached THEN [cache EXCEPT ![p] = None] ELSE cache
    /\ Go(p, None, TRUE, selected')
    /\ UNCHANGED <<session, search, opening, deciding, reviewing, pending, known>>

GoBack ==
    /\ session # None
    /\ IF history = <<>>
       THEN active' = (IF skl THEN "skl" ELSE "home") /\ UNCHANGED <<skl, history>>
       ELSE /\ active' = Last(history).active
            /\ skl' = Last(history).skl
            /\ history' = Front(history)
    /\ Render(active', selected, search)
    /\ UNCHANGED <<session, selected, search, cache, opening, deciding, reviewing, pending, known>>

GoHome ==
    /\ session # None
    /\ active' = "home" /\ skl' = FALSE /\ history' = <<>>
    /\ Render("home", selected, search)
    /\ UNCHANGED <<session, selected, search, cache, opening, deciding, reviewing, pending, known>>

ShowAnnouncements ==
    /\ session # None
    /\ Len(history) < MaxHistory
    /\ history' = Append(history, Here)
    /\ active' = "announcements" /\ skl' = FALSE
    /\ Render("announcements", selected, search)
    /\ UNCHANGED <<session, selected, search, cache, opening, deciding, reviewing, pending, known>>

SearchPortal ==
    /\ session # None
    /\ active' = "search" /\ skl' = FALSE
    /\ Render("search", selected, search)
    /\ UNCHANGED <<session, history, selected, search, cache, opening, deciding, reviewing, pending, known>>

\* hrmsDirectoryFilterChanged: the panel is filled anew, in the node it has.
SearchDirectory(term) ==
    /\ active = "hrmsDirectory" /\ panel.state # "tool"
    /\ search' = term
    /\ AsyncRender("hrmsDirectory", term, loads)
    /\ UNCHANGED <<session, active, skl, history, selected, cache, opening, deciding,
                   reviewing, pending, known>>

-----------------------------------------------------------------------------
(* Panels.                                                                 *)

\* Workflow answers with the tasks it has then.  What the other services answer is
\* only told apart by what they were asked.
Reply(l) ==
    /\ loads[l] # None /\ loads[l].page \in TaskPage /\ loads[l].reply = None
    /\ loads' = [loads EXCEPT ![l].reply = pending]
    /\ UNCHANGED <<page, panel, opening, deciding, reviewing, pending, known>>

\* What renderFn draws, and the data it keeps for the tabs.
Draw(p, about, offered) ==
    /\ panel' = [state |-> "ready", page |-> p, about |-> about, offered |-> offered]
    /\ cache' = IF p \in Cached THEN [cache EXCEPT ![p] = about] ELSE cache

Offered(load) == IF load.page \in TaskPage THEN load.reply ELSE {}

Answered(l) == loads[l] # None /\ (loads[l].page \in TaskPage => loads[l].reply # None)

TakeUpAnywhere(load) ==
    /\ panel' = IF load.attached
                THEN [state |-> "ready", page |-> load.page, about |-> load.about,
                      offered |-> Offered(load)]
                ELSE panel
    /\ cache' = IF load.page \in Cached THEN [cache EXCEPT ![load.page] = load.about] ELSE cache

\* The page takes an answer up: not at all if the node it is for is gone.
TakeUp(load) ==
    IF load.attached
    THEN Draw(load.page, load.about, Offered(load))
    ELSE UNCHANGED <<panel, cache>>

Settle(l) ==
    /\ Answered(l)
    /\ TakeUp(loads[l])
    /\ loads' = [loads EXCEPT ![l] = None]
    /\ UNCHANGED <<session, active, skl, history, selected, search, opening, deciding,
                   reviewing, pending, known>>

\* The request fails: an error, or nothing if the node is gone.
Fail(l) ==
    /\ loads[l] # None
    /\ panel' = IF loads[l].attached THEN Blank("error") ELSE panel
    /\ loads' = [loads EXCEPT ![l] = None]
    /\ UNCHANGED <<page, opening, deciding, reviewing, pending, known>>

\* hrmsSwitchProfileTab and hrmsSwitchCaseTab.
SwitchTab ==
    /\ panel.state = "ready" /\ panel.page \in Cached
    /\ cache[panel.page] # None
    /\ Draw(panel.page, cache[panel.page], {})
    /\ UNCHANGED <<session, active, skl, history, selected, search, loads, opening, deciding,
                   reviewing, pending, known>>

\* openEmployeeAccounts, openControlledDocuments, openDecisionTracker: asked for
\* from one screen, the tool replaces whatever the screen has become.
OpenTool(tool) ==
    /\ session # None /\ tool \notin opening
    /\ IF ToolAllowed(tool)
       THEN opening' = opening \cup {tool} /\ UNCHANGED <<active, history, panel, loads>>
       ELSE /\ UNCHANGED opening
            /\ IF tool = "documents" THEN Deny(selected)
               ELSE UNCHANGED <<active, history, panel, loads>>
    /\ UNCHANGED <<session, skl, selected, search, cache, deciding, reviewing, pending, known>>

ToolOpens(tool) ==
    /\ tool \in opening
    /\ opening' = opening \ {tool}
    /\ \/ panel' = [Blank("tool") EXCEPT !.about = tool] /\ loads' = Detached(loads)
       \/ UNCHANGED <<panel, loads>>    \* the request failed
    /\ UNCHANGED <<page, deciding, reviewing, pending, known>>

-----------------------------------------------------------------------------
(* Decisions.                                                              *)

\* decideHrmsTask, to its await.
Decide(t) ==
    /\ panel.state = "ready" /\ t \in panel.offered
    /\ deciding[t] = None
    /\ deciding' = [deciding EXCEPT ![t] = "sent"]
    /\ UNCHANGED <<page, panel, loads, opening, reviewing, pending, known>>

\* Workflow records the decision, or refuses it because the task is not pending.
Serve(t) ==
    /\ deciding[t] = "sent"
    /\ pending' = pending \ {t}
    /\ deciding' = [deciding EXCEPT ![t] = "served"]
    /\ UNCHANGED <<page, panel, loads, opening, reviewing, known>>

\* An answer, or a connection lost before or after Workflow took the decision up.
DecidedKeepsPanel(t) ==
    /\ deciding[t] # None
    /\ deciding' = [deciding EXCEPT ![t] = None]
    /\ known' = IF t \in pending THEN known ELSE known \cup {t}
    /\ UNCHANGED <<page, opening, reviewing, pending, panel, loads>>

Decided(t) ==
    /\ deciding[t] # None
    /\ deciding' = [deciding EXCEPT ![t] = None]
    /\ known' = IF t \in pending THEN known ELSE known \cup {t}
    /\ RenderSection
    /\ UNCHANGED <<page, opening, reviewing, pending>>

\* Others decide it, or it is reassigned, cancelled.
TaskGoes(t) ==
    /\ t \in pending
    /\ pending' = pending \ {t}
    /\ UNCHANGED <<page, panel, loads, opening, deciding, reviewing, known>>

\* recordHrmsProbationDecision: the case is the selected one.
Review ==
    /\ panel.state = "ready" /\ panel.page = "hrmsCase"
    /\ reviewing = None
    /\ reviewing' = [sent |-> selected["hrmsCase"], shown |-> panel.about]
    /\ UNCHANGED <<page, panel, loads, opening, deciding, pending, known>>

Reviewed ==
    /\ reviewing # None
    /\ reviewing' = None
    /\ \/ cache' = [cache EXCEPT !["hrmsCase"] = None] /\ RenderSection
       \/ UNCHANGED <<cache, panel, loads>>    \* refused: an alert
    /\ UNCHANGED <<session, active, skl, history, selected, search, opening, deciding, pending, known>>

Next ==
    \/ SignIn \/ Leave \/ GoBack \/ GoHome \/ ShowAnnouncements \/ SearchPortal
    \/ SwitchTab \/ Review \/ Reviewed
    \/ \E p \in Visited, ctx \in {"skl", None}, track \in BOOLEAN : Click(p, ctx, track)
    \/ \E p \in Selectable : \E x \in Subjects[p] : Select(p, x)
    \/ \E term \in Search : SearchDirectory(term)
    \/ \E l \in 1 .. MaxLoads : Reply(l) \/ Settle(l) \/ Fail(l)
    \/ \E tool \in Tool : OpenTool(tool) \/ ToolOpens(tool)
    \/ \E t \in Task : Decide(t) \/ Serve(t) \/ Decided(t) \/ TaskGoes(t)

Spec == Init /\ [][Next]_vars

-----------------------------------------------------------------------------
(* Properties.                                                             *)

\* A panel that is drawn is the active page's, for the employee, case or
\* lifecycle now selected, whatever older requests are still under way; the data
\* kept for the tabs is of no other subject; and a probation decision, which
\* names the selected case, is about the case the user had on the screen.
ShownIsSelected ==
    /\ panel.state = "ready" =>
         /\ panel.page = active
         /\ active \in Selectable => panel.about = selected[active]
    /\ \A p \in Cached : cache[p] \in {None, selected[p]}
    /\ reviewing # None => reviewing.sent = reviewing.shown

\* The comment over decideHrmsTask: once the user is answered, even by a refusal
\* or a lost connection, no list on the screen offers a task that was decided.
DecidedNotOffered == panel.state = "ready" => panel.offered \cap known = {}

\* Neither Back nor a restored context nor the landing page leads an account to
\* a page its role, unit and permissions do not open.
PageAllowed ==
    session # None => active \in {"announcements", "search"} \/ PortalAllowed(active)
=============================================================================
