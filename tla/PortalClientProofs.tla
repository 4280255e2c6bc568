------------------------- MODULE PortalClientProofs -------------------------
(***************************************************************************)
(* Theorems about the portal's page for every set of accounts, tasks and   *)
(* things to open, and any number of requests under way.                   *)
(***************************************************************************)
EXTENDS PortalClient, SequenceTheorems, TLAPS

Slot == 1 .. MaxLoads
Entry == [active : Page, skl : BOOLEAN]

\* A request under way.
IsLoad(x) == DOMAIN x = {"page", "about", "attached", "reply"}

\* What the page's variables look like.
Shaped ==
    /\ active \in Page /\ skl \in BOOLEAN
    /\ history \in Seq(Entry)
    /\ selected = [p \in Selectable |-> selected[p]]
    /\ cache = [p \in Cached |-> cache[p]]
    /\ loads = [l \in Slot |-> loads[l]]
    /\ \A l \in Slot : loads[l] # None => IsLoad(loads[l])
    /\ deciding = [t \in Task |-> deciding[t]]

\* At the sign-in screen nothing is under way and nothing is left to go back to.
SignedOut ==
    session = None =>
        /\ active = "home" /\ skl = FALSE /\ history = <<>> /\ panel.state = "static"
        /\ \A l \in Slot : loads[l] = None
        /\ opening = {} /\ reviewing = None
        /\ \A t \in Task : deciding[t] = None

Opens(p) == p \in {"announcements", "search"} \/ PortalAllowed(p)

\* Every page Back can reach is one the account may open.
HistoryAllowed ==
    session # None => \A k \in 1 .. Len(history) : Opens(history[k].active)

\* The SKL context, now or behind an entry of the history, was entered by an
\* account that may open SKL's page: Back falls back on that page.
SklAllowed ==
    session # None =>
        ((skl \/ \E k \in 1 .. Len(history) : history[k].skl) => PortalAllowed("skl"))

\* A request whose node is on the screen is for what is selected there, and the
\* list of tasks it was answered with holds none the user was told is over.
Fits(load) ==
    load # None /\ load.attached =>
        /\ panel.state # "tool"
        /\ load.page = active
        /\ active \in Selectable => load.about = selected[active]
        /\ load.page \in TaskPage /\ load.reply # None => load.reply \cap known = {}

LoadsFit == \A l \in Slot : Fits(loads[l])

\* What the user was told is over is over.
KnownOver == known \cap pending = {}

\* The inductive invariant.
IInv ==
    /\ Shaped
    /\ SignedOut
    /\ PageAllowed
    /\ HistoryAllowed
    /\ SklAllowed
    /\ LoadsFit
    /\ KnownOver
    /\ ShownIsSelected
    /\ DecidedNotOffered

-----------------------------------------------------------------------------
\* Rendering.

\* render takes every node of before off the screen.
LEMMA DetachedRows ==
    ASSUME Shaped
    PROVE  /\ Detached(loads) = [l \in Slot |-> Detached(loads)[l]]
           /\ \A l \in Slot : Detached(loads)[l] # None =>
                 IsLoad(Detached(loads)[l]) /\ ~ Detached(loads)[l].attached
<1>1. DOMAIN loads = Slot
  BY DEF Shaped
<1>2. Detached(loads) =
        [l \in Slot |-> IF loads[l] = None THEN None ELSE [loads[l] EXCEPT !.attached = FALSE]]
  BY <1>1 DEF Detached
<1>3. ASSUME NEW l \in Slot, Detached(loads)[l] # None
      PROVE  IsLoad(Detached(loads)[l]) /\ ~ Detached(loads)[l].attached
  <2>1. /\ loads[l] # None
        /\ Detached(loads)[l] = [loads[l] EXCEPT !.attached = FALSE]
    BY <1>2, <1>3
  <2>2. IsLoad(loads[l])
    BY <2>1 DEF Shaped
  <2> QED BY <2>1, <2>2 DEF IsLoad
<1> QED BY <1>2, <1>3

\* A request just sent.
Sent(p, about) == [page |-> p, about |-> about, attached |-> TRUE, reply |-> None]

\* hrmsAsyncRender sends one request more.
LEMMA AsyncRendered ==
    ASSUME NEW p, NEW about, NEW ls, ls = [l \in Slot |-> ls[l]],
           AsyncRender(p, about, ls)
    PROVE  /\ loads' = [l \in Slot |-> loads'[l]]
           /\ \A l \in Slot : loads'[l] = ls[l] \/ loads'[l] = Sent(p, about)
           /\ panel' = Blank("loading")
<1>1. PICK l \in DOMAIN ls : loads' = [ls EXCEPT ![l] = Sent(p, about)]
  BY DEF AsyncRender, Sent
<1>2. DOMAIN ls = Slot
  OBVIOUS
<1>3. panel' = Blank("loading")
  BY DEF AsyncRender
<1>4. /\ loads' = [k \in Slot |-> loads'[k]]
      /\ \A k \in Slot : loads'[k] = ls[k] \/ loads'[k] = Sent(p, about)
  BY <1>1, <1>2
<1> QED BY <1>3, <1>4

LEMMA SentIsLoad ==
    ASSUME NEW p, NEW about
    PROVE  /\ IsLoad(Sent(p, about))
           /\ Sent(p, about).page = p /\ Sent(p, about).about = about
           /\ Sent(p, about).reply = None
BY DEF IsLoad, Sent

\* After render the only node on the screen that waits for an answer is the
\* one just asked for.
LEMMA Rendered ==
    ASSUME Shaped, NEW p, NEW sel, NEW term, Render(p, sel, term)
    PROVE  /\ loads' = [l \in Slot |-> loads'[l]]
           /\ panel'.state \in {"static", "loading"}
           /\ \A l \in Slot : loads'[l] # None =>
                 /\ IsLoad(loads'[l])
                 /\ loads'[l].attached =>
                       /\ loads'[l].page = p
                       /\ loads'[l].about = About(p, sel, term)
                       /\ loads'[l].reply = None
<1>1. PICK ls : ls = Detached(loads)
  OBVIOUS
<1>2. /\ ls = [l \in Slot |-> ls[l]]
      /\ \A l \in Slot : ls[l] # None => IsLoad(ls[l]) /\ ~ ls[l].attached
  BY <1>1, DetachedRows
<1>3. CASE AsyncRender(p, About(p, sel, term), ls)
  <2>1. /\ loads' = [l \in Slot |-> loads'[l]]
        /\ \A l \in Slot : loads'[l] = ls[l] \/ loads'[l] = Sent(p, About(p, sel, term))
        /\ panel' = Blank("loading")
    BY <1>2, <1>3, AsyncRendered
  <2> QED BY <1>2, <2>1, SentIsLoad DEF Blank
<1>4. CASE loads' = ls /\ panel' = Blank("static")
  BY <1>2, <1>4 DEF Blank
<1> QED BY <1>1, <1>3, <1>4 DEF Render

\* The rows a render leaves fit what is now on the screen.
LEMMA RenderFits ==
    ASSUME Shaped, NEW p, NEW sel, Render(p, sel, search),
           active' = p, selected' = sel
    PROVE  /\ LoadsFit'
           /\ loads' = [l \in Slot |-> loads'[l]]
           /\ \A l \in Slot : loads'[l] # None => IsLoad(loads'[l])
           /\ panel'.state \in {"static", "loading"}
<1>1. /\ loads' = [l \in Slot |-> loads'[l]]
      /\ panel'.state \in {"static", "loading"}
      /\ \A l \in Slot : loads'[l] # None =>
            /\ IsLoad(loads'[l])
            /\ loads'[l].attached =>
                  /\ loads'[l].page = p
                  /\ loads'[l].about = About(p, sel, search)
                  /\ loads'[l].reply = None
  BY Rendered
<1>2. p \in Selectable => About(p, sel, search) = sel[p]
  BY DEF About
<1>3. LoadsFit'
  <2> SUFFICES ASSUME NEW l \in Slot PROVE Fits(loads[l])'
    BY DEF LoadsFit
  <2> QED BY <1>1, <1>2 DEF Fits
<1> QED BY <1>1, <1>3

-----------------------------------------------------------------------------
\* Who may open what.

\* Everybody may see the landing page.
LEMMA HomeAllowed == Opens("home")
BY DEF Opens, PortalAllowed, Policy, Page

\* While the account stays the same, so does what it may open.
LEMMA OpensKept ==
    ASSUME session' = session, NEW p
    PROVE  Opens(p)' = Opens(p) /\ PortalAllowed(p)' = PortalAllowed(p)
BY DEF Opens, PortalAllowed, Policy

\* Every step that draws the page anew, or another.
LEMMA RenderKeeps ==
    ASSUME IInv, session # None, session' = session, search' = search,
           KnownOver', deciding' = [t \in Task |-> deciding'[t]],
           reviewing' # None => reviewing'.sent = reviewing'.shown,
           NEW p \in Page, Opens(p), active' = p, skl' \in BOOLEAN,
           history' \in Seq(Entry),
           \A k \in 1 .. Len(history') : Opens(history'[k].active),
           (skl' \/ \E k \in 1 .. Len(history') : history'[k].skl) => PortalAllowed("skl"),
           NEW sel, selected' = sel, sel = [q \in Selectable |-> sel[q]],
           cache' = [q \in Cached |-> cache'[q]],
           \A q \in Cached : cache'[q] \in {None, sel[q]},
           Render(p, sel, search)
    PROVE  IInv'
<1>1. Shaped
  BY DEF IInv
<1>2. /\ LoadsFit'
      /\ loads' = [l \in Slot |-> loads'[l]]
      /\ \A l \in Slot : loads'[l] # None => IsLoad(loads'[l])
      /\ panel'.state \in {"static", "loading"}
  BY <1>1, RenderFits
<1>3. Shaped'
  BY <1>2 DEF Shaped
<1>4. SignedOut'
  BY DEF SignedOut
<1>5. PageAllowed'
  BY OpensKept DEF PageAllowed, Opens
<1>6. HistoryAllowed'
  BY OpensKept DEF HistoryAllowed
<1>7. ShownIsSelected'
  BY <1>2 DEF ShownIsSelected
<1>8. DecidedNotOffered'
  BY <1>2 DEF DecidedNotOffered
<1>9. SklAllowed'
  BY OpensKept DEF SklAllowed
<1> QED BY <1>2, <1>3, <1>4, <1>5, <1>6, <1>7, <1>8, <1>9 DEF IInv

\* Navigation: nothing else happens.
LEMMA NavigationKeeps ==
    ASSUME IInv, session # None, session' = session,
           UNCHANGED <<opening, deciding, reviewing, pending, known>>,
           search' = search,
           NEW p \in Page, Opens(p), active' = p, skl' \in BOOLEAN,
           history' \in Seq(Entry),
           \A k \in 1 .. Len(history') : Opens(history'[k].active),
           (skl' \/ \E k \in 1 .. Len(history') : history'[k].skl) => PortalAllowed("skl"),
           NEW sel, selected' = sel, sel = [q \in Selectable |-> sel[q]],
           cache' = [q \in Cached |-> cache'[q]],
           \A q \in Cached : cache'[q] \in {None, sel[q]},
           Render(p, sel, search)
    PROVE  IInv'
<1>1. KnownOver'
  BY DEF IInv, KnownOver
<1>2. deciding' = [t \in Task |-> deciding'[t]]
  BY DEF IInv, Shaped
<1>3. reviewing' # None => reviewing'.sent = reviewing'.shown
  BY DEF IInv, ShownIsSelected
<1> QED BY <1>1, <1>2, <1>3, RenderKeeps

\* A link or a selection that portalAllowed lets through.
LEMMA EnterKeeps ==
    ASSUME IInv, session # None, session' = session,
           UNCHANGED <<opening, deciding, reviewing, pending, known>>,
           search' = search,
           NEW p \in Page, PortalAllowed(p), NEW track \in BOOLEAN,
           NEW ctx, ctx = "skl" => skl \/ active = "skl",
           NEW sel, selected' = sel, sel = [q \in Selectable |-> sel[q]],
           cache' = [q \in Cached |-> cache'[q]],
           \A q \in Cached : cache'[q] \in {None, sel[q]},
           Enter(p, ctx, track, sel)
    PROVE  IInv'
<1>1. /\ history \in Seq(Entry) /\ active \in Page /\ skl \in BOOLEAN
      /\ \A k \in 1 .. Len(history) : Opens(history[k].active)
      /\ Opens(active)
  BY DEF IInv, Shaped, HistoryAllowed, PageAllowed, Opens
<1>2. /\ history' = IF track /\ active # p THEN Append(history, Here) ELSE history
      /\ active' = p /\ skl' \in BOOLEAN
      /\ Render(p, sel, search)
  BY <1>1 DEF Enter
<1>3. Here \in Entry /\ Here.active = active
  BY <1>1 DEF Here, Entry
<1>4. /\ history' \in Seq(Entry)
      /\ \A k \in 1 .. Len(history') : Opens(history'[k].active)
  <2>1. CASE history' = Append(history, Here)
    BY <1>1, <1>3, <2>1, AppendProperties
  <2>2. CASE history' = history
    BY <1>1, <2>2
  <2> QED BY <1>2, <2>1, <2>2
<1>5. Opens(p)
  BY DEF Opens
<1>6. (skl' \/ \E k \in 1 .. Len(history') : history'[k].skl) => PortalAllowed("skl")
  <2>1. (skl \/ \E k \in 1 .. Len(history) : history[k].skl) => PortalAllowed("skl")
    BY DEF IInv, SklAllowed
  <2>2. active = "skl" => PortalAllowed("skl")
    BY <1>1 DEF Opens
  <2>3. skl' => skl \/ p = "skl" \/ active = "skl"
    BY <1>1 DEF Enter
  <2>4. ASSUME NEW k \in 1 .. Len(history'), history'[k].skl
        PROVE  skl \/ \E j \in 1 .. Len(history) : history[j].skl
    <3>1. CASE history' = Append(history, Here)
      BY <1>1, <1>3, <2>4, <3>1, AppendProperties DEF Here
    <3>2. CASE history' = history
      BY <2>4, <3>2
    <3> QED BY <1>2, <3>1, <3>2
  <2> QED BY <2>1, <2>2, <2>3, <2>4
<1> QED BY <1>2, <1>4, <1>5, <1>6, NavigationKeeps

\* Being sent home.
LEMMA DenyKeeps ==
    ASSUME IInv, session # None, session' = session, skl' = skl,
           UNCHANGED <<opening, deciding, reviewing, pending, known>>,
           search' = search, active # "home",
           NEW sel, selected' = sel, sel = [q \in Selectable |-> sel[q]],
           cache' = [q \in Cached |-> cache'[q]],
           \A q \in Cached : cache'[q] \in {None, sel[q]},
           Deny(sel)
    PROVE  IInv'
<1>1. /\ active' = "home" /\ history' = <<>> /\ Render("home", sel, search)
  BY DEF Deny
<1>2. /\ "home" \in Page /\ skl' \in BOOLEAN
  BY DEF Page, IInv, Shaped
<1>3. history' \in Seq(Entry) /\ 1 .. Len(history') = {}
  BY <1>1, EmptySeq
<1>4. (skl' \/ \E k \in 1 .. Len(history') : history'[k].skl) => PortalAllowed("skl")
  BY <1>3 DEF IInv, SklAllowed
<1> QED BY <1>1, <1>2, <1>3, <1>4, HomeAllowed, NavigationKeeps

\* Steps that leave the account where it is.
LEMMA StayKeeps ==
    ASSUME IInv, UNCHANGED <<session, active, skl, history, selected>>,
           Shaped', SignedOut', LoadsFit', KnownOver', ShownIsSelected',
           DecidedNotOffered'
    PROVE  IInv'
<1>1. PageAllowed'
  BY OpensKept DEF IInv, PageAllowed, Opens
<1>2. HistoryAllowed'
  BY OpensKept DEF IInv, HistoryAllowed
<1>3. SklAllowed'
  BY OpensKept DEF IInv, SklAllowed
<1> QED BY <1>1, <1>2, <1>3 DEF IInv

\* Steps in which nothing the properties speak of changes.
LEMMA QuietKeeps ==
    ASSUME IInv, UNCHANGED <<page, panel, loads>>,
           Shaped', SignedOut', KnownOver', known' = known,
           reviewing' # None => reviewing'.sent = reviewing'.shown
    PROVE  IInv'
<1>1. UNCHANGED <<session, active, skl, history, selected, cache>>
  BY DEF page
<1>2. LoadsFit'
  BY <1>1 DEF IInv, LoadsFit, Fits
<1>3. ShownIsSelected'
  BY <1>1 DEF IInv, ShownIsSelected
<1>4. DecidedNotOffered'
  BY DEF IInv, DecidedNotOffered
<1> QED BY <1>1, <1>2, <1>3, <1>4, StayKeeps

-----------------------------------------------------------------------------
\* The steps.

LEMMA InitInvariant == Init => IInv
<1> SUFFICES ASSUME Init PROVE IInv
  OBVIOUS
<1>1. history \in Seq(Entry) /\ "home" \in Page
  BY EmptySeq DEF Init, Page
<1>2. Shaped
  <2>1. /\ selected = [p \in Selectable |-> selected[p]]
        /\ cache = [p \in Cached |-> cache[p]]
        /\ loads = [l \in Slot |-> loads[l]] /\ \A l \in Slot : loads[l] = None
        /\ deciding = [t \in Task |-> deciding[t]]
        /\ active = "home" /\ skl = FALSE
    BY DEF Init, NothingSelected, Slot
  <2> QED BY <1>1, <2>1 DEF Shaped
<1>3. SignedOut /\ PageAllowed /\ HistoryAllowed /\ SklAllowed
  BY DEF Init, SignedOut, PageAllowed, HistoryAllowed, SklAllowed, Blank, Slot
<1>4. LoadsFit /\ KnownOver
  BY DEF Init, LoadsFit, Fits, KnownOver, Slot
<1>5. ShownIsSelected /\ DecidedNotOffered
  BY DEF Init, ShownIsSelected, DecidedNotOffered, Blank
<1> QED BY <1>2, <1>3, <1>4, <1>5 DEF IInv

\* The landing page of whoever signs in is one he may open.
LEMMA SignInKeeps ==
    ASSUME IInv, SignIn
    PROVE  IInv'
<1>1. /\ session = None
      /\ active' \in {"home"} \cup
           {p \in {"skl"} : session'.role = "SKL User / Legal Reviewer" /\ session'.unit = "SKL"}
      /\ UNCHANGED <<skl, history, selected, search, cache, panel, loads, opening, deciding,
                     reviewing, pending, known>>
  BY DEF SignIn
<1>2. /\ history = <<>> /\ skl = FALSE /\ panel.state = "static" /\ \A l \in Slot : loads[l] = None
      /\ opening = {} /\ reviewing = None /\ \A t \in Task : deciding[t] = None
  BY <1>1 DEF IInv, SignedOut
<1>3. Shaped'
  BY <1>1 DEF IInv, Shaped, Page
<1>4. PageAllowed'
  <2>1. CASE active' = "home"
    BY <2>1 DEF PageAllowed, PortalAllowed, Policy, Page
  <2>2. CASE active' = "skl" /\ session'.role = "SKL User / Legal Reviewer"
    BY <2>2 DEF PageAllowed, PortalAllowed, Policy, Page
  <2> QED BY <1>1, <2>1, <2>2
<1>5. HistoryAllowed' /\ SklAllowed'
  <2>0. history' = <<>> /\ skl' = FALSE
    BY <1>1, <1>2
  <2>1. 1 .. Len(history') = {}
    BY <2>0, EmptySeq
  <2> QED BY <2>0, <2>1 DEF HistoryAllowed, SklAllowed
<1>6. LoadsFit' /\ KnownOver' /\ ShownIsSelected' /\ DecidedNotOffered'
  BY <1>1, <1>2 DEF IInv, LoadsFit, Fits, KnownOver, ShownIsSelected, DecidedNotOffered
<1>7. SignedOut'
  BY PortalClientAssumption DEF SignIn, SignedOut
<1> QED BY <1>3, <1>4, <1>5, <1>6, <1>7 DEF IInv

\* Leaving the page loses all it held.
LEMMA LeaveKeeps ==
    ASSUME IInv, Leave
    PROVE  IInv'
<1>1. /\ session' = None /\ active' = "home" /\ skl' = FALSE /\ history' = <<>>
      /\ selected' = NothingSelected /\ cache' = [p \in Cached |-> None]
      /\ panel' = Blank("static") /\ loads' = [l \in Slot |-> None]
      /\ opening' = {} /\ deciding' = [t \in Task |-> None] /\ reviewing' = None
      /\ known' = {} /\ pending' = pending
  BY DEF Leave, Slot
<1>2. Shaped'
  <2>1. /\ selected' = [p \in Selectable |-> selected'[p]]
        /\ cache' = [p \in Cached |-> cache'[p]]
        /\ loads' = [l \in Slot |-> loads'[l]] /\ \A l \in Slot : loads'[l] = None
        /\ deciding' = [t \in Task |-> deciding'[t]]
        /\ active' \in Page /\ skl' \in BOOLEAN
    BY <1>1 DEF NothingSelected, Page
  <2>2. history' \in Seq(Entry)
    BY <1>1, EmptySeq
  <2> QED BY <2>1, <2>2 DEF Shaped
<1>3. SignedOut'
  BY <1>1 DEF SignedOut, Blank
<1>4. PageAllowed' /\ HistoryAllowed' /\ SklAllowed'
  BY <1>1 DEF PageAllowed, HistoryAllowed, SklAllowed
<1>5. LoadsFit' /\ KnownOver' /\ DecidedNotOffered'
  BY <1>1 DEF LoadsFit, Fits, KnownOver, DecidedNotOffered
<1>6. ShownIsSelected'
  BY <1>1 DEF ShownIsSelected, Blank
<1> QED BY <1>2, <1>3, <1>4, <1>5, <1>6 DEF IInv

\* What a page is opened for stays what it is when the page is drawn anew.
LEMMA SelectionShaped ==
    ASSUME IInv
    PROVE  /\ selected = [q \in Selectable |-> selected[q]]
           /\ cache = [q \in Cached |-> cache[q]]
           /\ \A q \in Cached : cache[q] \in {None, selected[q]}
           /\ active \in Page /\ skl \in BOOLEAN /\ history \in Seq(Entry)
BY DEF IInv, Shaped, ShownIsSelected

LEMMA ClickKeeps ==
    ASSUME IInv, NEW p \in Visited, NEW ctx, NEW track \in BOOLEAN, Click(p, ctx, track)
    PROVE  IInv'
<1>1. /\ session # None /\ session' = session
      /\ UNCHANGED <<opening, deciding, reviewing, pending, known>>
      /\ selected' = selected /\ search' = search /\ cache' = cache
      /\ IF PortalAllowed(p) THEN Enter(p, ctx, track, selected)
                             ELSE Deny(selected) /\ skl' = skl
  BY DEF Click, Go
<1>2. p \in Page /\ (ctx = "skl" => skl \/ active = "skl")
  BY PortalClientAssumption DEF Click
<1>3. CASE PortalAllowed(p)
  BY <1>1, <1>2, <1>3, SelectionShaped, EnterKeeps
<1>4. CASE ~ PortalAllowed(p) /\ active # "home"
  BY <1>1, <1>4, SelectionShaped, DenyKeeps
<1>5. CASE ~ PortalAllowed(p) /\ active = "home"
  <2>1. UNCHANGED <<page, panel, loads>>
    BY <1>1, <1>5 DEF Deny, page
  <2>2. Shaped' /\ SignedOut' /\ KnownOver'
    BY <1>1, <2>1 DEF IInv, Shaped, SignedOut, KnownOver, page
  <2> QED BY <1>1, <2>1, <2>2, QuietKeeps DEF IInv, ShownIsSelected, DecidedNotOffered
<1> QED BY <1>3, <1>4, <1>5

\* goHrmsEmployee and its like: the data kept for the tabs goes with the subject
\* it was of.
LEMMA SelectKeeps ==
    ASSUME IInv, NEW p \in Selectable, NEW x, Select(p, x)
    PROVE  IInv'
<1>1. /\ active \in HrmsActives /\ session' = session
      /\ UNCHANGED <<opening, deciding, reviewing, pending, known>>
      /\ selected' = [selected EXCEPT ![p] = x] /\ search' = search
      /\ cache' = IF p \in Cached THEN [cache EXCEPT ![p] = None] ELSE cache
  BY DEF Select
<1>2. PICK sel : sel = [selected EXCEPT ![p] = x]
  OBVIOUS
<1>3. IF PortalAllowed(p) THEN Enter(p, None, TRUE, sel) ELSE Deny(sel) /\ skl' = skl
  BY <1>1, <1>2 DEF Select, Go
<1>4. session # None /\ active # "home" /\ p \in Page
  BY <1>1 DEF IInv, SignedOut, HrmsActives, Selectable, Page
<1>5. /\ sel = [q \in Selectable |-> sel[q]]
      /\ cache' = [q \in Cached |-> cache'[q]]
      /\ \A q \in Cached : cache'[q] \in {None, sel[q]}
  <2>1. Cached \subseteq Selectable
    BY DEF Cached, Selectable
  <2> QED BY <1>1, <1>2, <2>1, SelectionShaped
<1>6. CASE PortalAllowed(p)
  BY <1>1, <1>2, <1>3, <1>4, <1>5, <1>6, EnterKeeps, PortalClientAssumption
<1>7. CASE ~ PortalAllowed(p)
  BY <1>1, <1>2, <1>3, <1>4, <1>5, <1>7, DenyKeeps
<1> QED BY <1>6, <1>7

\* The last entry of the history, and the entries before it.
LEMMA LastOf ==
    ASSUME NEW h \in Seq(Entry), h # <<>>
    PROVE  Last(h) \in Entry /\ \E k \in 1 .. Len(h) : Last(h) = h[k]
<1>1. Len(h) \in 1 .. Len(h)
  BY EmptySeq, LenProperties
<1>2. h[Len(h)] \in Entry
  BY <1>1, ElementOfSeq
<1> QED BY <1>1, <1>2 DEF Last

LEMMA FrontOf ==
    ASSUME NEW h \in Seq(Entry), h # <<>>
    PROVE  /\ Front(h) \in Seq(Entry)
           /\ \A k \in 1 .. Len(Front(h)) : k \in 1 .. Len(h) /\ Front(h)[k] = h[k]
<1>1. Len(h) \in Nat /\ Len(h) >= 1
  BY EmptySeq, LenProperties
<1>2. Front(h) = SubSeq(h, 1, Len(h) - 1)
  BY DEF Front
<1>3. \A k \in 1 .. Len(h) - 1 : h[k] \in Entry
  BY <1>1, ElementOfSeq
<1> QED BY <1>1, <1>2, <1>3, SubSeqProperties

\* Back, the way home, announcements and the search.
LEMMA GoBackKeeps ==
    ASSUME IInv, GoBack
    PROVE  IInv'
<1>1. /\ session # None /\ session' = session
      /\ UNCHANGED <<opening, deciding, reviewing, pending, known>>
      /\ selected' = selected /\ search' = search /\ cache' = cache
      /\ Render(active', selected, search)
  BY DEF GoBack
<1>2. /\ active \in Page /\ skl \in BOOLEAN /\ history \in Seq(Entry)
      /\ \A k \in 1 .. Len(history) : Opens(history[k].active)
      /\ (skl \/ \E k \in 1 .. Len(history) : history[k].skl) => PortalAllowed("skl")
  BY <1>1 DEF IInv, Shaped, HistoryAllowed, SklAllowed
<1>3. CASE history = <<>>
  <2>1. /\ active' = (IF skl THEN "skl" ELSE "home") /\ UNCHANGED <<skl, history>>
    BY <1>3 DEF GoBack
  <2>2. active' \in Page /\ Opens(active')
    BY <1>2, <2>1, HomeAllowed DEF Page, Opens
  <2>3. PICK p \in Page : p = active' /\ Opens(p)
    BY <2>2
  <2>4. Render(p, selected, search)
    BY <1>1, <2>3
  <2> QED BY <1>1, <1>2, <2>1, <2>3, <2>4, SelectionShaped, NavigationKeeps
<1>4. CASE history # <<>>
  <2>1. PICK last : last = Last(history)
    OBVIOUS
  <2>2. active' = last.active /\ skl' = last.skl /\ history' = Front(history)
    BY <1>4, <2>1 DEF GoBack
  <2>3. /\ last \in Entry /\ Opens(last.active)
        /\ last.skl => PortalAllowed("skl")
    BY <1>2, <1>4, <2>1, LastOf
  <2>4. /\ history' \in Seq(Entry)
        /\ \A k \in 1 .. Len(history') :
              k \in 1 .. Len(history) /\ history'[k] = history[k]
    BY <1>2, <1>4, <2>2, FrontOf
  <2>5. PICK p \in Page : p = active' /\ Opens(p)
    BY <2>2, <2>3 DEF Entry
  <2>6. Render(p, selected, search) /\ skl' \in BOOLEAN
    BY <1>1, <2>2, <2>3, <2>5 DEF Entry
  <2>7. /\ \A k \in 1 .. Len(history') : Opens(history'[k].active)
        /\ (skl' \/ \E k \in 1 .. Len(history') : history'[k].skl) => PortalAllowed("skl")
    BY <1>2, <2>2, <2>3, <2>4
  <2> QED BY <1>1, <2>4, <2>5, <2>6, <2>7, SelectionShaped, NavigationKeeps
<1> QED BY <1>3, <1>4

LEMMA WaysOutKeep ==
    ASSUME IInv, GoHome \/ ShowAnnouncements \/ SearchPortal
    PROVE  IInv'
<1>1. /\ session # None /\ session' = session
      /\ UNCHANGED <<opening, deciding, reviewing, pending, known>>
      /\ selected' = selected /\ search' = search /\ cache' = cache
      /\ skl' = FALSE
  BY DEF GoHome, ShowAnnouncements, SearchPortal
<1>2. /\ history \in Seq(Entry)
      /\ \A k \in 1 .. Len(history) : Opens(history[k].active)
      /\ (skl \/ \E k \in 1 .. Len(history) : history[k].skl) => PortalAllowed("skl")
      /\ Opens(active) /\ active \in Page /\ skl \in BOOLEAN
  BY <1>1 DEF IInv, Shaped, HistoryAllowed, SklAllowed, PageAllowed, Opens
<1>3. /\ history' \in Seq(Entry)
      /\ \A k \in 1 .. Len(history') : Opens(history'[k].active)
      /\ (\E k \in 1 .. Len(history') : history'[k].skl) => PortalAllowed("skl")
  <2>1. CASE history' = <<>>
    <3>1. history' \in Seq(Entry) /\ 1 .. Len(history') = {}
      BY <2>1, EmptySeq
    <3> QED BY <3>1
  <2>2. CASE history' = history
    BY <1>2, <2>2
  <2>3. CASE history' = Append(history, Here)
    <3>1. Here \in Entry /\ Here.active = active /\ Here.skl = skl
      BY <1>2 DEF Here, Entry
    <3> QED BY <1>2, <2>3, <3>1, AppendProperties
  <2> QED BY <2>1, <2>2, <2>3 DEF GoHome, ShowAnnouncements, SearchPortal
<1>4. PICK p \in Page : /\ p = active' /\ Opens(p) /\ Render(p, selected, search)
  BY HomeAllowed DEF GoHome, ShowAnnouncements, SearchPortal, Page, Opens
<1> QED BY <1>1, <1>3, <1>4, SelectionShaped, NavigationKeeps

-----------------------------------------------------------------------------
\* Panels.

\* While anything is under way, or a panel is drawn, somebody is signed in.
LEMMA SomebodyThere ==
    ASSUME IInv,
           \/ \E l \in Slot : loads[l] # None
           \/ \E t \in Task : deciding[t] # None
           \/ opening # {} \/ reviewing # None
           \/ panel.state # "static" \/ active # "home"
    PROVE  session # None
BY DEF IInv, SignedOut

LEMMA SearchDirectoryKeeps ==
    ASSUME IInv, NEW term, SearchDirectory(term)
    PROVE  IInv'
<1>1. /\ active = "hrmsDirectory" /\ panel.state # "tool"
      /\ AsyncRender("hrmsDirectory", term, loads)
      /\ UNCHANGED <<session, active, skl, history, selected, cache, opening, deciding,
                     reviewing, pending, known>>
  BY DEF SearchDirectory
<1>2. session # None
  BY <1>1, SomebodyThere
<1>3. PICK sent : sent = Sent("hrmsDirectory", term)
  OBVIOUS
<1>4. /\ IsLoad(sent) /\ sent.page = "hrmsDirectory"
  BY <1>3, SentIsLoad
<1>5. /\ loads' = [l \in Slot |-> loads'[l]]
      /\ \A l \in Slot : loads'[l] = loads[l] \/ loads'[l] = sent
      /\ panel'.state = "loading"
  BY <1>1, <1>3, AsyncRendered DEF IInv, Shaped, Blank
<1>6. Shaped'
  BY <1>1, <1>4, <1>5 DEF IInv, Shaped
<1>7. LoadsFit'
  <2> SUFFICES ASSUME NEW l \in Slot PROVE Fits(loads[l])'
    BY DEF LoadsFit
  <2>1. CASE loads'[l] = loads[l]
    BY <1>1, <1>5, <2>1 DEF IInv, LoadsFit, Fits
  <2>2. CASE loads'[l] = sent
    BY <1>1, <1>4, <1>5, <2>2 DEF Fits, Selectable, TaskPage
  <2> QED BY <1>5, <2>1, <2>2
<1>8. SignedOut' /\ KnownOver' /\ ShownIsSelected' /\ DecidedNotOffered'
  BY <1>1, <1>2, <1>5 DEF IInv, SignedOut, KnownOver, ShownIsSelected, DecidedNotOffered
<1> QED BY <1>1, <1>6, <1>7, <1>8, StayKeeps

\* Workflow's answer holds only tasks that are pending.
LEMMA ReplyKeeps ==
    ASSUME IInv, NEW l \in Slot, Reply(l)
    PROVE  IInv'
<1>1. /\ loads[l] # None
      /\ loads' = [loads EXCEPT ![l].reply = pending]
      /\ UNCHANGED <<page, panel, opening, deciding, reviewing, pending, known>>
      /\ UNCHANGED <<session, active, skl, history, selected, search, cache>>
  BY DEF Reply, page
<1>2. session # None
  BY <1>1, SomebodyThere
<1>3. PICK row : row = [loads[l] EXCEPT !.reply = pending]
  OBVIOUS
<1>4. /\ loads' = [k \in Slot |-> loads'[k]]
      /\ \A k \in Slot : loads'[k] = IF k = l THEN row ELSE loads[k]
  BY <1>1, <1>3 DEF IInv, Shaped
<1>5. /\ IsLoad(loads[l]) /\ IsLoad(row)
      /\ row.page = loads[l].page /\ row.about = loads[l].about
      /\ row.attached = loads[l].attached /\ row.reply = pending
  BY <1>1, <1>3 DEF IInv, Shaped, IsLoad
<1>6. Shaped'
  BY <1>1, <1>4, <1>5 DEF IInv, Shaped
<1>7. LoadsFit'
  <2> SUFFICES ASSUME NEW k \in Slot PROVE Fits(loads[k])'
    BY DEF LoadsFit
  <2>1. Fits(loads[k]) /\ Fits(loads[l]) /\ known \cap pending = {}
    BY DEF IInv, LoadsFit, KnownOver
  <2>2. CASE k = l
    BY <1>1, <1>4, <1>5, <2>1, <2>2 DEF Fits
  <2>3. CASE k # l
    BY <1>1, <1>4, <2>1, <2>3 DEF Fits
  <2> QED BY <2>2, <2>3
<1>8. SignedOut' /\ KnownOver' /\ ShownIsSelected' /\ DecidedNotOffered'
  BY <1>1, <1>2 DEF IInv, SignedOut, KnownOver, ShownIsSelected, DecidedNotOffered
<1> QED BY <1>1, <1>6, <1>7, <1>8, StayKeeps

\* A request that is over leaves the others as they fit.
LEMMA OverKeepsFit ==
    ASSUME IInv, NEW l \in Slot, loads' = [loads EXCEPT ![l] = None],
           UNCHANGED <<active, selected, known, deciding>>,
           panel'.state = "tool" => panel.state = "tool",
           active' \in Page, skl' \in BOOLEAN, history' = history,
           cache' = [p \in Cached |-> cache'[p]]
    PROVE  Shaped' /\ LoadsFit'
<1>1. /\ loads' = [k \in Slot |-> loads'[k]]
      /\ \A k \in Slot : loads'[k] = IF k = l THEN None ELSE loads[k]
  BY DEF IInv, Shaped
<1>2. Shaped'
  BY <1>1 DEF IInv, Shaped
<1>3. LoadsFit'
  <2> SUFFICES ASSUME NEW k \in Slot PROVE Fits(loads[k])'
    BY DEF LoadsFit
  <2>1. Fits(loads[k])
    BY DEF IInv, LoadsFit
  <2> QED BY <1>1, <2>1 DEF Fits
<1> QED BY <1>2, <1>3

\* An answer is drawn only in the node it is for, which is the active page's, for
\* what is selected there.
LEMMA SettleKeeps ==
    ASSUME IInv, NEW l \in Slot, Settle(l)
    PROVE  IInv'
<1>1. /\ loads[l] # None /\ loads' = [loads EXCEPT ![l] = None]
      /\ loads[l].page \in TaskPage => loads[l].reply # None
      /\ UNCHANGED <<session, active, skl, history, selected, search, opening, deciding,
                     reviewing, pending, known>>
  BY DEF Settle, Answered
<1>2. session # None
  BY <1>1, SomebodyThere
<1>3. Cached \subseteq Selectable /\ active \in Page /\ skl \in BOOLEAN
  BY DEF IInv, Shaped, Cached, Selectable
<1>4. /\ cache' = [p \in Cached |-> cache'[p]]
      /\ panel'.state = "tool" => panel.state = "tool"
      /\ ShownIsSelected' /\ DecidedNotOffered'
  <2>1. CASE ~ loads[l].attached
    <3>1. UNCHANGED <<panel, cache>>
      BY <2>1 DEF Settle, TakeUp
    <3> QED BY <1>1, <3>1 DEF IInv, Shaped, ShownIsSelected, DecidedNotOffered
  <2>2. CASE loads[l].attached
    <3>1. PICK load : load = loads[l]
      OBVIOUS
    <3>2. /\ load.page = active
          /\ active \in Selectable => load.about = selected[active]
          /\ load.page \in TaskPage => load.reply \cap known = {}
      BY <1>1, <2>2, <3>1 DEF IInv, LoadsFit, Fits
    <3>3. /\ panel' = [state |-> "ready", page |-> load.page, about |-> load.about,
                       offered |-> Offered(load)]
          /\ cache' = IF load.page \in Cached
                      THEN [cache EXCEPT ![load.page] = load.about] ELSE cache
      BY <2>2, <3>1 DEF Settle, TakeUp, Draw
    <3>4. Offered(load) \cap known = {}
      BY <3>2 DEF Offered
    <3>5. /\ cache' = [p \in Cached |-> cache'[p]]
          /\ \A p \in Cached : cache'[p] \in {None, selected[p]}
      BY <1>3, <3>2, <3>3 DEF IInv, Shaped, ShownIsSelected
    <3>6. ShownIsSelected'
      BY <1>1, <3>2, <3>3, <3>5 DEF IInv, ShownIsSelected
    <3>7. DecidedNotOffered'
      BY <1>1, <3>3, <3>4 DEF DecidedNotOffered
    <3> QED BY <3>3, <3>5, <3>6, <3>7
  <2> QED BY <2>1, <2>2
<1>5. Shaped' /\ LoadsFit'
  BY <1>1, <1>3, <1>4, OverKeepsFit
<1>6. SignedOut' /\ KnownOver'
  BY <1>1, <1>2 DEF IInv, SignedOut, KnownOver
<1> QED BY <1>1, <1>4, <1>5, <1>6, StayKeeps

LEMMA FailKeeps ==
    ASSUME IInv, NEW l \in Slot, Fail(l)
    PROVE  IInv'
<1>1. /\ loads[l] # None /\ loads' = [loads EXCEPT ![l] = None]
      /\ panel' = panel \/ panel'.state = "error"
      /\ UNCHANGED <<session, active, skl, history, selected, search, cache, opening,
                     deciding, reviewing, pending, known>>
  BY DEF Fail, page, Blank
<1>2. session # None
  BY <1>1, SomebodyThere
<1>3. Shaped' /\ LoadsFit'
  <2>1. /\ active \in Page /\ skl \in BOOLEAN /\ cache = [p \in Cached |-> cache[p]]
    BY DEF IInv, Shaped
  <2> QED BY <1>1, <2>1, OverKeepsFit
<1>4. SignedOut' /\ KnownOver' /\ ShownIsSelected' /\ DecidedNotOffered'
  BY <1>1, <1>2 DEF IInv, SignedOut, KnownOver, ShownIsSelected, DecidedNotOffered
<1> QED BY <1>1, <1>3, <1>4, StayKeeps

\* A tab is drawn from data of the subject that is selected.
LEMMA SwitchTabKeeps ==
    ASSUME IInv, SwitchTab
    PROVE  IInv'
<1>1. /\ panel.state = "ready" /\ panel.page \in Cached /\ cache[panel.page] # None
      /\ panel' = [state |-> "ready", page |-> panel.page, about |-> cache[panel.page],
                   offered |-> {}]
      /\ cache' = [cache EXCEPT ![panel.page] = cache[panel.page]]
      /\ UNCHANGED <<session, active, skl, history, selected, search, loads, opening,
                     deciding, reviewing, pending, known>>
  BY DEF SwitchTab, Draw
<1>2. session # None
  BY <1>1, SomebodyThere
<1>3. cache' = cache
  BY <1>1 DEF IInv, Shaped
<1>4. panel.page = active /\ cache[active] = selected[active]
  BY <1>1 DEF IInv, ShownIsSelected
<1>5. Shaped' /\ LoadsFit'
  BY <1>1, <1>3 DEF IInv, Shaped, LoadsFit, Fits
<1>6. SignedOut' /\ KnownOver' /\ DecidedNotOffered'
  BY <1>1, <1>2 DEF IInv, SignedOut, KnownOver, DecidedNotOffered
<1>7. ShownIsSelected'
  BY <1>1, <1>3, <1>4 DEF IInv, ShownIsSelected
<1> QED BY <1>1, <1>5, <1>6, <1>7, StayKeeps

LEMMA OpenToolKeeps ==
    ASSUME IInv, NEW tool, OpenTool(tool)
    PROVE  IInv'
<1>1. /\ session # None
      /\ UNCHANGED <<session, skl, selected, search, cache, deciding, reviewing, pending, known>>
  BY DEF OpenTool
<1>2. CASE UNCHANGED <<active, history, panel, loads>>
  <2>1. UNCHANGED <<page, panel, loads>>
    BY <1>1, <1>2 DEF page
  <2>2. Shaped' /\ SignedOut' /\ KnownOver'
    BY <1>1, <1>2 DEF IInv, Shaped, SignedOut, KnownOver
  <2> QED BY <1>1, <2>1, <2>2, QuietKeeps DEF IInv, ShownIsSelected
<1>3. CASE UNCHANGED opening /\ Deny(selected) /\ active # "home"
  BY <1>1, <1>3, SelectionShaped, DenyKeeps
<1> QED BY <1>2, <1>3 DEF OpenTool, Deny

\* A tool replaces whatever node waits for an answer.
LEMMA ToolOpensKeeps ==
    ASSUME IInv, NEW tool, ToolOpens(tool)
    PROVE  IInv'
<1>1. /\ opening # {}
      /\ UNCHANGED <<page, deciding, reviewing, pending, known>>
      /\ UNCHANGED <<session, active, skl, history, selected, search, cache>>
  BY DEF ToolOpens, page
<1>2. session # None
  BY <1>1, SomebodyThere
<1>3. SignedOut' /\ KnownOver'
  BY <1>1, <1>2 DEF IInv, SignedOut, KnownOver
<1>4. CASE UNCHANGED <<panel, loads>>
  <2>1. Shaped'
    BY <1>1, <1>4 DEF IInv, Shaped
  <2> QED BY <1>1, <1>3, <1>4, <2>1, QuietKeeps DEF IInv, ShownIsSelected
<1>5. CASE panel'.state = "tool" /\ loads' = Detached(loads)
  <2>1. /\ loads' = [l \in Slot |-> loads'[l]]
        /\ \A l \in Slot : loads'[l] # None => IsLoad(loads'[l]) /\ ~ loads'[l].attached
    BY <1>5, DetachedRows DEF IInv
  <2>2. Shaped' /\ LoadsFit'
    BY <1>1, <2>1 DEF IInv, Shaped, LoadsFit, Fits
  <2>3. ShownIsSelected' /\ DecidedNotOffered'
    BY <1>1, <1>5 DEF IInv, ShownIsSelected, DecidedNotOffered
  <2> QED BY <1>1, <1>3, <2>2, <2>3, StayKeeps
<1> QED BY <1>4, <1>5 DEF ToolOpens, Blank

-----------------------------------------------------------------------------
\* Decisions.

\* What is sent to Workflow, and what happens there, changes nothing on the screen.
LEMMA ElsewhereKeeps ==
    ASSUME IInv, NEW t \in Task, Decide(t) \/ Serve(t) \/ TaskGoes(t)
    PROVE  IInv'
<1>1. /\ UNCHANGED <<page, panel, loads, opening, reviewing, known>>
      /\ UNCHANGED <<session, active, skl, history, selected, search, cache>>
      /\ pending' \subseteq pending
  BY DEF Decide, Serve, TaskGoes, page
<1>2. deciding' = [k \in Task |-> deciding'[k]]
  BY DEF Decide, Serve, TaskGoes, IInv, Shaped
<1>3. Shaped' /\ KnownOver'
  BY <1>1, <1>2 DEF IInv, Shaped, KnownOver
<1>4. SignedOut'
  <2>1. CASE session # None
    BY <1>1, <2>1 DEF SignedOut
  <2>2. CASE session = None
    <3>1. panel.state = "static" /\ deciding[t] = None
      BY <2>2 DEF IInv, SignedOut
    <3>2. deciding' = deciding
      BY <3>1, PortalClientAssumption DEF Decide, Serve, TaskGoes
    <3> QED BY <1>1, <3>2 DEF IInv, SignedOut
  <2> QED BY <2>1, <2>2
<1> QED BY <1>1, <1>3, <1>4, QuietKeeps DEF IInv, ShownIsSelected

\* renderSection on the page it is called for.
LEMMA SectionRendered ==
    ASSUME IInv, session # None, RenderSection,
           UNCHANGED <<session, active, skl, history, selected, search>>,
           KnownOver', deciding' = [t \in Task |-> deciding'[t]],
           reviewing' # None => reviewing'.sent = reviewing'.shown,
           cache' = [q \in Cached |-> cache'[q]],
           \A q \in Cached : cache'[q] \in {None, selected[q]}
    PROVE  IInv'
<1>1. CASE panel.state = "tool"
  <2>1. UNCHANGED <<panel, loads>>
    BY <1>1 DEF RenderSection
  <2>2. Shaped' /\ SignedOut'
    BY <2>1 DEF IInv, Shaped, SignedOut
  <2>3. LoadsFit'
    <3> SUFFICES ASSUME NEW l \in Slot PROVE Fits(loads[l])'
      BY DEF LoadsFit
    <3> QED BY <1>1, <2>1 DEF IInv, LoadsFit, Fits
  <2>4. ShownIsSelected' /\ DecidedNotOffered'
    BY <1>1, <2>1 DEF ShownIsSelected, DecidedNotOffered
  <2> QED BY <2>2, <2>3, <2>4, StayKeeps
<1>2. CASE panel.state # "tool"
  <2>1. Render(active, selected, search)
    BY <1>2 DEF RenderSection
  <2>2. PICK p \in Page : p = active /\ Opens(p)
    BY DEF IInv, Shaped, PageAllowed, Opens
  <2>3. /\ history' \in Seq(Entry) /\ skl' \in BOOLEAN
        /\ \A k \in 1 .. Len(history') : Opens(history'[k].active)
        /\ (skl' \/ \E k \in 1 .. Len(history') : history'[k].skl) => PortalAllowed("skl")
    BY DEF IInv, Shaped, HistoryAllowed, SklAllowed
  <2>4. Render(p, selected, search) /\ active' = p
    BY <2>1, <2>2
  <2> QED BY <2>2, <2>3, <2>4, SelectionShaped, RenderKeeps
<1> QED BY <1>1, <1>2

\* The answer to a decision: the page is drawn anew before the user is told.
LEMMA DecidedKeeps ==
    ASSUME IInv, NEW t \in Task, Decided(t)
    PROVE  IInv'
<1>1. /\ deciding[t] # None /\ deciding' = [deciding EXCEPT ![t] = None]
      /\ known' = (IF t \in pending THEN known ELSE known \cup {t})
      /\ RenderSection
      /\ UNCHANGED <<opening, reviewing, pending>>
      /\ UNCHANGED <<session, active, skl, history, selected, search, cache>>
  BY DEF Decided, page
<1>2. session # None
  BY <1>1, SomebodyThere
<1>3. KnownOver'
  BY <1>1 DEF IInv, KnownOver
<1>4. deciding' = [k \in Task |-> deciding'[k]]
  BY <1>1 DEF IInv, Shaped
<1>5. reviewing' # None => reviewing'.sent = reviewing'.shown
  BY <1>1 DEF IInv, ShownIsSelected
<1>6. /\ cache' = [q \in Cached |-> cache'[q]]
      /\ \A q \in Cached : cache'[q] \in {None, selected[q]}
  BY <1>1, SelectionShaped
<1> QED BY <1>1, <1>2, <1>3, <1>4, <1>5, <1>6, SectionRendered

\* The probation decision names the case on the screen, which is the selected one.
LEMMA ReviewKeeps ==
    ASSUME IInv, Review
    PROVE  IInv'
<1>1. /\ panel.state = "ready" /\ panel.page = "hrmsCase"
      /\ reviewing' = [sent |-> selected["hrmsCase"], shown |-> panel.about]
      /\ UNCHANGED <<page, panel, loads, opening, deciding, pending, known>>
      /\ UNCHANGED <<session, active, skl, history, selected, search, cache>>
  BY DEF Review, page
<1>2. session # None
  BY <1>1, SomebodyThere
<1>3. panel.about = selected["hrmsCase"]
  BY <1>1 DEF IInv, ShownIsSelected, Selectable
<1>4. Shaped' /\ SignedOut' /\ KnownOver'
  BY <1>1, <1>2 DEF IInv, Shaped, SignedOut, KnownOver
<1> QED BY <1>1, <1>3, <1>4, QuietKeeps

LEMMA ReviewedKeeps ==
    ASSUME IInv, Reviewed
    PROVE  IInv'
<1>1. /\ reviewing # None /\ reviewing' = None
      /\ UNCHANGED <<session, active, skl, history, selected, search, opening, deciding,
                     pending, known>>
  BY DEF Reviewed
<1>2. session # None
  BY <1>1, SomebodyThere
<1>3. KnownOver' /\ deciding' = [t \in Task |-> deciding'[t]]
  BY <1>1 DEF IInv, KnownOver, Shaped
<1>4. CASE cache' = [cache EXCEPT !["hrmsCase"] = None] /\ RenderSection
  <2>1. /\ cache' = [q \in Cached |-> cache'[q]]
        /\ \A q \in Cached : cache'[q] \in {None, selected[q]}
    BY <1>4, SelectionShaped
  <2> QED BY <1>1, <1>2, <1>3, <1>4, <2>1, SectionRendered
<1>5. CASE UNCHANGED <<cache, panel, loads>>
  <2>1. UNCHANGED <<page, panel, loads>>
    BY <1>1, <1>5 DEF page
  <2>2. Shaped' /\ SignedOut'
    BY <1>1, <1>2, <1>5 DEF IInv, Shaped, SignedOut
  <2> QED BY <1>1, <1>3, <2>1, <2>2, QuietKeeps
<1> QED BY <1>4, <1>5 DEF Reviewed

LEMMA StutterKeeps ==
    ASSUME IInv, UNCHANGED vars
    PROVE  IInv'
<1>1. /\ UNCHANGED <<page, panel, loads, opening, deciding, reviewing, pending, known>>
      /\ UNCHANGED <<session, active, skl, history, selected, search, cache>>
  BY DEF vars, page
<1>2. Shaped' /\ SignedOut' /\ KnownOver'
  BY <1>1 DEF IInv, Shaped, SignedOut, KnownOver
<1> QED BY <1>1, <1>2, QuietKeeps DEF IInv, ShownIsSelected

\* Every step keeps the invariant.
LEMMA NextInvariant ==
    ASSUME IInv, [Next]_vars
    PROVE  IInv'
<1>1. CASE SignIn \/ Leave
  BY <1>1, SignInKeeps, LeaveKeeps
<1>2. CASE GoBack \/ GoHome \/ ShowAnnouncements \/ SearchPortal
  BY <1>2, GoBackKeeps, WaysOutKeep
<1>3. CASE SwitchTab \/ Review \/ Reviewed
  BY <1>3, SwitchTabKeeps, ReviewKeeps, ReviewedKeeps
<1>4. CASE \E p \in Visited, ctx \in {"skl", None}, track \in BOOLEAN : Click(p, ctx, track)
  BY <1>4, ClickKeeps
<1>5. CASE \E p \in Selectable : \E x \in Subjects[p] : Select(p, x)
  BY <1>5, SelectKeeps
<1>6. CASE \E term \in Search : SearchDirectory(term)
  BY <1>6, SearchDirectoryKeeps
<1>7. CASE \E l \in 1 .. MaxLoads : Reply(l) \/ Settle(l) \/ Fail(l)
  BY <1>7, ReplyKeeps, SettleKeeps, FailKeeps DEF Slot
<1>8. CASE \E tool \in Tool : OpenTool(tool) \/ ToolOpens(tool)
  BY <1>8, OpenToolKeeps, ToolOpensKeeps
<1>9. CASE \E t \in Task : Decide(t) \/ Serve(t) \/ Decided(t) \/ TaskGoes(t)
  BY <1>9, ElsewhereKeeps, DecidedKeeps
<1>10. CASE UNCHANGED vars
  BY <1>10, StutterKeeps
<1> QED BY <1>1, <1>2, <1>3, <1>4, <1>5, <1>6, <1>7, <1>8, <1>9, <1>10 DEF Next

-----------------------------------------------------------------------------
\* The theorems.

\* The invariant, for every page the browser can be brought to.
THEOREM PortalClientInvariant == Spec => []IInv
BY InitInvariant, NextInvariant, PTL DEF Spec

\* Whatever the order in which answers come, a drawn panel is the active page's,
\* for what is now selected; a probation decision is about the case on the screen.
THEOREM ShownIsSelectedHolds == Spec => []ShownIsSelected
<1>1. IInv => ShownIsSelected
  BY DEF IInv
<1> QED BY <1>1, PortalClientInvariant, PTL

\* Once the user is answered, no list on the screen offers a decided task.
THEOREM DecidedNotOfferedHolds == Spec => []DecidedNotOffered
<1>1. IInv => DecidedNotOffered
  BY DEF IInv
<1> QED BY <1>1, PortalClientInvariant, PTL

\* Nobody is led to a page that the role, unit and permissions do not open.
THEOREM PageAllowedHolds == Spec => []PageAllowed
<1>1. IInv => PageAllowed
  BY DEF IInv
<1> QED BY <1>1, PortalClientInvariant, PTL
=============================================================================
