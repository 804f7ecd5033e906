------------------------------ MODULE AppShell ------------------------------
(***************************************************************************)
(* The frame of the dashboard: App.tsx with SettingsMenu.tsx and the hooks *)
(* useTheme and useFontSize, around the polled topology.  It picks what is *)
(* on the screen, follows the hash of the URL, and applies and stores the  *)
(* settings.  The theme is a class of the document, set in an effect after *)
(* the render; the diagram reads that class while it renders.              *)
(*                                                                         *)
(* A mount of PollingResource is a visit here.  The poll of the statistics *)
(* and the state of the pages are left out; both would only render more    *)
(* often.                                                                  *)
(***************************************************************************)
EXTENDS PollingResource

CONSTANTS
    Pages,        \* the pages there are
    UnknownHash,  \* any hash that names none of them, the empty one too
    Sizes,        \* the font sizes on offer
    NotDrawn      \* there is no diagram on the screen

Hashes == Pages \cup {UnknownHash}
Themes == {"system", "light", "dark"}

ASSUME ShellAssumption ==
    /\ "dashboard" \in Pages /\ UnknownHash \notin Pages
    /\ 100 \in Sizes
    /\ NotDrawn \notin BOOLEAN

VARIABLES
    hash,         \* window.location.hash
    hashChanged,  \* whether its event is still to come
    page,
    theme, size,
    stored,       \* localStorage: theme and size
    prefersDark,  \* what the system prefers
    dark,         \* whether the document has the class "dark"
    menu,         \* whether the settings menu is open
    drawn         \* whether the diagram has dark labels

shellVars == <<hash, hashChanged, page, theme, size, stored, prefersDark, dark, menu, drawn>>
allVars   == <<vars, shellVars>>

-----------------------------------------------------------------------------
(* What is on the screen *)

\* Mutants: no data is an error; every refresh is a loading screen.
DataFirst(state) == IF state.data = None THEN "unavailable" ELSE "content"
RefreshIsLoading(state) ==
    IF state.isLoading \/ state.isRefreshing THEN "loading" ELSE
    IF state.data = None THEN "unavailable" ELSE "content"

ScreenOf(state) ==
    IF state.isLoading THEN "loading" ELSE
    IF state.data = None THEN "unavailable" ELSE "content"

Screen == IF disposed THEN "closed" ELSE ScreenOf(view)

\* The alert that stands above a page.
Banner == Screen = "content" /\ view.error

\* hashToPage
HashToPage(h) == IF h \in Pages THEN h ELSE "dashboard"

ShowsDiagram == Screen = "content" /\ page = "dashboard"

\* Mutant: the class is not among what the layout depends on.
KeepsColours ==
    drawn' = IF ~ShowsDiagram' THEN NotDrawn ELSE IF drawn = NotDrawn THEN dark ELSE drawn

\* The diagram is laid out again when the class has changed, as it is before the effects
\* of this render.
Render == drawn' = IF ShowsDiagram' THEN dark ELSE NotDrawn

\* The menu goes with the header.
MenuStays == menu' = (menu /\ Screen' = "content")

-----------------------------------------------------------------------------
(* Settings *)

\* apply: a theme that is unknown, as stored by hand, counts as light.
IsDark(t, prefers) == t = "dark" \/ (t = "system" /\ prefers)

\* What useFontSize takes from storage.
ParsedSize(s) == IF s \in Sizes THEN s ELSE 100

ShellInit ==
    /\ Init
    /\ hash \in Hashes /\ hashChanged = FALSE
    /\ page = HashToPage(hash)
    /\ stored \in [theme : Themes \cup {"unknown"}, size : Sizes \cup {0}]
    /\ theme = stored.theme /\ size = ParsedSize(stored.size)
    /\ prefersDark \in BOOLEAN
    /\ dark = FALSE /\ menu = FALSE
    /\ drawn = NotDrawn

\* The app mounts: it loads the settings, renders, and the effects apply and store them.
Open ==
    /\ Mount
    /\ hashChanged' = FALSE
    /\ page' = HashToPage(hash)
    /\ theme' = stored.theme
    /\ size' = ParsedSize(stored.size)
    /\ stored' = [theme |-> theme', size |-> size']
    /\ dark' = IsDark(theme', prefersDark)
    /\ Render /\ MenuStays
    /\ UNCHANGED <<hash, prefersDark>>

Close ==
    /\ Unmount
    /\ Render /\ MenuStays
    /\ UNCHANGED <<hash, hashChanged, page, theme, size, stored, prefersDark, dark>>

\* A state that is set to what it is renders nothing.
RenderIf(changed) == IF changed THEN Render ELSE UNCHANGED drawn

SetTheme == \E t \in Themes :
    /\ Screen = "content" /\ menu
    /\ theme' = t
    /\ dark' = IsDark(t, prefersDark)
    /\ stored' = [stored EXCEPT !.theme = t]
    /\ UNCHANGED <<vars, hash, hashChanged, page, size, prefersDark, menu>>
    /\ RenderIf(t # theme)

\* Mutant: the size is applied, not stored.
ForgetSize(s) == UNCHANGED stored

StoreSize(s) == stored' = [stored EXCEPT !.size = s]

SetFontSize == \E s \in Sizes :
    /\ Screen = "content" /\ menu
    /\ size' = s
    /\ StoreSize(s)
    /\ UNCHANGED <<vars, hash, hashChanged, page, theme, prefersDark, dark, menu>>
    /\ RenderIf(s # size)

\* Mutant: the handler stays when another theme is chosen.
HandlerStays == dark' = prefersDark'

\* The handler that is there while the theme is that of the system.
OnMediaChange == dark' = IF theme = "system" THEN prefersDark' ELSE dark

\* The system changes between light and dark.
MediaChanges ==
    /\ prefersDark' = ~prefersDark
    /\ OnMediaChange
    /\ UNCHANGED <<vars, hash, hashChanged, page, theme, size, stored, menu, drawn>>

\* The button of the menu.
ToggleMenu ==
    /\ Screen = "content"
    /\ menu' = ~menu
    /\ UNCHANGED <<vars, hash, hashChanged, page, theme, size, stored, prefersDark, dark, drawn>>

\* A click beside the menu.
ClickOutside ==
    /\ menu
    /\ menu' = FALSE
    /\ UNCHANGED <<vars, hash, hashChanged, page, theme, size, stored, prefersDark, dark, drawn>>

-----------------------------------------------------------------------------
(* Navigation *)

\* The event comes only if the hash is another one.
GoTo(h) ==
    /\ hash' = h
    /\ hashChanged' = (hashChanged \/ h # hash)
    /\ UNCHANGED <<vars, page, theme, size, stored, prefersDark, dark, drawn>>

\* The buttons of the header, which are outside the menu.
Navigate == \E p \in Pages :
    /\ Screen = "content"
    /\ GoTo(IF p = "dashboard" THEN UnknownHash ELSE p)
    /\ menu' = FALSE

\* The address bar, back and forward.
EditUrl == \E h \in Hashes : GoTo(h) /\ UNCHANGED menu

\* Mutant: a hash that names no page is ignored.
KnownHashesOnly == page' = IF hash \in Pages THEN hash ELSE page

FollowHash == page' = HashToPage(hash)

HashChange ==
    /\ ~disposed /\ hashChanged
    /\ hashChanged' = FALSE
    /\ FollowHash
    /\ UNCHANGED <<vars, hash, theme, size, stored, prefersDark, dark, menu>>
    /\ RenderIf(page' # page)

-----------------------------------------------------------------------------
(* The poll *)

\* A step of the poll renders if it publishes.
Polled ==
    /\ UNCHANGED <<hash, hashChanged, page, theme, size, stored, prefersDark, dark>>
    /\ MenuStays

PollAgain == Poll /\ Polled /\ Render

\* "Retry connection", in the alert or in the banner.
RetryConnection ==
    /\ Screen = "unavailable" \/ Banner
    /\ Retry
    /\ UNCHANGED <<hash, hashChanged, page, theme, size, stored, prefersDark, dark>>
    /\ menu' = FALSE
    /\ Render

Settle(r) ==
    /\ Resolve(r) \/ Reject(r)
    /\ Polled
    /\ RenderIf(Owns(r))

Unseen == (ServerChanges \/ OutageStartsOrEnds) /\ UNCHANGED shellVars

Answered(r) == Serve(r) /\ UNCHANGED shellVars

ShellNext ==
    \/ Open \/ Close
    \/ SetTheme \/ SetFontSize \/ MediaChanges \/ ToggleMenu \/ ClickOutside
    \/ Navigate \/ EditUrl \/ HashChange
    \/ PollAgain \/ RetryConnection \/ Unseen
    \/ \E r \in Reads : Settle(r) \/ Answered(r)

\* The interval fires and every read settles.
ShellSpec ==
    /\ ShellInit /\ [][ShellNext]_allVars
    /\ WF_allVars(PollAgain)
    /\ \A r \in Reads : WF_allVars(Settle(r) \/ Answered(r))

-----------------------------------------------------------------------------
(* Properties *)

ShellTypeOK ==
    /\ TypeOK
    /\ hash \in Hashes /\ hashChanged \in BOOLEAN /\ page \in Pages
    /\ theme \in Themes \cup {"unknown"} /\ size \in Sizes
    /\ stored \in [theme : Themes \cup {"unknown"}, size : Sizes \cup {0}]
    /\ prefersDark \in BOOLEAN /\ dark \in BOOLEAN /\ menu \in BOOLEAN
    /\ drawn \in BOOLEAN \cup {NotDrawn}

\* No screen is a dead end, and none lies: a loading screen has a read that will end, a
\* page of errors has an error to retry, and the banner stands above the routes exactly
\* while the last read that ended had failed (App.tsx:52-80, 125-139).
NoDeadEnd ==
    /\ Screen = "loading"     => inFlight
    /\ Screen = "unavailable" => view.error /\ outcome = "failed"
    /\ Screen = "content"     => (Banner <=> outcome = "failed")

\* The document has the colours of the chosen theme, whichever way the theme and the
\* system's preference change one after the other (hooks.ts:66-88).
ThemeIsApplied ==
    ~disposed => (dark <=> theme = "dark" \/ (theme = "system" /\ prefersDark))

\* Labels that the diagram drew in the colours of another theme, since it rendered before
\* the class was set or the system changed without a render, do not stay: the polls draw
\* them again (useFlowLayout.ts:43, 319).
ColoursCatchUp ==
    \A d \in BOOLEAN :
        <>[](ShowsDiagram /\ dark = d) => <>[](drawn = d)

\* When no event is pending the page is the one the URL names, after any mix of buttons,
\* edits and steps back, several of them before one event too (App.tsx:15-35).
PageFollowsHash == ~disposed /\ ~hashChanged => page = HashToPage(hash)

\* Document and page are those that settings and URL ask for.
ShellInSync == ShellTypeOK /\ ThemeIsApplied /\ PageFollowsHash

\* Once routes are shown, no refresh and no outage takes them away, and with them the
\* filters, groups and positions the pages hold (App.tsx:52-59).
ContentStays == Screen = "content" /\ ~disposed' => Screen' = "content"

\* A reload keeps the settings, also those it had to correct (hooks.ts:60-63, 79, 100-112).
SettingsSurvive == disposed # disposed' => theme' = theme /\ size' = size

\* Neither routes that are shown nor settings that were made are lost.
NothingIsLost == [][ContentStays /\ SettingsSurvive]_allVars
=============================================================================
