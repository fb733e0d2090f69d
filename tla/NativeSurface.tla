---------------------------- MODULE NativeSurface ----------------------------
(***************************************************************************)
(* The native web views inside the window.  Every browser session has a    *)
(* container view with a WKWebView in it; when its tab is painted the      *)
(* container is added to the GPUI view and shown.  AppKit sends the keys   *)
(* to its first responder and the mouse to the topmost view that takes it; *)
(* GPUI has a focus of its own, which moves without AppKit.  The shell     *)
(* keeps the two together while it paints.                                 *)
(*                                                                         *)
(* A pane is the window of the layout; its tabs are a terminal and any of  *)
(* the web sessions.  Frames and sizes are left out.                       *)
(***************************************************************************)
EXTENDS Naturals, FiniteSets

CONSTANTS
    Sessions,   \* the web sessions
    Panes,      \* the panes
    PaneOf,     \* the pane a session's tab is in
    GroupOf,    \* the workspace a pane is in
    Terminal,   \* the terminal tab every pane has
    Host,       \* the GPUI view
    Window,     \* the NSWindow, which answers no text input
    Nobody      \* GPUI's focus is on nothing that matters here

ASSUME PanesAssumption == PaneOf \in [Sessions -> Panes]
ASSUME FocusesAssumption ==
    /\ Host \notin Sessions /\ Window \notin Sessions /\ Terminal \notin Sessions
    /\ Host # Window

VARIABLES
    runtime,   \* the sessions whose BrowserRuntime exists
    active,    \* the active tab of each pane
    pane,      \* the active window of the active workspace
    surface,   \* the container view of each session
    first,     \* AppKit's first responder
    focus,     \* GPUI's focused element
    dirty,     \* a frame is due (cx.notify)
    clicked    \* the pages clicked since an address was (history)

vars == <<runtime, active, pane, surface, first, focus, dirty, clicked>>

NoSurface == [there |-> FALSE, attached |-> FALSE, hidden |-> TRUE, accepts |-> TRUE]

\* GPUI's focus, as far as it matters here.
Address(s) == <<"address", s>>
Content(s) == <<"content", s>>
Rename == <<"rename", Nobody>>
Shell == <<"shell", Nobody>>      \* a terminal, or nothing
Focuses == {Shell, Rename} \cup {Address(s) : s \in Sessions}
                           \cup {Content(s) : s \in Sessions}

\* The tabs on screen: the active tab of every pane of the active workspace.
Shown == {s \in runtime : /\ active[PaneOf[s]] = s
                          /\ GroupOf[PaneOf[s]] = GroupOf[pane]}

Visible(s) == surface[s].there /\ surface[s].attached /\ ~surface[s].hidden

\* A click inside an inactive pane meets its overlay, unless the frame is old.
Clickable(s) == s \in Shown /\ (dirty \/ PaneOf[s] = pane)

AcceptsAlways(s) == PaneOf[s] = pane   \* a bug: also while the address is edited
\* native_surface_accepts_pointer_events of web_window_body.
Accepts(s) == PaneOf[s] = pane /\ focus # Address(s)

Init ==
    /\ runtime = {}
    /\ active = [p \in Panes |-> Terminal]
    /\ pane \in Panes
    /\ surface = [s \in Sessions |-> NoSurface]
    /\ first = Host
    /\ focus = Shell
    /\ dirty = TRUE
    /\ clicked = {}

-----------------------------------------------------------------------------
(* The views.                                                              *)

\* WKWebViewProvider::new: out of the window, hidden.
Created(f, s) == [f EXCEPT ![s] = [NoSurface EXCEPT !.there = TRUE]]

\* attach_to_view
Attached(v, accepts) == [v EXCEPT !.attached = TRUE, !.hidden = FALSE, !.accepts = accepts]

\* focus_if_possible: nothing happens when the window is not the key window.
FocusIfPossible(s) == first' \in {first, s}

\* A view that is hidden or taken out while it is first responder: AppKit
\* chooses the next one.
Loses(s) == first' \in IF first = s THEN {Host, Window} ELSE {first}

\* reclaim_first_responder_to_host: keys come back to the GPUI view, never to
\* the window itself.
ReclaimedNever(f, inside) == f        \* a bug: the page keeps the keys
Reclaimed(f, inside) == IF f \in inside THEN Host ELSE f

-----------------------------------------------------------------------------
(* Handlers of the shell.                                                  *)

\* open_browser_in_window_from_ui focuses the page; a control request does not.
OpenTab(s, byUser) ==
    /\ ~surface[s].there
    /\ runtime' = runtime \cup {s}
    /\ active' = [active EXCEPT ![PaneOf[s]] = s]
    /\ pane' = PaneOf[s]
    /\ surface' = Created(surface, s)
    /\ focus' = IF byUser THEN Content(s) ELSE focus
    /\ dirty' = TRUE
    /\ UNCHANGED <<first, clicked>>

\* A bug: the runtime is dropped and its surface left as it is.
CloseTabShowing(s) ==
    /\ s \in runtime
    /\ runtime' = runtime \ {s}
    /\ active' = [active EXCEPT ![PaneOf[s]] = IF @ = s THEN Terminal ELSE @]
    /\ Loses(s)
    /\ focus' = IF focus \in {Address(s), Content(s)} THEN Shell ELSE focus
    /\ dirty' = TRUE
    /\ UNCHANGED <<pane, surface, clicked>>

\* remove_browser_runtime: the surface is hidden, then the runtime dropped.
CloseTab(s) ==
    /\ s \in runtime
    /\ runtime' = runtime \ {s}
    /\ active' = [active EXCEPT ![PaneOf[s]] = IF @ = s THEN Terminal ELSE @]
    /\ surface' = [surface EXCEPT ![s].hidden = TRUE]
    /\ Loses(s)
    /\ focus' = IF focus \in {Address(s), Content(s)} THEN Shell ELSE focus
    /\ dirty' = TRUE
    /\ UNCHANGED <<pane, clicked>>

\* The worker has ended and the provider's Drop takes the container out.
DestroyView(s) ==
    /\ surface[s].there
    /\ s \notin runtime
    /\ surface' = [surface EXCEPT ![s] = NoSurface]
    /\ Loses(s)
    /\ UNCHANGED <<runtime, active, pane, focus, dirty, clicked>>

Tabs(p) == {Terminal} \cup {s \in runtime : PaneOf[s] = p}

\* activate_tab_for_session and the requests that activate a workspace, a
\* window or a tab: neither focus moves.
ActivateByAgent(p, t) ==
    /\ t \in Tabs(p)
    /\ active' = [active EXCEPT ![p] = t]
    /\ pane' = p
    /\ dirty' = TRUE
    /\ UNCHANGED <<runtime, surface, first, focus, clicked>>

\* focus_active_tab_in_window
FocusOfAnyTab(t) == Content(t)        \* a bug: a terminal is taken for a page
FocusOf(t) == IF t = Terminal THEN Shell ELSE Content(t)

\* A click on a tab or on an inactive pane.  AppKit makes the view that is
\* clicked first responder, and the shell focuses what the pane now shows.
ActivateByClick(p, t) ==
    /\ t \in Tabs(p)
    /\ active' = [active EXCEPT ![p] = t]
    /\ pane' = p
    /\ first' = Host
    /\ focus' = FocusOf(t)
    /\ dirty' = TRUE
    /\ UNCHANGED <<runtime, surface, clicked>>

\* The address field is clicked: the page stops taking the mouse and, if it
\* has the keys, gives them back.
ClickAddress(s) ==
    /\ Clickable(s)
    /\ focus' = Address(s)
    /\ first' = Host
    /\ surface' = [surface EXCEPT ![s].accepts = FALSE, ![s].hidden = FALSE]
    /\ clicked' = {}
    /\ dirty' = TRUE
    /\ UNCHANGED <<runtime, active, pane>>

\* on_click of browser_content_shell, with sync_browser_native_surface_focus:
\* the content is clicked while the surface lets the mouse through.
ClickContent(s) ==
    /\ Clickable(s)
    /\ ~(Visible(s) /\ surface[s].accepts)
    /\ focus' = Content(s)
    /\ surface' = [surface EXCEPT ![s].accepts = TRUE, ![s].hidden = FALSE]
    /\ first' \in {Host, s}
    /\ dirty' = TRUE
    /\ UNCHANGED <<runtime, active, pane, clicked>>

\* The page itself is clicked (AgentHouseWebView's mouseDown): GPUI does not
\* see it.
ClickPage(s) ==
    /\ Visible(s)
    /\ surface[s].accepts
    /\ FocusIfPossible(s)
    /\ clicked' = clicked \cup {s}
    /\ UNCHANGED <<runtime, active, pane, surface, focus, dirty>>

\* begin_active_workspace_rename_from_menu: the first responder stays, so a
\* page that has the keys keeps them.
RenameFromMenu ==
    /\ focus' = Rename
    /\ dirty' = TRUE
    /\ UNCHANGED <<runtime, active, pane, surface, first, clicked>>

\* begin_workspace_rename_from_ui, from the sidebar: p is the active window of
\* the workspace, which becomes the active one.
RenameByClick(p) ==
    /\ GroupOf[p] = GroupOf[pane] => p = pane
    /\ pane' = p
    /\ focus' = Rename
    /\ first' = Host
    /\ dirty' = TRUE
    /\ UNCHANGED <<runtime, active, surface, clicked>>

\* render, then the prepaint callback of browser_content_shell for every web
\* tab on screen.
Paint ==
    /\ dirty
    /\ dirty' = FALSE
    /\ surface' = [s \in Sessions |->
                     IF s \in Shown THEN Attached(surface[s], Accepts(s)) ELSE surface[s]]
    /\ first' = Reclaimed(first, {s \in Shown : ~Accepts(s)})
    /\ UNCHANGED <<runtime, active, pane, focus, clicked>>

Next ==
    \/ \E s \in Sessions :
         \/ \E byUser \in BOOLEAN : OpenTab(s, byUser)
         \/ CloseTab(s) \/ DestroyView(s)
         \/ ClickAddress(s) \/ ClickContent(s) \/ ClickPage(s)
    \/ \E p \in Panes, t \in Sessions \cup {Terminal} :
         ActivateByAgent(p, t) \/ ActivateByClick(p, t)
    \/ RenameFromMenu
    \/ \E p \in Panes : RenameByClick(p)
    \/ Paint

Spec == Init /\ [][Next]_vars

-----------------------------------------------------------------------------
(* Properties.                                                             *)

\* The type invariant.
TypeOK ==
    /\ runtime \subseteq Sessions
    /\ active \in [Panes -> Sessions \cup {Terminal}]
    /\ pane \in Panes
    /\ surface \in [Sessions -> [there : BOOLEAN, attached : BOOLEAN,
                                 hidden : BOOLEAN, accepts : BOOLEAN]]
    /\ first \in Sessions \cup {Host, Window}
    /\ focus \in Focuses
    /\ dirty \in BOOLEAN
    /\ clicked \subseteq Sessions

\* Once painted, the web tabs on screen are visible, and of these only the one
\* in the active pane takes the mouse, and not while its address is edited.
\* (web_window_body, browser_content_shell, sync_browser_native_surface_focus)
MouseGoesToActivePane ==
    ~dirty => \A s \in Shown : /\ Visible(s)
                               /\ surface[s].accepts => PaneOf[s] = pane /\ focus # Address(s)

\* Once painted, while the address field of the active pane is being edited, no
\* page has the keys, but for one the user clicked itself after the address,
\* and whose tab its pane does not show: an activation left it visible (see
\* OnlyShownPagesAreVisible), and nothing takes the keys from it.  Whatever
\* agents and paints do, they give the keys to no page.
\* (release_native_surface_focus, reclaim_first_responder_to_host)
TypingReachesTheAddress ==
    ~dirty => \A s \in Shown : focus = Address(s) /\ PaneOf[s] = pane =>
                \A t \in Sessions : first = t => t \notin Shown /\ t \in clicked

\* The page of a closed tab is never seen again, although its view stays in the
\* window until the worker has ended.  (remove_browser_runtime hides it first)
ClosedPagesStayHidden == \A s \in Sessions \ runtime : ~Visible(s)

\* What the docs say of tabs: a tab is the active view inside its pane, so the
\* page of a tab that is not on screen is not on screen either.
OnlyShownPagesAreVisible == ~dirty => \A s \in Sessions : Visible(s) => s \in Shown
=============================================================================
