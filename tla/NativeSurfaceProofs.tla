------------------------- MODULE NativeSurfaceProofs -------------------------
(***************************************************************************)
(* Proofs about NativeSurface for any number of sessions and panes, however *)
(* they are arranged.                                                      *)
(*                                                                         *)
(* The properties only speak of a window that has been painted, and only a *)
(* click on a page and the end of a worker leave it painted: a click finds *)
(* a page that takes the mouse, which MouseGoesToActivePane says is not the *)
(* one whose address is edited.                                            *)
(***************************************************************************)
EXTENDS NativeSurface, TLAPS

LEMMA InitType == Init => TypeOK
  BY PanesAssumption, FocusesAssumption
  DEF Init, TypeOK, NoSurface, Focuses

LEMMA NextType == TypeOK /\ [Next]_vars => TypeOK'
  <1> SUFFICES ASSUME TypeOK, [Next]_vars PROVE TypeOK'
    OBVIOUS
  <1> USE PanesAssumption DEF TypeOK
  <1>1. ASSUME NEW s \in Sessions, NEW byUser \in BOOLEAN, OpenTab(s, byUser)
        PROVE  TypeOK'
    BY <1>1 DEF OpenTab, Created, NoSurface, Focuses
  <1>2. ASSUME NEW s \in Sessions, CloseTab(s)
        PROVE  TypeOK'
    BY <1>2 DEF CloseTab, Loses, Focuses
  <1>3. ASSUME NEW s \in Sessions, DestroyView(s)
        PROVE  TypeOK'
    BY <1>3 DEF DestroyView, Loses, NoSurface
  <1>4. ASSUME NEW s \in Sessions, ClickAddress(s)
        PROVE  TypeOK'
    BY <1>4 DEF ClickAddress, Focuses
  <1>5. ASSUME NEW s \in Sessions, ClickContent(s)
        PROVE  TypeOK'
    BY <1>5 DEF ClickContent, Focuses
  <1>6. ASSUME NEW s \in Sessions, ClickPage(s)
        PROVE  TypeOK'
    BY <1>6 DEF ClickPage, FocusIfPossible
  <1>7. ASSUME NEW p \in Panes, NEW t \in Sessions \cup {Terminal}, ActivateByAgent(p, t)
        PROVE  TypeOK'
    BY <1>7 DEF ActivateByAgent
  <1>8. ASSUME NEW p \in Panes, NEW t \in Sessions \cup {Terminal}, ActivateByClick(p, t)
        PROVE  TypeOK'
    BY <1>8 DEF ActivateByClick, FocusOf, Focuses
  <1>9. CASE RenameFromMenu
    BY <1>9 DEF RenameFromMenu, Focuses
  <1>10. CASE Paint
    <2>1. surface' \in [Sessions -> [there : BOOLEAN, attached : BOOLEAN,
                                     hidden : BOOLEAN, accepts : BOOLEAN]]
      BY <1>10 DEF Paint, Attached, Accepts
    <2>2. first' \in Sessions \cup {Host, Window}
      BY <1>10 DEF Paint, Reclaimed
    <2> QED  BY <1>10, <2>1, <2>2 DEF Paint
  <1>11. ASSUME NEW p \in Panes, RenameByClick(p)
         PROVE  TypeOK'
    BY <1>11 DEF RenameByClick, Focuses
  <1>12. CASE UNCHANGED vars
    BY <1>12 DEF vars
  <1> QED
    BY <1>1, <1>2, <1>3, <1>4, <1>5, <1>6, <1>7, <1>8, <1>9, <1>10, <1>11, <1>12
    DEF Next

\* Every part of the state keeps its form.
THEOREM TypeIsKept == Spec => []TypeOK
  BY InitType, NextType, PTL DEF Spec

-----------------------------------------------------------------------------
(* The views.                                                              *)

\* A session that runs has its view: only the end of its worker takes it away.
RuntimesHaveViews == \A s \in runtime : surface[s].there

SurfaceInv == TypeOK /\ RuntimesHaveViews

LEMMA NextKeepsViews ==
  ASSUME TypeOK, RuntimesHaveViews, [Next]_vars
  PROVE  RuntimesHaveViews'
  <1> USE DEF TypeOK, RuntimesHaveViews
  <1>1. ASSUME NEW s \in Sessions, NEW byUser \in BOOLEAN, OpenTab(s, byUser)
        PROVE  RuntimesHaveViews'
    BY <1>1 DEF OpenTab, Created, NoSurface
  <1>2. ASSUME NEW s \in Sessions, CloseTab(s)
        PROVE  RuntimesHaveViews'
    BY <1>2 DEF CloseTab
  <1>3. ASSUME NEW s \in Sessions, DestroyView(s)
        PROVE  RuntimesHaveViews'
    BY <1>3 DEF DestroyView
  <1>4. ASSUME NEW s \in Sessions, ClickAddress(s) \/ ClickContent(s)
        PROVE  RuntimesHaveViews'
    BY <1>4 DEF ClickAddress, ClickContent
  <1>5. CASE Paint
    BY <1>5 DEF Paint, Attached
  <1>6. CASE UNCHANGED <<runtime, surface>>
    BY <1>6
  <1>7. [Next]_vars =>
          \/ \E s \in Sessions : \/ \E byUser \in BOOLEAN : OpenTab(s, byUser)
                               \/ CloseTab(s) \/ DestroyView(s)
                               \/ ClickAddress(s) \/ ClickContent(s)
          \/ Paint
          \/ UNCHANGED <<runtime, surface>>
    BY DEF Next, ClickPage, ActivateByAgent, ActivateByClick, RenameFromMenu,
           RenameByClick, vars
  <1> QED  BY <1>1, <1>2, <1>3, <1>4, <1>5, <1>6, <1>7

LEMMA SurfaceInvariant == Spec => []SurfaceInv
  <1>1. Init => SurfaceInv
    BY InitType DEF Init, SurfaceInv, RuntimesHaveViews
  <1>2. SurfaceInv /\ [Next]_vars => SurfaceInv'
    BY NextType, NextKeepsViews DEF SurfaceInv
  <1> QED  BY <1>1, <1>2, PTL DEF Spec

-----------------------------------------------------------------------------
(* The mouse.                                                              *)

LEMMA PaintRoutesMouse ==
  ASSUME TypeOK, RuntimesHaveViews, Paint
  PROVE  MouseGoesToActivePane'
  <1>1. Shown' = Shown /\ \A s \in Sessions : Accepts(s)' = Accepts(s)
    BY DEF Paint, Shown, Accepts
  <1>2. ASSUME NEW s \in Shown
        PROVE  Visible(s)' /\ (surface'[s].accepts => PaneOf[s] = pane' /\ focus' # Address(s))
    <2>1. s \in Sessions
      BY DEF TypeOK, Shown
    <2>2. surface'[s] = Attached(surface[s], Accepts(s))
      BY <1>2, <2>1 DEF Paint
    <2>3. surface[s] \in [there : BOOLEAN, attached : BOOLEAN, hidden : BOOLEAN,
                          accepts : BOOLEAN]
      BY <2>1 DEF TypeOK
    <2>4. surface'[s].there
      BY <2>2, <2>3 DEF Attached, RuntimesHaveViews, Shown
    <2>5. Visible(s)'
      BY <2>2, <2>3, <2>4 DEF Attached, Visible
    <2>6. surface'[s].accepts => Accepts(s)
      BY <2>2, <2>3 DEF Attached
    <2> QED
      BY <2>5, <2>6 DEF Accepts, Paint
  <1> QED  BY <1>1, <1>2 DEF MouseGoesToActivePane

LEMMA NextRoutesMouse ==
  ASSUME TypeOK, RuntimesHaveViews, MouseGoesToActivePane, [Next]_vars
  PROVE  MouseGoesToActivePane'
  <1>1. CASE dirty'
    BY <1>1 DEF MouseGoesToActivePane
  <1>2. CASE Paint
    BY <1>2, PaintRoutesMouse
  <1>3. ASSUME NEW s \in Sessions, ClickPage(s)
        PROVE  MouseGoesToActivePane'
    BY <1>3 DEF ClickPage, MouseGoesToActivePane, Shown, Visible
  <1>4. ASSUME NEW u \in Sessions, DestroyView(u)
        PROVE  MouseGoesToActivePane'
    <2>1. Shown' = Shown /\ u \notin Shown
      BY <1>4 DEF DestroyView, Shown
    <2>2. \A s \in Shown : surface'[s] = surface[s]
      BY <1>4, <2>1 DEF DestroyView, TypeOK, Shown
    <2> QED  BY <1>4, <2>1, <2>2 DEF DestroyView, MouseGoesToActivePane, Visible
  <1>5. CASE UNCHANGED vars
    BY <1>5 DEF vars, MouseGoesToActivePane, Shown, Visible
  <1>6. Next => \/ dirty' \/ Paint
               \/ \E s \in Sessions : ClickPage(s) \/ DestroyView(s)
    BY DEF Next, OpenTab, CloseTab, ClickAddress, ClickContent, ActivateByAgent,
           ActivateByClick, RenameFromMenu, RenameByClick
  <1> QED  BY <1>1, <1>2, <1>3, <1>4, <1>5, <1>6

\* A click goes to the page of the active pane or to the shell's own elements.
THEOREM MouseIsRouted == Spec => []MouseGoesToActivePane
  <1>1. Init => MouseGoesToActivePane
    BY DEF Init, MouseGoesToActivePane
  <1>2. SurfaceInv /\ MouseGoesToActivePane /\ [Next]_vars => MouseGoesToActivePane'
    BY NextRoutesMouse DEF SurfaceInv
  <1> QED  BY <1>1, <1>2, SurfaceInvariant, PTL DEF Spec

-----------------------------------------------------------------------------
(* The keys.                                                               *)

\* Of the pages on screen one at most is in the active pane.
LEMMA OneShownInPane ==
  ASSUME NEW s \in Shown, NEW t \in Shown, PaneOf[s] = pane, PaneOf[t] = pane
  PROVE  s = t
  BY DEF Shown

\* While an address is edited, a page has the keys only by a click on it since.
KeysNeedAClick ==
  \A s, t \in Sessions : focus = Address(s) /\ first = t => t \in clicked

LEMMA NextNeedsAClick ==
  ASSUME TypeOK, KeysNeedAClick, [Next]_vars
  PROVE  KeysNeedAClick'
  <1> USE FocusesAssumption DEF TypeOK, KeysNeedAClick, Address, Content, Rename, Shell
  <1>1. ASSUME NEW s \in Sessions, NEW byUser \in BOOLEAN, OpenTab(s, byUser)
        PROVE  KeysNeedAClick'
    BY <1>1 DEF OpenTab
  <1>2. ASSUME NEW s \in Sessions, CloseTab(s)
        PROVE  KeysNeedAClick'
    BY <1>2 DEF CloseTab, Loses
  <1>3. ASSUME NEW s \in Sessions, DestroyView(s)
        PROVE  KeysNeedAClick'
    BY <1>3 DEF DestroyView, Loses
  <1>4. ASSUME NEW s \in Sessions, ClickAddress(s)
        PROVE  KeysNeedAClick'
    BY <1>4 DEF ClickAddress
  <1>5. ASSUME NEW s \in Sessions, ClickContent(s)
        PROVE  KeysNeedAClick'
    BY <1>5 DEF ClickContent
  <1>6. ASSUME NEW s \in Sessions, ClickPage(s)
        PROVE  KeysNeedAClick'
    BY <1>6 DEF ClickPage, FocusIfPossible
  <1>7. ASSUME NEW p \in Panes, NEW t \in Sessions \cup {Terminal}, ActivateByAgent(p, t)
        PROVE  KeysNeedAClick'
    BY <1>7 DEF ActivateByAgent
  <1>8. ASSUME NEW p \in Panes, NEW t \in Sessions \cup {Terminal}, ActivateByClick(p, t)
        PROVE  KeysNeedAClick'
    BY <1>8 DEF ActivateByClick
  <1>9. CASE RenameFromMenu
    BY <1>9 DEF RenameFromMenu
  <1>10. ASSUME NEW p \in Panes, RenameByClick(p)
         PROVE  KeysNeedAClick'
    BY <1>10 DEF RenameByClick
  <1>11. CASE Paint
    BY <1>11 DEF Paint, Reclaimed
  <1>12. CASE UNCHANGED vars
    BY <1>12 DEF vars
  <1> QED
    BY <1>1, <1>2, <1>3, <1>4, <1>5, <1>6, <1>7, <1>8, <1>9, <1>10, <1>11, <1>12
    DEF Next

LEMMA ClickInvariant == Spec => []KeysNeedAClick
  <1>1. Init => KeysNeedAClick
    BY FocusesAssumption DEF Init, KeysNeedAClick
  <1>2. TypeOK /\ KeysNeedAClick /\ [Next]_vars => KeysNeedAClick'
    BY NextNeedsAClick
  <1> QED  BY <1>1, <1>2, TypeIsKept, PTL DEF Spec

\* While the address of the active pane is edited, no page on screen by the
\* layout has the keys.
KeysNotShown ==
  ~dirty => \A s \in Shown : focus = Address(s) /\ PaneOf[s] = pane => first \notin Shown

LEMMA NextKeepsKeys ==
  ASSUME TypeOK, MouseGoesToActivePane, KeysNotShown, [Next]_vars
  PROVE  KeysNotShown'
  <1>1. CASE dirty'
    BY <1>1 DEF KeysNotShown
  <1>2. CASE Paint
    <2>1. /\ Shown' = Shown /\ focus' = focus /\ pane' = pane
          /\ first' = Reclaimed(first, {t \in Shown : ~Accepts(t)})
      BY <1>2 DEF Paint, Shown
    <2>2. ASSUME NEW s \in Shown, focus = Address(s), PaneOf[s] = pane
          PROVE  first' \notin Shown
      <3>1. \A t \in Shown : ~Accepts(t)
        BY <2>2, OneShownInPane DEF Accepts
      <3>2. Host \notin Shown
        BY FocusesAssumption DEF Shown, TypeOK
      <3> QED  BY <2>1, <3>1, <3>2 DEF Reclaimed
    <2> QED  BY <2>1, <2>2 DEF KeysNotShown
  <1>3. ASSUME NEW t \in Sessions, ClickPage(t)
        PROVE  KeysNotShown'
    <2> SUFFICES ASSUME ~dirty, NEW s \in Shown, focus = Address(s), PaneOf[s] = pane
                 PROVE  first' \notin Shown
      BY <1>3 DEF ClickPage, KeysNotShown, Shown
    <2>1. t \notin Shown
      BY <1>3, OneShownInPane DEF ClickPage, MouseGoesToActivePane
    <2>2. first' \in {first, t}
      BY <1>3 DEF ClickPage, FocusIfPossible
    <2> QED  BY <2>1, <2>2 DEF KeysNotShown
  <1>4. ASSUME NEW u \in Sessions, DestroyView(u)
        PROVE  KeysNotShown'
    <2>1. Shown' = Shown /\ Host \notin Shown /\ Window \notin Shown
      BY <1>4, FocusesAssumption DEF DestroyView, Shown, TypeOK
    <2>2. first' \in {first, Host, Window}
      BY <1>4 DEF DestroyView, Loses
    <2> QED  BY <1>4, <2>1, <2>2 DEF DestroyView, KeysNotShown
  <1>5. CASE UNCHANGED vars
    BY <1>5 DEF vars, KeysNotShown, Shown
  <1>6. Next => \/ dirty' \/ Paint
               \/ \E s \in Sessions : ClickPage(s) \/ DestroyView(s)
    BY DEF Next, OpenTab, CloseTab, ClickAddress, ClickContent, ActivateByAgent,
           ActivateByClick, RenameFromMenu, RenameByClick
  <1> QED  BY <1>1, <1>2, <1>3, <1>4, <1>5, <1>6

\* While the address of the active pane is edited, no page has the keys but for
\* one that an activation left visible and the user clicked since.
THEOREM KeysReachTheAddress == Spec => []TypingReachesTheAddress
  <1>1. Init => KeysNotShown
    BY DEF Init, KeysNotShown
  <1>2. SurfaceInv /\ MouseGoesToActivePane /\ KeysNotShown /\ [Next]_vars
          => KeysNotShown'
    BY NextKeepsKeys DEF SurfaceInv
  <1>3. TypeOK /\ KeysNotShown /\ KeysNeedAClick => TypingReachesTheAddress
    BY DEF TypeOK, Shown, KeysNotShown, KeysNeedAClick, TypingReachesTheAddress
  <1> QED
    BY <1>1, <1>2, <1>3, TypeIsKept, SurfaceInvariant, MouseIsRouted, ClickInvariant, PTL
    DEF Spec

-----------------------------------------------------------------------------
(* Pages that were closed.                                                 *)

LEMMA NextKeepsClosed ==
  ASSUME TypeOK, ClosedPagesStayHidden, [Next]_vars
  PROVE  ClosedPagesStayHidden'
  <1> USE DEF TypeOK, ClosedPagesStayHidden, Visible
  <1>1. ASSUME NEW s \in Sessions, NEW byUser \in BOOLEAN, OpenTab(s, byUser)
        PROVE  ClosedPagesStayHidden'
    BY <1>1 DEF OpenTab, Created, NoSurface
  <1>2. ASSUME NEW s \in Sessions, CloseTab(s)
        PROVE  ClosedPagesStayHidden'
    BY <1>2 DEF CloseTab
  <1>3. ASSUME NEW s \in Sessions, DestroyView(s)
        PROVE  ClosedPagesStayHidden'
    BY <1>3 DEF DestroyView, NoSurface
  <1>4. ASSUME NEW s \in Sessions, ClickAddress(s) \/ ClickContent(s)
        PROVE  ClosedPagesStayHidden'
    BY <1>4 DEF ClickAddress, ClickContent, Clickable, Shown
  <1>5. CASE Paint
    BY <1>5 DEF Paint, Shown
  <1>6. CASE UNCHANGED <<runtime, surface>>
    BY <1>6
  <1>7. [Next]_vars =>
          \/ \E s \in Sessions : \/ \E byUser \in BOOLEAN : OpenTab(s, byUser)
                               \/ CloseTab(s) \/ DestroyView(s)
                               \/ ClickAddress(s) \/ ClickContent(s)
          \/ Paint
          \/ UNCHANGED <<runtime, surface>>
    BY DEF Next, ClickPage, ActivateByAgent, ActivateByClick, RenameFromMenu,
           RenameByClick, vars
  <1> QED  BY <1>1, <1>2, <1>3, <1>4, <1>5, <1>6, <1>7

\* The page of a tab that was closed is not seen again, although its view is in
\* the window until the worker has ended.
THEOREM ClosedStayHidden == Spec => []ClosedPagesStayHidden
  <1>1. Init => ClosedPagesStayHidden
    BY DEF Init, ClosedPagesStayHidden, Visible, NoSurface
  <1>2. SurfaceInv /\ ClosedPagesStayHidden /\ [Next]_vars => ClosedPagesStayHidden'
    BY NextKeepsClosed DEF SurfaceInv
  <1> QED  BY <1>1, <1>2, SurfaceInvariant, PTL DEF Spec
=============================================================================
