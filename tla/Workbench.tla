------------------------------ MODULE Workbench ------------------------------
(***************************************************************************)
(* Workspaces, their windows and tabs, the sessions that run behind the    *)
(* tabs, and the store they come back from: the workspace and window       *)
(* operations, persist_state and restore_from_store of AgentHouseShell in  *)
(* agenthouse/src/shell.rs, with ah-workspace and ah-store.                *)
(*                                                                         *)
(* Steps.  All of it runs on the UI thread.  A step is one control request *)
(* or one action of the user, handled to its end, which for all but two    *)
(* of them is persist_state.  persist_state writes row by row, each row in *)
(* a transaction of its own; a crash in the middle of a handler leaves the *)
(* rows written so far (Torn).                                             *)
(*                                                                         *)
(* Data.  A session belongs to one tab, so a tab stands for its session;   *)
(* titles, urls, layout.mode and file previews, which nothing here         *)
(* depends on (no request opens a file preview), are left out, and with    *)
(* them the order of tabs and which window and tab are active: they decide *)
(* what is drawn and where a command of the menu goes.  Rows of the        *)
(* sessions table are told apart by their session only.                    *)
(***************************************************************************)
EXTENDS PaneLayout, FiniteSets, FiniteSetsExt

CONSTANTS
  Roots,             \* folders
  Kinds,             \* what tabs show: "terminal", "web"
  MaxWorkspacePanes, \* MAX_WORKSPACE_PANES
  MaxWorkspaces, MaxWindows, MaxTabs,  \* ids given out (bounds)
  MaxTorn            \* handlers cut short by a crash (bound)

ASSUME WorkbenchAssumption ==
  /\ "terminal" \in Kinds /\ Kinds \subseteq {"terminal", "web"}
  /\ {MaxWorkspacePanes, MaxWorkspaces, MaxWindows, MaxTabs} \subseteq Nat \ {0}
  /\ MaxTorn \in Nat

VARIABLES
  up,    \* the application runs
  shell, \* AgentHouseShell; what a crash left of it is never read by the code
  store, \* the SQLite database
  torn   \* how many handlers a crash cut short

vars == <<up, shell, store, torn>>

None == 0
WorkspaceIds == 1 .. MaxWorkspaces
Tabs == [id: Nat \ {0}, kind: Kinds]
Windows == [id: Nat \ {0}, tabs: SUBSET Tabs]
Workspaces == [id: WorkspaceIds, root: Roots, windows: Seq(Windows)]
------------------------------------------------------------------------------
(* Looking things up. *)
Ids(s) == [i \in DOMAIN s |-> s[i].id]
PositionOf(s, id) == SelectInSeq(s, LAMBDA x : x.id = id)
\* the first n elements of s but for those with these ids
KeptUpTo(s, ids) ==
  LET kept[n \in 0 .. Len(s)] ==
        IF n = 0 THEN <<>>
        ELSE IF s[n].id \in ids THEN kept[n - 1] ELSE Append(kept[n - 1], s[n])
  IN  kept
WithoutIds(s, ids) == KeptUpTo(s, ids)[Len(s)]

TabsOf(ws) == UNION {ws.windows[i].tabs : i \in DOMAIN ws.windows}
AllTabs(workspaces) == UNION {TabsOf(workspaces[i]) : i \in DOMAIN workspaces}
SessionsIn(tabs, kind) == {t.id : t \in {u \in tabs : u.kind = kind}}

\* workspace_index_for_window and workspace_index_by_id; 0 for None
HomeOf(s, w) == SelectInSeq(s.open, LAMBDA ws : PositionOf(ws.windows, w) # 0)
OpenWindows(s) == UNION {ToSet(Ids(s.open[k].windows)) : k \in DOMAIN s.open}
OpenIds(s) == ToSet(Ids(s.open))
PlaceOf(s, w) == PositionOf(s.open[HomeOf(s, w)].windows, w)
WindowOf(s, w) == s.open[HomeOf(s, w)].windows[PlaceOf(s, w)]
------------------------------------------------------------------------------
(* The operations on AgentHouseShell, from one state of it to another. *)

\* A session id used nowhere; TerminalRuntime::spawn draws a random one.
UsedTabs(s) ==
  {t.id : t \in AllTabs(s.open) \cup AllTabs(store.workspaces)}
  \cup s.terminals \cup s.browsers \cup store.sessions
NewTab(s) == Min((1 .. Max(UsedTabs(s) \cup {0}) + 1) \ UsedTabs(s))

\* reconcile_pane_layout_for_workspace
Reconcile(s, k) ==
  LET ws == s.open[k]
      l == Reconciled(s.layouts[ws.id], Ids(ws.windows), s.nextSplit)
  IN  [s EXCEPT !.layouts[ws.id] = l.tree, !.nextSplit = l.next]

\* add_terminal_tab_to_window_with_cwd; open_web_tab is the same for a browser
AddTab(s, w, kind) ==
  LET k == HomeOf(s, w)
      t == [id |-> NewTab(s), kind |-> kind]
  IN  [s EXCEPT !.open[k].windows[PlaceOf(s, w)].tabs = @ \cup {t},
                !.active = k,
                !.terminals = IF kind = "terminal" THEN @ \cup {t.id} ELSE @,
                !.browsers = IF kind = "web" THEN @ \cup {t.id} ELSE @]

\* Workspace::push_window of a window without tabs, and its workspace activated
PushWindow(s, k) ==
  LET w == s.made.windows + 1
  IN  [s EXCEPT !.open[k].windows = Append(@, [id |-> w, tabs |-> {}]),
                !.active = k,
                !.made.windows = w]

\* add_terminal_pane_to_workspace_without_layout_reconcile
PaneLimitReached(s, k) == Len(s.open[k].windows) >= MaxWorkspacePanes
AddPane(s, k) == AddTab(PushWindow(s, k), s.made.windows + 1, "terminal")

\* ensure_workspaces_have_terminal_panes: first the windows of one workspace,
\* up to the i-th, then the workspaces, up to the k-th
FilledUpTo(s, windows) ==
  LET filled[i \in 0 .. Len(windows)] ==
        IF i = 0 THEN s
        ELSE IF windows[i].tabs = {} THEN AddTab(filled[i - 1], windows[i].id, "terminal")
        ELSE filled[i - 1]
  IN  filled
EnsureWorkspace(s, k) ==
  LET windows == s.open[k].windows
  IN  IF windows = <<>> THEN Reconcile(AddPane(s, k), k)
      ELSE FilledUpTo(s, windows)[Len(windows)]
EnsuredUpTo(s) ==
  LET ensured[k \in 0 .. Len(s.open)] ==
        IF k = 0 THEN s ELSE EnsureWorkspace(ensured[k - 1], k)
  IN  ensured
EnsurePanes(s) ==
  IF s.open = <<>> THEN s
  ELSE [EnsuredUpTo(s)[Len(s.open)] EXCEPT !.active = Min({s.active, Len(s.open)})]

\* ensure_browser_runtimes_for_workspaces; `works' is whether the web view starts
EnsureBrowsers(s, works) ==
  LET referenced == SessionsIn(AllTabs(s.open), "web")
  IN  [s EXCEPT !.browsers = IF works THEN referenced ELSE @ \cap referenced]

\* the sessions of removed tabs: stop_terminal_runtime, remove_browser_runtime
StopSessions(s, tabs) ==
  [s EXCEPT !.terminals = @ \ SessionsIn(tabs, "terminal"),
            !.browsers = @ \ SessionsIn(tabs, "web")]

\* close_window
CloseWindowLeaky(s, w) ==                                                   \* mutant
  LET k == HomeOf(s, w)
  IN  Reconcile([s EXCEPT !.open[k].windows = RemoveAt(@, PlaceOf(s, w)), !.active = k], k)
CloseWindowUnreconciled(s, w) ==                                            \* mutant
  LET k == HomeOf(s, w)
  IN  [StopSessions(s, WindowOf(s, w).tabs) EXCEPT !.open[k].windows = RemoveAt(@, PlaceOf(s, w)),
                                                   !.active = k]
CloseWindow(s, w) ==
  LET k == HomeOf(s, w)
  IN  Reconcile([StopSessions(s, WindowOf(s, w).tabs)
                   EXCEPT !.open[k].windows = RemoveAt(@, PlaceOf(s, w)), !.active = k], k)

\* what close_window_tab and move_window_tab do to the window they take t from
TakeTab(s, w, t) ==
  [s EXCEPT !.open[HomeOf(s, w)].windows[PlaceOf(s, w)].tabs = @ \ {t}]

\* close_window_tab
CloseTab(s, w, t) ==
  [StopSessions(TakeTab(s, w, t), {t}) EXCEPT !.active = HomeOf(s, w)]

\* move_window_tab
MoveTabCopying(s, from, t, to) ==                                           \* mutant
  [s EXCEPT !.open[HomeOf(s, to)].windows[PlaceOf(s, to)].tabs = @ \cup {t},
            !.active = HomeOf(s, to)]
MoveTab(s, from, t, to) ==
  [TakeTab(s, from, t)
     EXCEPT !.open[HomeOf(s, to)].windows[PlaceOf(s, to)].tabs = @ \cup {t},
            !.active = HomeOf(s, to)]

\* split_window and split_window_from_ui; at the pane limit only the layout
\* was reconciled
Split(s, w) ==
  LET k == HomeOf(s, w)
      r == Reconcile(s, k)
      id == r.open[k].id
      tree == r.layouts[id]
      p == CHOOSE q \in LeafPaths(tree) : tree[q].id = w
      split == [AddPane(r, k) EXCEPT
                  !.layouts[id] = SplitLeaf(tree, p, s.made.windows + 1, r.nextSplit),
                  !.nextSplit = r.nextSplit + 1]
  IN  IF PaneLimitReached(s, k) THEN r ELSE split

\* workspace_for_root and the push that follows it, with its first pane
NewWorkspace(s, root) ==
  LET id == s.made.workspaces + 1
      k == Len(s.open) + 1
      ws == [id |-> id, root |-> root, windows |-> <<>>]
  IN  Reconcile(AddPane([s EXCEPT !.open = Append(@, ws), !.made.workspaces = id], k), k)

\* active_workspace_index after the workspace at k was removed and n are left
ActiveAfterClose(active, k, n) ==
  CASE n = 0 -> 1
    [] n # 0 /\ active > k -> active - 1
    [] OTHER -> IF active > n THEN n ELSE active

\* close_workspace_from_ui from the removal on, to its second persist_state
CloseWorkspace(s, k) ==
  LET ws == s.open[k]
      rest == RemoveAt(s.open, k)
      closed == [StopSessions(s, TabsOf(ws)) EXCEPT
                   !.open = rest,
                   !.closed = @ \cup {ws.id},
                   !.active = ActiveAfterClose(s.active, k, Len(rest))]
      ensured == EnsurePanes(closed)
  IN  IF rest = <<>> THEN ensured ELSE Reconcile(ensured, ensured.active)
------------------------------------------------------------------------------
(* The store. *)

\* persisted_control_state: a layout with a window its workspace has not, or of
\* a workspace neither open nor closed, is not written.
WrittenLayout(s, id) ==
  LET k == PositionOf(s.open, id)
      windows == IF k = 0 THEN {} ELSE ToSet(Ids(s.open[k].windows))
  IN  IF \/ k # 0 /\ WindowsShown(s.layouts[id]) \subseteq windows
         \/ k = 0 /\ id \in s.closed
      THEN s.layouts[id] ELSE NoTree

ControlState(s) ==
  [active |-> IF s.active \in DOMAIN s.open THEN s.open[s.active].id ELSE None,
   closed |-> s.closed,
   layouts |-> [id \in WorkspaceIds |-> WrittenLayout(s, id)]]

\* persist_state, as what it writes, in its order: a workspace is one row, the
\* sessions are one after another
PersistWrites(s) ==
  [i \in DOMAIN s.open |-> [table |-> "workspaces", row |-> s.open[i]]]
  \o <<[table |-> "sessions", row |-> s.terminals],
       [table |-> "control_state", row |-> ControlState(s)]>>

\* remove_terminal_runtime: Store::delete_session of each closed terminal
Deletes(tabs) == <<[table |-> "deleted", row |-> SessionsIn(tabs, "terminal")]>>

\* save_workspace, save_session, save_control_state and delete_session.  An
\* insert-or-replace gives the row a new rowid, so the row goes to the end.
Write(db, w) ==
  CASE w.table = "workspaces" ->
         [db EXCEPT !.workspaces = Append(WithoutIds(@, {w.row.id}), w.row)]
    [] w.table = "sessions" -> [db EXCEPT !.sessions = @ \cup w.row]
    [] w.table = "deleted" -> [db EXCEPT !.sessions = @ \ w.row]
    [] w.table = "control_state" -> [db EXCEPT !.control = <<w.row>>]

\* the store after the first n writes
Written(db, writes) ==
  LET written[n \in 0 .. Len(writes)] ==
        IF n = 0 THEN db ELSE Write(written[n - 1], writes[n])
  IN  written
\* what a crash may leave of a write of several rows
Part(w) == [table: {w.table}, row: SUBSET w.row]

\* restore_pane_layouts: a layout with a leaf that is no window of its
\* workspace is dropped whole; the splits read before that still count.
RestoredLayout(tree, id, rows, closed) ==
  LET k == PositionOf(rows, id)
      windows == IF k = 0 THEN {} ELSE ToSet(Ids(rows[k].windows))
  IN  IF (k # 0 /\ WindowsShown(tree) \subseteq windows) \/ (k = 0 /\ id \in closed)
      THEN tree ELSE NoTree
SplitsRead(tree, id, rows, closed) ==
  LET k == PositionOf(rows, id)
      valid == CASE k # 0 -> ToSet(Ids(rows[k].windows))
                 [] k = 0 /\ id \in closed -> WindowsShown(tree)
                 [] OTHER -> {}
  IN  {tree[p].id : p \in {q \in SplitPaths(tree) :
         \A l \in LeafPaths(tree) : IsPrefix(q, l) => tree[l].id \in valid}}
NextSplitAfterNone(control, rows) == 1                                      \* mutant
NextSplitAfter(control, rows) ==
  1 + Max({1} \cup UNION {SplitsRead(control.layouts[id], id, rows, control.closed) :
                            id \in WorkspaceIds})

\* the index of the stored active workspace; the first one if it is not there
ActiveRestored(rows, id) ==
  IF PositionOf(rows, id) = 0 THEN 1 ELSE PositionOf(rows, id)

\* restore_from_store and what new does after it; made is not state of the
\* program, it keeps ids from being given out twice
RestoredRowsAll(db) == db.workspaces                                        \* mutant
RestoredRows(db) ==
  IF db.control = <<>> THEN db.workspaces
  ELSE WithoutIds(db.workspaces, db.control[1].closed)
Restored(db, made, works) ==
  LET rows == RestoredRows(db)
      blank == [open |-> rows, active |-> 1, closed |-> {},
                terminals |-> db.sessions \cap SessionsIn(AllTabs(rows), "terminal"),
                browsers |-> {}, layouts |-> [id \in WorkspaceIds |-> NoTree],
                nextSplit |-> 1, made |-> made]
      control == db.control[1]
      applied == [blank EXCEPT
        !.closed = control.closed,
        !.layouts = [id \in WorkspaceIds |->
                       RestoredLayout(control.layouts[id], id, rows, control.closed)],
        !.nextSplit = NextSplitAfter(control, rows),
        !.active = ActiveRestored(rows, control.active)]
      s == IF db.control = <<>> THEN blank ELSE applied
  IN  IF rows = <<>> THEN s ELSE EnsureBrowsers(EnsurePanes(s), works)

\* restore_workspace_from_store_for_root: the first stored workspace of the
\* folder that is not open; 0 for none
StoredFor(s, db, root) ==
  SelectInSeq(db.workspaces, LAMBDA ws : ws.root = root /\ ws.id \notin OpenIds(s))
Reopened(s, db, root, works) ==
  LET ws == db.workspaces[StoredFor(s, db, root)]
  IN  EnsurePanes(EnsureBrowsers(
        [s EXCEPT !.closed = @ \ {ws.id},
                  !.open = Append(@, ws),
                  !.active = Len(s.open) + 1,
                  !.terminals = @ \cup (db.sessions \cap SessionsIn(TabsOf(ws), "terminal"))],
        works))
------------------------------------------------------------------------------
NoControlState == <<>>
Init ==
  /\ up = FALSE
  /\ store = [workspaces |-> <<>>, sessions |-> {}, control |-> NoControlState]
  /\ shell = [open |-> <<>>, active |-> 1, closed |-> {}, terminals |-> {},
              browsers |-> {}, layouts |-> [id \in WorkspaceIds |-> NoTree],
              nextSplit |-> 1, made |-> [workspaces |-> 0, windows |-> 0]]
  /\ torn = 0

WithinBounds(s) ==
  /\ s.made.windows <= MaxWindows
  /\ s.terminals \cup s.browsers \subseteq 1 .. MaxTabs

\* A handler that leaves the shell as s and writes these rows to its end, or to
\* a crash before the last of them.
Complete(s, writes) ==
  /\ up' = TRUE
  /\ store' = Written(store, writes)[Len(writes)]
  /\ UNCHANGED torn
Torn(s, writes) ==
  /\ torn < MaxTorn
  /\ up' = FALSE
  /\ \E n \in 0 .. Len(writes) - 1 :
       \/ store' = Written(store, writes)[n]
       \/ /\ writes[n + 1].table \in {"sessions", "deleted"}
          /\ \E w \in Part(writes[n + 1]) : store' = Write(Written(store, writes)[n], w)
  /\ torn' = torn + 1
Handled(s, writes) ==
  /\ WithinBounds(s)
  /\ shell' = s
  /\ Complete(s, writes) \/ Torn(s, writes)
Handle(s) == up /\ Handled(s, PersistWrites(s))

\* An action of the user that is not persisted.
Shown(s) == up /\ shell' = s /\ UNCHANGED <<up, store, torn>>
------------------------------------------------------------------------------
(* The application's life. *)

\* AgentHouseShell::new
Start ==
  /\ ~up
  /\ \E works \in BOOLEAN :
       LET s == Restored(store, shell.made, works)
       IN  Handled(s, PersistWrites(s))

\* The process ends between two steps.
Crash == up /\ up' = FALSE /\ UNCHANGED <<shell, store, torn>>

\* window_board, with every frame
Render == shell.open # <<>> /\ Shown(Reconcile(shell, shell.active))

\* A request that changes nothing here: it reads, is refused, or is about
\* settings, names, split ratios or what runs in a session.
OtherRequest == Handle(shell)

(* Workspaces. *)
OpenAt(root) == SelectInSeq(shell.open, LAMBDA ws : ws.root = root)
ActivateOpen(root) ==
  /\ OpenAt(root) # 0
  /\ Handle(EnsurePanes([shell EXCEPT !.active = OpenAt(root)]))
CreateNew(root) ==
  /\ OpenAt(root) = 0
  /\ shell.made.workspaces < MaxWorkspaces
  /\ Handle(NewWorkspace(shell, root))
ReopenStored(root) ==
  /\ OpenAt(root) = 0
  /\ StoredFor(shell, store, root) # 0
  /\ \E works \in BOOLEAN : Handle(Reopened(shell, store, root, works))

\* create_workspace
CreateWorkspace(root) == ActivateOpen(root) \/ CreateNew(root)

\* create_workspace_for_root
CreateWorkspaceForRoot(root) ==
  \/ ActivateOpen(root)
  \/ ReopenStored(root)
  \/ StoredFor(shell, store, root) = 0 /\ CreateNew(root)

\* close_workspace_from_ui; it persists before and after the removal
CloseWorkspaceFromUi(k) ==
  LET before == Reconcile(shell, k)
      after == CloseWorkspace(before, k)
  IN  up /\ Handled(after, PersistWrites(before) \o PersistWrites(after))

\* activate_workspace and the requests ActivateWorkspace, SetWorkspaceLayout,
\* ActivateWindow, ActivateWindowTab and all that name a session
ActivateWorkspace(k) ==
  Handle([shell EXCEPT !.active = k, !.closed = @ \ {shell.open[k].id}])

\* a right click on a workspace, or the start of its renaming
PointAtWorkspace(k) == Shown([shell EXCEPT !.active = k])
------------------------------------------------------------------------------
(* Windows and tabs. *)

\* create_window, open_terminal_window
CreateWindow(k) == Handle(PushWindow(shell, k))
OpenTerminalWindow(k) == Handle(AddPane(shell, k))

\* open_web_window; the workspace is activated before the web view fails
OpenWebWindow(k) ==
  /\ "web" \in Kinds
  /\ \/ Handle(AddTab(PushWindow(shell, k), shell.made.windows + 1, "web"))
     \/ Handle([shell EXCEPT !.active = k])

\* open_terminal_tab, open_web_tab and the same from the UI
OpenTab(w) == \E kind \in Kinds : Handle(AddTab(shell, w, kind))

SplitWindow(w) == Handle(Split(shell, w))

\* CloseWindow and CloseWindowTab of the control protocol
CloseWindowRequest(w) ==
  up /\ LET s == CloseWindow(shell, w)
        IN  Handled(s, Deletes(WindowOf(shell, w).tabs) \o PersistWrites(s))
CloseTabRequest(w, t) ==
  up /\ LET s == CloseTab(shell, w, t)
        IN  Handled(s, Deletes({t}) \o PersistWrites(s))

\* close_window_tab_from_ui: a window with one tab is closed with it.  The
\* click is on the frame drawn last: the tab may be gone by then, and so may
\* all of the window, when only the panes are ensured.
CloseLastTabFromUi(w) ==
  /\ up
  /\ Cardinality(WindowOf(shell, w).tabs) <= 1
  /\ LET s == EnsurePanes(CloseWindow(shell, w))
     IN  Handled(s, Deletes(WindowOf(shell, w).tabs) \o PersistWrites(s))
CloseTabFromUi(w, t) ==
  /\ up
  /\ Cardinality(WindowOf(shell, w).tabs) > 1
  /\ LET s == EnsurePanes(CloseTab(shell, w, t))
     IN  Handled(s, Deletes({t}) \o PersistWrites(s))
CloseGoneFromUi == Handle(EnsurePanes(shell))

MoveWindowTab(from, t, to) == Handle(MoveTab(shell, from, t, to))

Next ==
  \/ Start \/ Crash \/ Render \/ OtherRequest \/ CloseGoneFromUi
  \/ \E root \in Roots : CreateWorkspace(root) \/ CreateWorkspaceForRoot(root)
  \/ \E k \in DOMAIN shell.open :
       \/ CloseWorkspaceFromUi(k) \/ ActivateWorkspace(k) \/ PointAtWorkspace(k)
       \/ CreateWindow(k) \/ OpenTerminalWindow(k) \/ OpenWebWindow(k)
  \/ \E w \in OpenWindows(shell) :
       \/ OpenTab(w) \/ SplitWindow(w) \/ CloseWindowRequest(w) \/ CloseLastTabFromUi(w)
       \/ \E t \in WindowOf(shell, w).tabs :
            \/ CloseTabRequest(w, t) \/ CloseTabFromUi(w, t)
            \/ \E to \in OpenWindows(shell) : MoveWindowTab(w, t, to)

Spec == Init /\ [][Next]_vars
------------------------------------------------------------------------------
(* Properties. *)

TerminalTabs == SessionsIn(AllTabs(shell.open), "terminal")
WebTabs == SessionsIn(AllTabs(shell.open), "web")

\* No session runs without a tab: whatever closes, moves, crashes and returns,
\* a shell or web view is always reachable from an open workspace.
NoStrayRuntime ==
  up => shell.terminals \subseteq TerminalTabs /\ shell.browsers \subseteq WebTabs

WindowsOfAll == UNION {{<<k, i>> : i \in DOMAIN shell.open[k].windows} : k \in DOMAIN shell.open}
TabsAt(at) == shell.open[at[1]].windows[at[2]].tabs

\* As long as no crash cut a handler short, every terminal tab has its runtime
\* and no tab is in two windows, over closes, moves, splits and restarts.
TabsAreWhole ==
  up /\ torn = 0 => /\ TerminalTabs \subseteq shell.terminals
                    /\ \A a, b \in WindowsOfAll : a # b => TabsAt(a) \cap TabsAt(b) = {}

\* A folder is open in one workspace at most, and none is both open and closed,
\* even after a crash in the middle of a save: two workspaces of one folder can
\* be stored, since a closed one is not looked for by create_workspace.
OneOpenPerFolder ==
  up => /\ \A i, j \in DOMAIN shell.open : shell.open[i].root = shell.open[j].root => i = j
        /\ OpenIds(shell) \cap shell.closed = {}

\* Every pane tree shows each window once and only windows its workspace has
\* (else it would not be saved), and split ids, which a drag of a border names,
\* are used once in all trees and never given out again.
PaneTreesAreSound ==
  up => /\ \A id \in WorkspaceIds : \A p, q \in DOMAIN shell.layouts[id] :
             shell.layouts[id][p] = shell.layouts[id][q] => p = q
        /\ \A i, j \in WorkspaceIds :
             i # j => SplitIds(shell.layouts[i]) \cap SplitIds(shell.layouts[j]) = {}
        /\ \A id \in WorkspaceIds : \A n \in SplitIds(shell.layouts[id]) : n < shell.nextSplit
        /\ \A k \in DOMAIN shell.open :
             WindowsShown(shell.layouts[shell.open[k].id]) \subseteq ToSet(Ids(shell.open[k].windows))

\* The panes that stay keep their places and splits while others come and go,
\* and over closing, reopening and restarting: cut down to the windows that both
\* show, the tree before a step and the tree after it are the same.
PanesKeepTheirPlaces ==
  [][torn' = 0 =>
       \A id \in WorkspaceIds :
         LET common == WindowsShown(shell.layouts[id]) \cap WindowsShown(shell'.layouts[id])
         IN  Prune(shell.layouts[id], common) = Prune(shell'.layouts[id], common)]_vars

\* What window_board draws for a workspace: the windows at their places.
Drawn(s, ws) ==
  LET tree == Reconciled(s.layouts[ws.id], Ids(ws.windows), s.nextSplit).tree
  IN  [p \in LeafPaths(tree) |-> tree[p].id]

\* A start brings back what was open when the application went down between two
\* steps: the same workspaces in the same order, with the same windows, all their
\* tabs and the same panes; it only adds what an empty one lacks.
StartBringsBack ==
  [][~up /\ up' /\ torn' = 0 =>
       /\ Ids(shell'.open) = Ids(shell.open)
       /\ \A k \in DOMAIN shell.open :
            LET old == shell.open[k]
                new == shell'.open[k]
            IN  /\ IsPrefix(Ids(old.windows), Ids(new.windows))
                /\ \A i \in DOMAIN old.windows : old.windows[i].tabs \subseteq new.windows[i].tabs
                /\ old.windows # <<>> => Drawn(shell', new) = Drawn(shell, old)]_vars
=============================================================================
