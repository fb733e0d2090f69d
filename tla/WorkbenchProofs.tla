--------------------------- MODULE WorkbenchProofs ---------------------------
(***************************************************************************)
(* No stray session, whole tabs, one open workspace per folder and sound   *)
(* pane trees, proved for any number of folders, workspaces, windows, tabs *)
(* and crashes.                                                            *)
(*                                                                         *)
(* None of the four is inductive: what a start opens is what was stored.   *)
(* The invariant (SafeNow) speaks of the shell and the store together.     *)
(* Safe: what is open is stored as it is, what is stored is open or        *)
(* closed, and tabs are whole in the store, closed workspaces included.    *)
(* Grounded: stored trees are sound and fit the workspaces stored as       *)
(* closed, and the trees of the shell fit all that is open or stored.      *)
(* The proof goes                                                          *)
(*   1. from the operations on trees and on the shell (Carries, Drops,     *)
(*      Opens; Grows for the trees) over                                   *)
(*   2. what a sequence of writes leaves, done or cut short (Persisted,    *)
(*      Partly), to                                                        *)
(*   3. handlers: what one makes of the shell (Ready, TreesReady) and then *)
(*      writes (Done, Left) keeps the invariant, ended by a crash or not.  *)
(* The recursive functions of the model (the place of a pruned node, the   *)
(* panes filled up to a window, the rows kept, the store after n writes)   *)
(* are unfolded by induction.                                              *)
(***************************************************************************)
EXTENDS Workbench, NaturalInduction, SequenceTheorems

\* A position is one of an element with this id, and none is 0.
LEMMA Positions ==
  ASSUME NEW s, Len(s) \in Nat, NEW id
  PROVE  /\ PositionOf(s, id) \in 0 .. Len(s)
         /\ PositionOf(s, id) # 0 => s[PositionOf(s, id)].id = id
         /\ PositionOf(s, id) = 0 => \A i \in 1 .. Len(s) : s[i].id # id
  <1> DEFINE I == {i \in 1 .. Len(s) : s[i].id = id}
  <1>1. PositionOf(s, id) = IF I # {} THEN Min(I) ELSE 0
    BY DEF PositionOf, SelectInSeq
  <1>2. I # {} => Min(I) \in I
    <2>1. SUFFICES ASSUME I # {} PROVE Min(I) \in I
      OBVIOUS
    <2>2. PICK x \in I : \A y \in I : x <= y
      <3>1. I \in SUBSET Nat
        OBVIOUS
      <3> HIDE DEF I
      <3> QED  BY <2>1, <3>1, Least
    <2> HIDE DEF I
    <2> QED  BY <2>2 DEF Min
  <1> QED  BY <1>1, <1>2

\* The parts a shell has, and what they are.
IsShell(s) ==
  /\ s = [open |-> s.open, active |-> s.active, closed |-> s.closed,
          terminals |-> s.terminals, browsers |-> s.browsers,
          layouts |-> s.layouts, nextSplit |-> s.nextSplit, made |-> s.made]
  /\ s.open \in Seq(Workspaces)
  /\ s.active \in Nat
  /\ s.closed \in SUBSET Nat
  /\ s.terminals \in SUBSET (Nat \ {0})
  /\ s.browsers \in SUBSET (Nat \ {0})
  /\ s.made \in [workspaces: Nat, windows: Nat]

\* An open window is found: a workspace, and a place in it.
Found(s, w) ==
  /\ HomeOf(s, w) \in DOMAIN s.open
  /\ PlaceOf(s, w) \in DOMAIN s.open[HomeOf(s, w)].windows
  /\ WindowOf(s, w).id = w

\* An open workspace, its windows, and their numbering.
LEMMA OpenParts ==
  ASSUME NEW open \in Seq(Workspaces), NEW k \in DOMAIN open
  PROVE  /\ open[k] \in Workspaces
         /\ open[k].windows \in Seq(Windows)
         /\ Len(open[k].windows) \in Nat
         /\ DOMAIN open[k].windows = 1 .. Len(open[k].windows)
         /\ \A i \in DOMAIN open[k].windows : open[k].windows[i] \in Windows
  <1>1. k \in 1 .. Len(open)
    OBVIOUS
  <1>2. open[k] \in Workspaces
    BY <1>1, ElementOfSeq
  <1>3. open[k].windows \in Seq(Windows)
    BY <1>2 DEF Workspaces
  <1>4. ASSUME NEW u \in Seq(Windows)
        PROVE  /\ Len(u) \in Nat /\ DOMAIN u = 1 .. Len(u)
               /\ \A i \in DOMAIN u : u[i] \in Windows
    BY ElementOfSeq
  <1> QED  BY <1>2, <1>3, <1>4

\* A window of an open workspace is where HomeOf and PlaceOf say.
LEMMA OpenIsFound ==
  ASSUME NEW s, s.open \in Seq(Workspaces), NEW w, w \in OpenWindows(s)
  PROVE  Found(s, w)
  <1> DEFINE I == {k \in 1 .. Len(s.open) : PositionOf(s.open[k].windows, w) # 0}
  <1>0. Len(s.open) \in Nat /\ DOMAIN s.open = 1 .. Len(s.open)
    OBVIOUS
  <1>1. PICK k \in DOMAIN s.open : w \in ToSet(Ids(s.open[k].windows))
    BY DEF OpenWindows
  <1>2. PICK i \in DOMAIN s.open[k].windows : s.open[k].windows[i].id = w
    BY <1>1 DEF ToSet, Ids
  <1>3. PositionOf(s.open[k].windows, w) # 0
    BY <1>2, OpenParts, Positions
  <1>4. k \in I /\ I \in SUBSET Nat
    BY <1>0, <1>3
  <1>5. HomeOf(s, w) = Min(I)
    BY <1>4 DEF HomeOf, SelectInSeq
  <1>6. PICK x \in I : \A y \in I : x <= y
    <2> HIDE DEF I
    <2> QED  BY <1>4, Least
  <1>7. Min(I) \in I
    <2> HIDE DEF I
    <2> QED  BY <1>6 DEF Min
  <1>8. /\ HomeOf(s, w) \in DOMAIN s.open
        /\ PositionOf(s.open[HomeOf(s, w)].windows, w) # 0
    BY <1>0, <1>5, <1>7
  <1> QED  BY <1>8, OpenParts, Positions DEF Found, PlaceOf, WindowOf

\* One window's tabs change.
WithTabs(open, k, i, tabs) == [open EXCEPT ![k].windows[i].tabs = tabs]

\* New tabs for one window leave all ids, and all other windows, as they were.
LEMMA TabsChange ==
  ASSUME NEW open \in Seq(Workspaces), NEW k \in DOMAIN open, NEW i \in DOMAIN open[k].windows,
         NEW tabs \in SUBSET Tabs, NEW new, new = WithTabs(open, k, i, tabs)
  PROVE  /\ new \in Seq(Workspaces) /\ Len(new) = Len(open) /\ DOMAIN new = DOMAIN open
         /\ \A j \in DOMAIN open :
              /\ new[j].id = open[j].id /\ new[j].root = open[j].root
              /\ Len(new[j].windows) = Len(open[j].windows)
              /\ DOMAIN new[j].windows = DOMAIN open[j].windows
              /\ \A l \in DOMAIN open[j].windows :
                   /\ new[j].windows[l].id = open[j].windows[l].id
                   /\ new[j].windows[l].tabs = IF j = k /\ l = i THEN tabs
                                               ELSE open[j].windows[l].tabs
  <1> DEFINE u == open[k].windows[i]
             v == [u EXCEPT !.tabs = tabs]
             us == open[k].windows
             vs == [us EXCEPT ![i] = v]
             x == [open[k] EXCEPT !.windows = vs]
  <1>1. /\ u \in Windows /\ us \in Seq(Windows) /\ open[k] \in Workspaces
        /\ i \in 1 .. Len(us)
    BY OpenParts
  <1>2. v \in Windows /\ v.id = u.id /\ v.tabs = tabs
    BY <1>1 DEF Windows
  <1>3. vs \in Seq(Windows) /\ Len(vs) = Len(us) /\ DOMAIN vs = DOMAIN us
        /\ \A l \in DOMAIN us : vs[l] = IF l = i THEN v ELSE us[l]
    <2> HIDE DEF v, us
    <2> QED  BY <1>1, <1>2
  <1>4. x \in Workspaces /\ x.id = open[k].id /\ x.root = open[k].root /\ x.windows = vs
    <2> HIDE DEF vs
    <2> QED  BY <1>1, <1>3 DEF Workspaces
  <1>5. new = [open EXCEPT ![k] = x]
    BY DEF WithTabs
  <1>6. new \in Seq(Workspaces) /\ Len(new) = Len(open) /\ DOMAIN new = DOMAIN open
        /\ \A j \in DOMAIN open : new[j] = IF j = k THEN x ELSE open[j]
    <2> HIDE DEF x
    <2> QED  BY <1>4, <1>5
  <1> HIDE DEF x, vs, v
  <1> QED  BY <1>2, <1>3, <1>4, <1>6
------------------------------------------------------------------------------
\* No id twice: a row of the table replaces the one of its id.
Unique(s) == \A i, j \in DOMAIN s : s[i].id = s[j].id => i = j

\* The parts a store has, and what they are.
IsStore(db) ==
  /\ db = [workspaces |-> db.workspaces, sessions |-> db.sessions, control |-> db.control]
  /\ db.workspaces \in Seq(Workspaces) /\ Unique(db.workspaces)
  /\ db.sessions \in SUBSET (Nat \ {0})
  /\ db.control = NoControlState \/ db.control = <<db.control[1]>>
  /\ db.control # NoControlState => db.control[1].closed \in SUBSET Nat

\* Finitely many ids are used, so that one is left to give out.
Bounded(s) == \E b \in Nat : \A n \in UsedTabs(s) : n <= b

\* A tab is in one of the windows.
LEMMA TabsAreIn ==
  ASSUME NEW open \in Seq(Workspaces)
  PROVE  /\ \A t : t \in AllTabs(open) <=>
              \E k \in DOMAIN open : \E i \in DOMAIN open[k].windows : t \in open[k].windows[i].tabs
         /\ AllTabs(open) \in SUBSET Tabs
  <1>1. \A t : t \in AllTabs(open) <=>
           \E k \in DOMAIN open : \E i \in DOMAIN open[k].windows : t \in open[k].windows[i].tabs
    BY DEF AllTabs, TabsOf
  <1>2. ASSUME NEW k \in DOMAIN open, NEW i \in DOMAIN open[k].windows
        PROVE  open[k].windows[i].tabs \in SUBSET Tabs
    BY OpenParts DEF Windows
  <1> QED  BY <1>1, <1>2

\* Ids of sessions are numbers.
LEMMA UsedAreNumbers ==
  ASSUME NEW s, IsShell(s), IsStore(store)
  PROVE  UsedTabs(s) \in SUBSET (Nat \ {0})
  <1>1. \A t \in AllTabs(s.open) \cup AllTabs(store.workspaces) : t.id \in Nat \ {0}
    BY TabsAreIn DEF IsShell, IsStore, Tabs
  <1> QED  BY <1>1 DEF UsedTabs, IsShell, IsStore

\* A new tab gets an id that nothing open, running or stored has.
LEMMA NewTabIsNew ==
  ASSUME NEW s, IsShell(s), IsStore(store), Bounded(s)
  PROVE  NewTab(s) \in Nat \ {0} /\ NewTab(s) \notin UsedTabs(s)
  <1> DEFINE used == UsedTabs(s)
             U == used \cup {0}
             F == (1 .. Max(U) + 1) \ used
  <1>1. used \in SUBSET (Nat \ {0})
    BY UsedAreNumbers
  <1>2. PICK b \in Nat : \A n \in used : n <= b
    BY DEF Bounded
  <1> HIDE DEF used
  <1>3. U \in SUBSET Nat /\ U # {} /\ \A n \in U : n <= b
    BY <1>1, <1>2
  <1>4. PICK m \in U : \A n \in U : n <= m
    <2> HIDE DEF U
    <2> QED  BY <1>3, Greatest
  <1>5. Max(U) \in U /\ \A n \in U : n <= Max(U)
    <2> HIDE DEF U
    <2> QED  BY <1>4 DEF Max
  <1>6. Max(U) + 1 \in F /\ F \in SUBSET Nat
    <2>1. Max(U) \in Nat /\ used \subseteq U
      BY <1>3, <1>5
    <2>2. Max(U) + 1 \notin used
      BY <1>3, <1>5, <2>1
    <2> HIDE DEF U
    <2> QED  BY <2>1, <2>2
  <1>7. PICK x \in F : \A y \in F : x <= y
    <2> HIDE DEF F
    <2> QED  BY <1>6, Least
  <1>8. Min(F) \in F
    <2> HIDE DEF F
    <2> QED  BY <1>7 DEF Min
  <1>9. NewTab(s) = Min(F)
    <2> USE DEF used
    <2> QED  BY DEF NewTab
  <1> QED  BY <1>1, <1>3, <1>5, <1>8, <1>9 DEF used

\* A value with the parts of a shell is one.
ShellOf(open, active, closed, terminals, browsers, layouts, nextSplit, made) ==
  [open |-> open, active |-> active, closed |-> closed, terminals |-> terminals,
   browsers |-> browsers, layouts |-> layouts, nextSplit |-> nextSplit, made |-> made]

\* A shell put together from its parts has these parts.
LEMMA ShellOfParts ==
  ASSUME NEW open \in Seq(Workspaces), NEW active \in Nat, NEW closed \in SUBSET Nat,
         NEW terminals \in SUBSET (Nat \ {0}), NEW browsers \in SUBSET (Nat \ {0}),
         NEW layouts, NEW nextSplit, NEW made \in [workspaces: Nat, windows: Nat],
         NEW r, r = ShellOf(open, active, closed, terminals, browsers, layouts, nextSplit, made)
  PROVE  /\ IsShell(r) /\ r.open = open /\ r.active = active /\ r.closed = closed
         /\ r.terminals = terminals /\ r.browsers = browsers /\ r.layouts = layouts
         /\ r.nextSplit = nextSplit /\ r.made = made
  <1>1. /\ r.open = open /\ r.active = active /\ r.closed = closed
        /\ r.terminals = terminals /\ r.browsers = browsers /\ r.layouts = layouts
        /\ r.nextSplit = nextSplit /\ r.made = made
    BY DEF ShellOf
  <1>2. r = [open |-> r.open, active |-> r.active, closed |-> r.closed,
             terminals |-> r.terminals, browsers |-> r.browsers, layouts |-> r.layouts,
             nextSplit |-> r.nextSplit, made |-> r.made]
    BY <1>1 DEF ShellOf
  <1> QED  BY <1>1, <1>2 DEF IsShell

\* The tab AddTab adds.
TabFor(s, kind) == [id |-> NewTab(s), kind |-> kind]

\* What AddTab makes of the parts of a shell.
TabAdded(s, w, kind, r) ==
  /\ IsShell(r)
  /\ r.open = WithTabs(s.open, HomeOf(s, w), PlaceOf(s, w),
                       WindowOf(s, w).tabs \cup {TabFor(s, kind)})
  /\ r.closed = s.closed /\ r.made = s.made
  /\ r.layouts = s.layouts /\ r.nextSplit = s.nextSplit /\ r.active = HomeOf(s, w)
  /\ r.terminals = IF kind = "terminal" THEN s.terminals \cup {NewTab(s)} ELSE s.terminals
  /\ r.browsers = IF kind = "web" THEN s.browsers \cup {NewTab(s)} ELSE s.browsers

\* AddTab, field by field.
LEMMA AddTabEffect ==
  ASSUME NEW s, IsShell(s), NEW w, Found(s, w), NEW kind, TabFor(s, kind) \in Tabs
  PROVE  TabAdded(s, w, kind, AddTab(s, w, kind))
  <1> DEFINE k == HomeOf(s, w)
             i == PlaceOf(s, w)
             t == TabFor(s, kind)
             r == AddTab(s, w, kind)
             open == [s.open EXCEPT ![k].windows[i].tabs = @ \cup {t}]
             terminals == IF kind = "terminal" THEN s.terminals \cup {t.id} ELSE s.terminals
             browsers == IF kind = "web" THEN s.browsers \cup {t.id} ELSE s.browsers
  <1>0. t.id = NewTab(s)
    BY DEF TabFor
  <1>1. open = WithTabs(s.open, k, i, WindowOf(s, w).tabs \cup {t})
    BY DEF WithTabs, WindowOf
  <1>2. WindowOf(s, w).tabs \cup {t} \in SUBSET Tabs
    BY OpenParts DEF IsShell, Found, WindowOf, Windows
  <1>3. open \in Seq(Workspaces)
    <2> HIDE DEF open, t
    <2> QED  BY <1>1, <1>2, TabsChange DEF Found, IsShell
  <1>4. r = [s EXCEPT !.open = open, !.active = k, !.terminals = terminals, !.browsers = browsers]
    BY DEF AddTab, TabFor
  <1>5. k \in Nat
    BY DEF Found, IsShell
  <1>6. terminals \in SUBSET (Nat \ {0}) /\ browsers \in SUBSET (Nat \ {0})
    BY DEF IsShell, Tabs
  <1>7. r = ShellOf(open, k, s.closed, terminals, browsers, s.layouts, s.nextSplit, s.made)
    <2> HIDE DEF open, k, terminals, browsers
    <2> QED  BY <1>4 DEF IsShell, ShellOf
  <1>8. s.closed \in SUBSET Nat /\ s.made \in [workspaces: Nat, windows: Nat]
    BY DEF IsShell
  <1> HIDE DEF open, k, terminals, browsers, r, t
  <1>9. /\ IsShell(r) /\ r.open = open /\ r.closed = s.closed /\ r.made = s.made
        /\ r.layouts = s.layouts /\ r.nextSplit = s.nextSplit /\ r.active = k
        /\ r.terminals = terminals /\ r.browsers = browsers
    BY <1>3, <1>5, <1>6, <1>7, <1>8, ShellOfParts
  <1> QED  BY <1>0, <1>1, <1>9 DEF k, terminals, browsers, r, t, TabAdded
------------------------------------------------------------------------------
\* No tab is in two windows.
Disjoint(open) ==
  \A k, l \in DOMAIN open :
    \A i \in DOMAIN open[k].windows : \A j \in DOMAIN open[l].windows :
      \A t : t \in open[k].windows[i].tabs /\ t \in open[l].windows[j].tabs => k = l /\ i = j

\* What runs has a tab.
NoStray(s) ==
  /\ s.terminals \subseteq SessionsIn(AllTabs(s.open), "terminal")
  /\ s.browsers \subseteq SessionsIn(AllTabs(s.open), "web")

\* Every terminal tab runs.
AllRun(s) == SessionsIn(AllTabs(s.open), "terminal") \subseteq s.terminals

\* What is stored and not open has no tab of what is open.
Apart(s) ==
  \A j \in DOMAIN store.workspaces :
    store.workspaces[j].id \notin OpenIds(s)
      => TabsOf(store.workspaces[j]) \cap AllTabs(s.open) = {}

\* What holds of a shell after any crash, and what holds as long as there was none.
Sound(s) == IsShell(s) /\ Bounded(s) /\ NoStray(s)
Whole(s) == AllRun(s) /\ Disjoint(s.open) /\ Apart(s)

\* The same workspaces at the same places, and the same windows in them.
SameIds(open, new) ==
  /\ Len(new) = Len(open)
  /\ \A k \in DOMAIN open : new[k].id = open[k].id /\ new[k].root = open[k].root
SameWindows(open, new) ==
  /\ SameIds(open, new)
  /\ \A k \in DOMAIN open :
       /\ Len(new[k].windows) = Len(open[k].windows)
       /\ \A i \in DOMAIN open[k].windows : new[k].windows[i].id = open[k].windows[i].id

\* The same places, the same ids.
LEMMA SameOpenIds ==
  ASSUME NEW s, NEW r, s.open \in Seq(Workspaces), r.open \in Seq(Workspaces),
         SameIds(s.open, r.open)
  PROVE  OpenIds(r) = OpenIds(s) /\ DOMAIN r.open = DOMAIN s.open
  <1>1. DOMAIN r.open = DOMAIN s.open
    BY DEF SameIds
  <1> QED  BY <1>1 DEF OpenIds, ToSet, Ids, SameIds

\* The ids of what is open.
LEMMA OpenIdsParts ==
  ASSUME NEW s, s.open \in Seq(Workspaces)
  PROVE  /\ \A k \in DOMAIN s.open : s.open[k].id \in OpenIds(s) /\ s.open[k] \in ToSet(s.open)
         /\ \A id \in OpenIds(s) : \E k \in DOMAIN s.open : id = s.open[k].id
         /\ \A ws \in ToSet(s.open) : \E k \in DOMAIN s.open : ws = s.open[k]
  BY DEF OpenIds, ToSet, Ids

\* A tab in another or no more place.
LEMMA AllTabsChange ==
  ASSUME NEW open \in Seq(Workspaces), NEW k \in DOMAIN open, NEW i \in DOMAIN open[k].windows,
         NEW tabs \in SUBSET Tabs, NEW new, new = WithTabs(open, k, i, tabs)
  PROVE  /\ AllTabs(new) \subseteq AllTabs(open) \cup tabs
         /\ AllTabs(open) \subseteq AllTabs(new) \cup open[k].windows[i].tabs
         /\ tabs \subseteq AllTabs(new)
  <1>1. /\ new \in Seq(Workspaces) /\ DOMAIN new = DOMAIN open
        /\ \A j \in DOMAIN open :
             /\ DOMAIN new[j].windows = DOMAIN open[j].windows
             /\ \A l \in DOMAIN open[j].windows :
                  new[j].windows[l].tabs = IF j = k /\ l = i THEN tabs
                                           ELSE open[j].windows[l].tabs
    BY TabsChange
  <1>2. \A t : t \in AllTabs(new) <=>
           \E j \in DOMAIN open : \E l \in DOMAIN open[j].windows : t \in new[j].windows[l].tabs
    BY <1>1, TabsAreIn
  <1>3. \A t : t \in AllTabs(open) <=>
           \E j \in DOMAIN open : \E l \in DOMAIN open[j].windows : t \in open[j].windows[l].tabs
    BY TabsAreIn
  <1>4. AllTabs(new) \subseteq AllTabs(open) \cup tabs
    BY <1>1, <1>2, <1>3
  <1>5. ASSUME NEW t \in AllTabs(open), t \notin open[k].windows[i].tabs PROVE t \in AllTabs(new)
    BY <1>1, <1>2, <1>3, <1>5
  <1>6. tabs \subseteq AllTabs(new)
    BY <1>1, <1>2
  <1> QED  BY <1>4, <1>5, <1>6

\* add_terminal_tab_to_window_with_cwd and open_web_tab start one session with its tab.
LEMMA AddTabKeeps ==
  ASSUME NEW s, Sound(s), IsStore(store), NEW w, Found(s, w), NEW kind \in Kinds,
         NEW r, r = AddTab(s, w, kind)
  PROVE  /\ Sound(r) /\ SameWindows(s.open, r.open)
         /\ r.closed = s.closed /\ r.made = s.made
         /\ r.layouts = s.layouts /\ r.nextSplit = s.nextSplit /\ r.active = HomeOf(s, w)
         /\ Whole(s) => Whole(r)
  <1> DEFINE k == HomeOf(s, w)
             i == PlaceOf(s, w)
             t == TabFor(s, kind)
             tabs == WindowOf(s, w).tabs \cup {t}
  <1>1. NewTab(s) \in Nat \ {0} /\ NewTab(s) \notin UsedTabs(s)
    BY NewTabIsNew DEF Sound
  <1>2. kind \in {"terminal", "web"}
    BY WorkbenchAssumption
  <1>3. t \in Tabs
    BY <1>1 DEF Tabs, TabFor
  <1>c. t.id = NewTab(s) /\ t.kind = kind
    BY DEF TabFor
  <1>4. /\ IsShell(r) /\ r.open = WithTabs(s.open, k, i, tabs)
        /\ r.closed = s.closed /\ r.made = s.made
        /\ r.layouts = s.layouts /\ r.nextSplit = s.nextSplit /\ r.active = k
        /\ r.terminals = IF kind = "terminal" THEN s.terminals \cup {t.id} ELSE s.terminals
        /\ r.browsers = IF kind = "web" THEN s.browsers \cup {t.id} ELSE s.browsers
    <2>1. IsShell(s) /\ TabFor(s, kind) \in Tabs
      BY <1>3 DEF Sound
    <2> HIDE DEF t
    <2>2. TabAdded(s, w, kind, r)
      BY <2>1, AddTabEffect
    <2> QED  BY <1>c, <2>2 DEF TabAdded, t
  <1>5. /\ s.open \in Seq(Workspaces) /\ r.open \in Seq(Workspaces)
        /\ k \in DOMAIN s.open /\ i \in DOMAIN s.open[k].windows
    BY <1>4 DEF Sound, IsShell, Found
  <1>6. WindowOf(s, w).tabs = s.open[k].windows[i].tabs
        /\ s.open[k].windows[i].tabs \in SUBSET Tabs
    BY <1>5, OpenParts DEF WindowOf, Windows
  <1>a. tabs \in SUBSET Tabs
    BY <1>3, <1>6
  <1> HIDE DEF k, i, t
  <1>b. /\ DOMAIN r.open = DOMAIN s.open /\ Len(r.open) = Len(s.open)
        /\ \A j \in DOMAIN s.open :
             /\ r.open[j].id = s.open[j].id /\ r.open[j].root = s.open[j].root
             /\ Len(r.open[j].windows) = Len(s.open[j].windows)
             /\ DOMAIN r.open[j].windows = DOMAIN s.open[j].windows
             /\ \A l \in DOMAIN s.open[j].windows :
                  /\ r.open[j].windows[l].id = s.open[j].windows[l].id
                  /\ r.open[j].windows[l].tabs = IF j = k /\ l = i THEN tabs
                                                 ELSE s.open[j].windows[l].tabs
    <2> HIDE DEF tabs
    <2> QED  BY <1>a, <1>4, <1>5, TabsChange, SMTT(20)
  <1>d. ASSUME NEW j \in DOMAIN s.open, NEW l \in DOMAIN s.open[j].windows, NEW u
        PROVE  u \in r.open[j].windows[l].tabs
                 <=> u \in s.open[j].windows[l].tabs \/ (j = k /\ l = i /\ u = t)
    <2>1. CASE j = k /\ l = i
      <3>1. r.open[j].windows[l].tabs = s.open[j].windows[l].tabs \cup {t}
        BY <1>b, <1>6, <2>1
      <3> QED  BY <2>1, <3>1
    <2>2. CASE ~(j = k /\ l = i)
      BY <1>b, <2>2
    <2> QED  BY <2>1, <2>2
  <1>7. /\ AllTabs(r.open) \subseteq AllTabs(s.open) \cup tabs
        /\ AllTabs(s.open) \subseteq AllTabs(r.open) \cup s.open[k].windows[i].tabs
        /\ tabs \subseteq AllTabs(r.open)
    <2> HIDE DEF tabs
    <2> QED  BY <1>a, <1>4, <1>5, AllTabsChange
  <1>8. s.open[k].windows[i].tabs \subseteq AllTabs(s.open)
    BY <1>5, TabsAreIn
  <1>9. AllTabs(r.open) = AllTabs(s.open) \cup {t}
    BY <1>6, <1>7, <1>8
  <1>10. NoStray(r)
    <2>1. \A n \in r.terminals : \E u \in AllTabs(r.open) : u.kind = "terminal" /\ u.id = n
      BY <1>c, <1>2, <1>4, <1>9 DEF Sound, NoStray, SessionsIn
    <2>2. \A n \in r.browsers : \E u \in AllTabs(r.open) : u.kind = "web" /\ u.id = n
      <3>1. \A n \in s.browsers : \E u \in AllTabs(s.open) : u.kind = "web" /\ u.id = n
        BY DEF Sound, NoStray, SessionsIn
      <3> QED  BY <1>c, <1>4, <1>9, <3>1
    <2> QED  BY <2>1, <2>2 DEF NoStray, SessionsIn
  <1>11. Bounded(r)
    <2>1. UsedTabs(r) \subseteq UsedTabs(s) \cup {NewTab(s)}
      <3>1. /\ r.terminals \subseteq s.terminals \cup {NewTab(s)}
            /\ r.browsers \subseteq s.browsers \cup {NewTab(s)}
        BY <1>c, <1>4
      <3>2. {u.id : u \in AllTabs(r.open)} \subseteq {u.id : u \in AllTabs(s.open)} \cup {NewTab(s)}
        BY <1>c, <1>9
      <3> QED  BY <3>1, <3>2 DEF UsedTabs
    <2>2. PICK b \in Nat : \A n \in UsedTabs(s) : n <= b
      BY DEF Sound, Bounded
    <2>3. UsedTabs(s) \in SUBSET Nat
      BY UsedAreNumbers DEF Sound
    <2>4. /\ b + NewTab(s) \in Nat
          /\ \A n \in UsedTabs(r) : n <= b + NewTab(s)
      BY <1>1, <2>1, <2>2, <2>3
    <2> QED  BY <2>4 DEF Bounded
  <1>12. SameWindows(s.open, r.open)
    BY <1>b DEF SameWindows, SameIds
  <1>13. ASSUME Whole(s) PROVE Whole(r)
    <2>1. AllRun(r)
      BY <1>c, <1>2, <1>4, <1>9, <1>13 DEF Whole, AllRun, SessionsIn
    <2>2. t \notin AllTabs(s.open) /\ t \notin AllTabs(store.workspaces)
      BY <1>c, <1>1 DEF UsedTabs
    <2>3. Disjoint(r.open)
      <3>1. \A l \in DOMAIN s.open : \A j \in DOMAIN s.open[l].windows :
               t \notin s.open[l].windows[j].tabs
        BY <1>5, <2>2, TabsAreIn
      <3>2. SUFFICES ASSUME NEW x \in DOMAIN s.open, NEW y \in DOMAIN s.open,
                            NEW l \in DOMAIN s.open[x].windows,
                            NEW j \in DOMAIN s.open[y].windows, NEW u,
                            u \in r.open[x].windows[l].tabs, u \in r.open[y].windows[j].tabs
                     PROVE  x = y /\ l = j
        BY <1>b, SMTT(20) DEF Disjoint
      <3>3. CASE u = t
        BY <1>d, <3>1, <3>2, <3>3
      <3>4. CASE u # t
        <4>1. u \in s.open[x].windows[l].tabs /\ u \in s.open[y].windows[j].tabs
          BY <1>d, <3>2, <3>4
        <4> QED  BY <1>13, <4>1 DEF Whole, Disjoint
      <3> QED  BY <3>3, <3>4
    <2>4. Apart(r)
      <3>1. OpenIds(r) = OpenIds(s)
        BY <1>5, <1>12, SameOpenIds DEF SameWindows
      <3>2. \A j \in DOMAIN store.workspaces : TabsOf(store.workspaces[j]) \subseteq AllTabs(store.workspaces)
        BY DEF AllTabs
      <3> QED  BY <1>9, <1>13, <2>2, <3>1, <3>2 DEF Whole, Apart
    <2> QED  BY <2>1, <2>3, <2>4 DEF Whole
  <1> QED  BY <1>4, <1>10, <1>11, <1>12, <1>13 DEF Sound, k
------------------------------------------------------------------------------
(* Trees of panes. *)
Nodes == [split: BOOLEAN, id: Nat]

\* A tree on paths that has no pane and no split twice.
IsTree(t) ==
  /\ DOMAIN t \subseteq Seq(Nat)
  /\ t \in [DOMAIN t -> Nodes]
  /\ \A p, q \in DOMAIN t : t[p] = t[q] => p = q

\* What a tree shows, and what it is split by.
LEMMA TreeParts ==
  ASSUME NEW t
  PROVE  /\ \A w : w \in WindowsShown(t) <=> \E p \in DOMAIN t : ~t[p].split /\ t[p].id = w
         /\ \A n : n \in SplitIds(t) <=> \E p \in DOMAIN t : t[p].split /\ t[p].id = n
  BY DEF WindowsShown, SplitIds, LeafPaths, SplitPaths

LEMMA NodeParts ==
  ASSUME NEW n \in Nat
  PROVE  /\ LeafNode(n) \in Nodes /\ ~LeafNode(n).split /\ LeafNode(n).id = n
         /\ SplitNode(n) \in Nodes /\ SplitNode(n).split /\ SplitNode(n).id = n
         /\ \A m \in Nodes : m.split => m = SplitNode(m.id)
         /\ \A m \in Nodes : ~m.split => m = LeafNode(m.id)
  BY DEF Nodes, LeafNode, SplitNode

\* The tree without panes.
LEMMA NoTreeIsTree ==
  IsTree(NoTree) /\ WindowsShown(NoTree) = {} /\ SplitIds(NoTree) = {}
  <1>1. DOMAIN NoTree = {} /\ NoTree \in [DOMAIN NoTree -> Nodes]
    BY DEF NoTree
  <1> QED  BY <1>1, TreeParts DEF IsTree

\* On the paths D, u has nodes of t, each once.
IsPart(t, D, from, u) ==
  /\ D \subseteq Seq(Nat)
  /\ \A q \in D : from[q] \in DOMAIN t
  /\ \A p, q \in D : from[p] = from[q] => p = q
  /\ u \in [D -> Nodes]
  /\ \A q \in D : u[q] = t[from[q]]

\* A tree of nodes of another one, each once, is a tree.
LEMMA PartOfTree ==
  ASSUME NEW t, IsTree(t), NEW D, NEW from, NEW u, IsPart(t, D, from, u)
  PROVE  /\ IsTree(u)
         /\ SplitIds(u) \subseteq SplitIds(t)
         /\ \A w \in WindowsShown(u) : \E q \in D : ~t[from[q]].split /\ t[from[q]].id = w
  <1> /\ D \subseteq Seq(Nat) /\ u \in [D -> Nodes] /\ \A q \in D : u[q] = t[from[q]]
      /\ \A q \in D : from[q] \in DOMAIN t
      /\ \A p, q \in D : from[p] = from[q] => p = q
    BY DEF IsPart
  <1>a. \A x, y \in DOMAIN t : t[x] = t[y] => x = y
    BY DEF IsTree
  <1>b. \A p, q \in D : u[p] = u[q] => p = q
    BY <1>a
  <1>1. IsTree(u)
    BY <1>b DEF IsTree
  <1>2. SplitIds(u) \subseteq SplitIds(t)
    BY TreeParts
  <1> QED  BY <1>1, <1>2, TreeParts

\* A node moves to a path.
LEMMA NewPathIsPath ==
  ASSUME NEW p \in Seq(Nat), NEW forks
  PROVE  NewPath(p, forks) \in Seq(Nat)
  <1> DEFINE S == Seq(Nat)
             len == Len(p)
             one(n, r) == IF n \in 1 .. len /\ SubSeq(p, 1, n - 1) \in forks
                          THEN Append(r, p[n]) ELSE r
             step == [n \in Nat |-> [r \in S |-> one(n, r)]]
             Is(f) == f = [n \in 0 .. len |->
                             IF n = 0 THEN <<>>
                             ELSE IF SubSeq(p, 1, n - 1) \in forks THEN Append(f[n - 1], p[n])
                                  ELSE f[n - 1]]
  <1>1. len \in Nat /\ \A n \in 1 .. len : p[n] \in Nat
    OBVIOUS
  <1>2. ASSUME NEW n \in Nat, NEW r \in S PROVE one(n, r) \in S
    BY <1>1
  <1>3. step \in [Nat -> [S -> S]]
    <2> HIDE DEF one
    <2> QED  BY <1>2
  <1>4. <<>> \in S
    OBVIOUS
  <1>5. PICK f \in [0 .. len -> S] : Follows(f, <<>>, step, len)
    <2> HIDE DEF step, S, len
    <2> QED  BY <1>1, <1>3, <1>4, FiniteRecursion
  <1> HIDE DEF S, len
  <1>6. ASSUME NEW n \in 1 .. len
        PROVE  f[n] = IF SubSeq(p, 1, n - 1) \in forks THEN Append(f[n - 1], p[n]) ELSE f[n - 1]
    <2>1. f[n] = step[n][f[n - 1]]
      BY <1>5 DEF Follows
    <2>2. n \in Nat /\ n - 1 \in 0 .. len
      BY <1>1
    <2>3. f[n - 1] \in S
      BY <1>5, <2>2
    <2>4. step[n][f[n - 1]] = one(n, f[n - 1])
      BY <2>2, <2>3
    <2> QED  BY <2>1, <2>4
  <1>7. Is(f)
    <2>1. f[0] = <<>>
      BY <1>5 DEF Follows
    <2>2. \A n \in 0 .. len :
            f[n] = IF n = 0 THEN <<>>
                   ELSE IF SubSeq(p, 1, n - 1) \in forks THEN Append(f[n - 1], p[n]) ELSE f[n - 1]
      <3> TAKE n \in 0 .. len
      <3>1. CASE n = 0
        BY <2>1, <3>1
      <3>2. CASE n # 0
        <4>1. n \in 1 .. len
          BY <1>1, <3>2
        <4> QED  BY <1>6, <3>2, <4>1
      <3> QED  BY <3>1, <3>2
    <2>3. f = [n \in 0 .. len |-> f[n]]
      BY <1>5
    <2> QED  BY <2>2, <2>3
  <1> DEFINE path == CHOOSE g : Is(g)
  <1>8. NewPath(p, forks) = path[len]
    BY DEF NewPath, len
  <1>9. Is(path)
    BY <1>7
  <1> HIDE DEF path
  <1> DEFINE T == {n \in 0 .. len : path[n] = f[n]}
  <1>10. /\ \A n \in 0 .. len : path[n] = IF n = 0 THEN <<>>
              ELSE IF SubSeq(p, 1, n - 1) \in forks THEN Append(path[n - 1], p[n]) ELSE path[n - 1]
         /\ \A n \in 0 .. len : f[n] = IF n = 0 THEN <<>>
              ELSE IF SubSeq(p, 1, n - 1) \in forks THEN Append(f[n - 1], p[n]) ELSE f[n - 1]
    BY <1>7, <1>9
  <1>11. 0 \in T
    BY <1>1, <1>10
  <1>a. ASSUME NEW n \in 1 .. len, n - 1 \in T PROVE n \in T
    <2>1. n \in 0 .. len /\ n # 0 /\ path[n - 1] = f[n - 1]
      BY <1>1, <1>a
    <2> QED  BY <1>10, <2>1
  <1>12. 0 .. len \subseteq T
    <2> HIDE DEF T
    <2> QED  BY <1>1, <1>11, <1>a, BoundedInduction
  <1>13. path[len] = f[len] /\ len \in 0 .. len
    BY <1>1, <1>12
  <1> QED  BY <1>5, <1>8, <1>13 DEF S

\* Pruning keeps nodes of the tree only, and panes only of these windows.
LEMMA PruneKeeps ==
  ASSUME NEW t, IsTree(t), NEW valid
  PROVE  /\ IsTree(Prune(t, valid))
         /\ SplitIds(Prune(t, valid)) \subseteq SplitIds(t)
         /\ WindowsShown(Prune(t, valid)) \subseteq valid
  <1> DEFINE leaves == {p \in LeafPaths(t) : t[p].id \in valid}
             alive(p) == \E l \in leaves : IsPrefix(p, l)
             forks == {p \in SplitPaths(t) : alive(Append(p, 1)) /\ alive(Append(p, 2))}
             kept == leaves \cup forks
             D == {NewPath(p, forks) : p \in kept}
             from == [q \in D |-> CHOOSE p \in kept : NewPath(p, forks) = q]
             u == Prune(t, valid)
  <1>1. u = [q \in D |-> t[from[q]]]
    BY DEF Prune, PruneKeeping
  <1>2. /\ \A p \in leaves : p \in DOMAIN t /\ ~t[p].split /\ t[p].id \in valid
        /\ \A p \in forks : p \in DOMAIN t /\ t[p].split
    BY DEF LeafPaths, SplitPaths
  <1>3. kept \subseteq DOMAIN t /\ kept \subseteq Seq(Nat)
    BY <1>2 DEF IsTree
  <1>k. \A p \in kept : p \in leaves \/ p \in forks
    OBVIOUS
  <1> HIDE DEF leaves, alive, forks, kept
  <1>4. D \subseteq Seq(Nat)
    BY <1>3, NewPathIsPath
  <1>5. \A q \in D : from[q] \in kept /\ NewPath(from[q], forks) = q
    OBVIOUS
  <1> HIDE DEF D, from, u
  <1>6. /\ IsTree(u) /\ SplitIds(u) \subseteq SplitIds(t)
        /\ \A w \in WindowsShown(u) : \E q \in D : ~t[from[q]].split /\ t[from[q]].id = w
    <2>1. \A q \in D : from[q] \in DOMAIN t
      BY <1>3, <1>5
    <2>2. \A p, q \in D : from[p] = from[q] => p = q
      BY <1>5
    <2>3. \A q \in D : t[from[q]] \in Nodes
      BY <2>1 DEF IsTree
    <2>4. u \in [D -> Nodes] /\ \A q \in D : u[q] = t[from[q]]
      BY <1>1, <2>3
    <2>5. IsPart(t, D, from, u)
      BY <1>4, <2>1, <2>2, <2>4 DEF IsPart
    <2> QED  BY <2>5, PartOfTree
  <1>7. \A w \in WindowsShown(u) : w \in valid
    BY <1>2, <1>5, <1>6, <1>k
  <1> QED  BY <1>6, <1>7 DEF u

\* A path in the first half of a new root.
LEMMA FirstHalf ==
  ASSUME NEW q \in Seq(Nat)
  PROVE  /\ <<1>> \o q \in Seq(Nat) /\ Tail(<<1>> \o q) = q
         /\ <<1>> \o q # <<>> /\ <<1>> \o q # <<2>>
  <1> DEFINE r == <<1>> \o q
  <1>1. r \in Seq(Nat) /\ Len(r) = 1 + Len(q) /\ r[1] = 1
        /\ \A i \in 1 .. Len(q) : r[i + 1] = q[i]
    <2>1. <<1>> \in Seq(Nat) /\ Len(<<1>>) = 1 /\ <<1>>[1] = 1
      OBVIOUS
    <2>2. /\ r \in Seq(Nat) /\ Len(r) = Len(<<1>>) + Len(q)
          /\ \A i \in 1 .. Len(<<1>>) + Len(q) :
               r[i] = IF i <= Len(<<1>>) THEN <<1>>[i] ELSE q[i - Len(<<1>>)]
      BY <2>1, ConcatProperties
    <2>3. Len(q) \in Nat
      OBVIOUS
    <2>4. /\ 1 \in 1 .. 1 + Len(q)
          /\ \A i \in 1 .. Len(q) : i + 1 \in 1 .. 1 + Len(q) /\ ~(i + 1 <= 1) /\ (i + 1) - 1 = i
      BY <2>3
    <2> HIDE DEF r
    <2> QED  BY <2>1, <2>2, <2>4
  <1> HIDE DEF r
  <1>2. r # <<>> /\ r # <<2>>
    BY <1>1
  <1>3. /\ Tail(r) \in Seq(Nat) /\ Len(Tail(r)) = Len(r) - 1
        /\ \A i \in 1 .. Len(Tail(r)) : Tail(r)[i] = r[i + 1]
    BY <1>1, <1>2, HeadTailProperties
  <1>4. Tail(r) = q
    <2>1. Len(Tail(r)) = Len(q) /\ Len(q) \in Nat
      BY <1>1, <1>3
    <2> QED  BY <1>1, <1>3, <2>1, SeqEqual
  <1> QED  BY <1>1, <1>2, <1>4 DEF r

\* pane_layout_append_leaf adds a pane and, but to no tree, a split.
LEMMA AppendLeafKeeps ==
  ASSUME NEW t, IsTree(t), NEW w \in Nat, w \notin WindowsShown(t),
         NEW n \in Nat, n \notin SplitIds(t)
  PROVE  /\ IsTree(AppendLeaf(t, w, n))
         /\ WindowsShown(AppendLeaf(t, w, n)) = WindowsShown(t) \cup {w}
         /\ SplitIds(AppendLeaf(t, w, n))
              \subseteq SplitIds(t) \cup (IF t = NoTree THEN {} ELSE {n})
  <1> DEFINE u == AppendLeaf(t, w, n)
  <1>1. CASE t = NoTree
    <2>1. u = [p \in {<<>>} |-> LeafNode(w)]
      BY <1>1 DEF AppendLeaf
    <2> HIDE DEF u
    <2>2. DOMAIN u = {<<>>} /\ u[<<>>] = LeafNode(w) /\ u \in [{<<>>} -> Nodes]
      BY <2>1, NodeParts
    <2>3. IsTree(u)
      BY <2>2, NodeParts DEF IsTree
    <2>4. WindowsShown(u) = {w} /\ SplitIds(u) = {}
      BY <2>2, NodeParts, TreeParts
    <2> QED  BY <1>1, <2>3, <2>4, NoTreeIsTree DEF u
  <1>2. CASE t # NoTree
    <2> DEFINE D == {<<>>, <<2>>} \cup {<<1>> \o q : q \in DOMAIN t}
    <2>1. u = [p \in D |-> CASE p = <<>>  -> SplitNode(n)
                             [] p = <<2>> -> LeafNode(w)
                             [] OTHER     -> t[Tail(p)]]
      BY <1>2 DEF AppendLeaf
    <2>2. \A q \in DOMAIN t : q \in Seq(Nat)
      BY DEF IsTree
    <2>3. D \subseteq Seq(Nat) /\ <<>> \in D /\ <<2>> \in D /\ <<2>> # <<>>
      <3>1. <<>> \in Seq(Nat) /\ <<2>> \in Seq(Nat) /\ <<2>> # <<>>
        OBVIOUS
      <3> QED  BY <2>2, <3>1, FirstHalf
    <2>4. \A p \in D : p = <<>> \/ p = <<2>> \/ (\E q \in DOMAIN t : p = <<1>> \o q)
      OBVIOUS
    <2>5. \A q \in DOMAIN t : <<1>> \o q \in D
      OBVIOUS
    <2> HIDE DEF D, u
    <2>6. DOMAIN u = D
      BY <2>1
    <2>7. u[<<>>] = SplitNode(n) /\ u[<<2>>] = LeafNode(w)
      BY <2>1, <2>3
    <2>8. \A q \in DOMAIN t : u[<<1>> \o q] = t[q]
      <3> TAKE q \in DOMAIN t
      <3>1. /\ <<1>> \o q # <<>> /\ <<1>> \o q # <<2>> /\ Tail(<<1>> \o q) = q
        BY <2>2, FirstHalf
      <3> QED  BY <2>1, <2>5, <3>1
    <2>9. \A q \in DOMAIN t : t[q] # SplitNode(n) /\ t[q] # LeafNode(w) /\ t[q] \in Nodes
      BY TreeParts, NodeParts DEF IsTree
    <2>a. /\ SplitNode(n) \in Nodes /\ SplitNode(n).split /\ SplitNode(n).id = n
          /\ LeafNode(w) \in Nodes /\ ~LeafNode(w).split /\ LeafNode(w).id = w
      BY NodeParts
    <2>b. \A p \in D : \/ u[p] = SplitNode(n) \/ u[p] = LeafNode(w)
                       \/ \E q \in DOMAIN t : u[p] = t[q]
      BY <2>4, <2>7, <2>8
    <2>10. IsTree(u)
      <3>1. \A p \in D : u[p] \in Nodes
        BY <2>9, <2>a, <2>b
      <3>2. SplitNode(n) # LeafNode(w)
        BY NodeParts
      <3>3. ASSUME NEW p \in D, NEW q \in D, u[p] = u[q] PROVE p = q
        <4>1. CASE p = <<>>
          BY <2>4, <2>7, <2>8, <2>9, <3>2, <3>3, <4>1
        <4>2. CASE p = <<2>>
          BY <2>4, <2>7, <2>8, <2>9, <3>2, <3>3, <4>2
        <4>3. CASE \E x \in DOMAIN t : p = <<1>> \o x
          <5> PICK x \in DOMAIN t : p = <<1>> \o x
            BY <4>3
          <5>1. u[q] = t[x] /\ u[q] # SplitNode(n) /\ u[q] # LeafNode(w)
            BY <2>8, <2>9, <3>3, <4>3
          <5>2. PICK y \in DOMAIN t : q = <<1>> \o y
            BY <2>4, <2>7, <5>1
          <5>3. t[x] = t[y]
            BY <2>8, <5>1, <5>2
          <5> QED  BY <4>3, <5>2, <5>3 DEF IsTree
        <4> QED  BY <2>4, <4>1, <4>2, <4>3
      <3>4. u \in [D -> Nodes]
        BY <2>1, <3>1
      <3> QED  BY <2>3, <2>6, <3>3, <3>4 DEF IsTree
    <2>11. WindowsShown(u) = WindowsShown(t) \cup {w}
      <3>1. \A v : v \in WindowsShown(u) <=> v \in WindowsShown(t) \/ v = w
        <4> TAKE v
        <4>1. ASSUME v \in WindowsShown(u) PROVE v \in WindowsShown(t) \/ v = w
          <5>1. PICK p \in D : ~u[p].split /\ u[p].id = v
            BY <2>6, <4>1, TreeParts
          <5> QED  BY <2>a, <2>b, <5>1, TreeParts
        <4>2. ASSUME v \in WindowsShown(t) PROVE v \in WindowsShown(u)
          <5>1. PICK q \in DOMAIN t : ~t[q].split /\ t[q].id = v
            BY <4>2, TreeParts
          <5> QED  BY <2>5, <2>6, <2>8, <5>1, TreeParts
        <4>3. w \in WindowsShown(u)
          BY <2>3, <2>6, <2>7, <2>a, TreeParts
        <4> QED  BY <4>1, <4>2, <4>3
      <3> QED  BY <3>1
    <2>12. SplitIds(u) \subseteq SplitIds(t) \cup {n}
      <3>1. ASSUME NEW m, m \in SplitIds(u) PROVE m \in SplitIds(t) \/ m = n
        <4>1. PICK p \in D : u[p].split /\ u[p].id = m
          BY <2>6, <3>1, TreeParts
        <4> QED  BY <2>a, <2>b, <4>1, TreeParts
      <3> QED  BY <3>1
    <2> QED  BY <1>2, <2>10, <2>11, <2>12 DEF u
  <1> QED  BY <1>1, <1>2

\* A new pane beside the one at p adds that pane and a split.
LEMMA SplitLeafKeeps ==
  ASSUME NEW t, IsTree(t), NEW p \in DOMAIN t, ~t[p].split,
         NEW w \in Nat, w \notin WindowsShown(t), NEW n \in Nat, n \notin SplitIds(t)
  PROVE  /\ IsTree(SplitLeaf(t, p, w, n))
         /\ WindowsShown(SplitLeaf(t, p, w, n)) \subseteq WindowsShown(t) \cup {w}
         /\ SplitIds(SplitLeaf(t, p, w, n)) \subseteq SplitIds(t) \cup {n}
  <1> DEFINE a == Append(p, 1)
             b == Append(p, 2)
             D == DOMAIN t \cup {a, b}
             u == SplitLeaf(t, p, w, n)
  <1>1. p \in Seq(Nat)
    BY DEF IsTree
  <1>2. a \in Seq(Nat) /\ b \in Seq(Nat) /\ a # p /\ b # p /\ a # b
    <2>1. Len(p) \in Nat /\ Len(a) = Len(p) + 1 /\ Len(b) = Len(p) + 1
          /\ a[Len(p) + 1] = 1 /\ b[Len(p) + 1] = 2 /\ a \in Seq(Nat) /\ b \in Seq(Nat)
      BY <1>1
    <2> HIDE DEF a, b
    <2> QED  BY <2>1
  <1>3. u = [q \in D |-> CASE q = p -> SplitNode(n)
                           [] q = a -> t[p]
                           [] q = b -> LeafNode(w)
                           [] OTHER -> t[q]]
    BY DEF SplitLeaf
  <1>4. D \subseteq Seq(Nat) /\ p \in D /\ a \in D /\ b \in D
        /\ \A q \in D : q \in {p, a, b} \/ q \in DOMAIN t
    BY <1>2 DEF IsTree
  <1> HIDE DEF a, b, D, u
  <1>5. /\ DOMAIN u = D
        /\ u[p] = SplitNode(n) /\ u[a] = t[p] /\ u[b] = LeafNode(w)
        /\ \A q \in D : q \notin {p, a, b} => u[q] = t[q]
    BY <1>2, <1>3, <1>4
  <1>6. \A q \in DOMAIN t : t[q] # SplitNode(n) /\ t[q] # LeafNode(w) /\ t[q] \in Nodes
    BY TreeParts, NodeParts DEF IsTree
  <1>7. /\ SplitNode(n) # LeafNode(w)
        /\ SplitNode(n) \in Nodes /\ SplitNode(n).split /\ SplitNode(n).id = n
        /\ LeafNode(w) \in Nodes /\ ~LeafNode(w).split /\ LeafNode(w).id = w
    BY NodeParts
  <1>a. \A q \in D : u[q] = SplitNode(n) \/ u[q] = LeafNode(w) \/ \E r \in DOMAIN t : u[q] = t[r]
    BY <1>4, <1>5
  <1>8. \A q, r \in DOMAIN t : t[q] = t[r] => q = r
    BY DEF IsTree
  <1>9. \A q \in D : u[q] \in Nodes
    BY <1>4, <1>5, <1>6, <1>7
  <1>10. ASSUME NEW q \in D, NEW r \in D, u[q] = u[r] PROVE q = r
    BY <1>2, <1>4, <1>5, <1>6, <1>7, <1>8, <1>10
  <1>b. u \in [D -> Nodes]
    BY <1>3, <1>9
  <1>11. IsTree(u)
    BY <1>4, <1>5, <1>b, <1>10 DEF IsTree
  <1>12. ASSUME NEW v, v \in WindowsShown(u) PROVE v \in WindowsShown(t) \/ v = w
    <2>1. PICK q \in D : ~u[q].split /\ u[q].id = v
      BY <1>5, <1>12, TreeParts
    <2> QED  BY <1>7, <1>a, <2>1, TreeParts
  <1>13. ASSUME NEW m, m \in SplitIds(u) PROVE m \in SplitIds(t) \/ m = n
    <2>1. PICK q \in D : u[q].split /\ u[q].id = m
      BY <1>5, <1>13, TreeParts
    <2> QED  BY <1>7, <1>a, <2>1, TreeParts
  <1> QED  BY <1>11, <1>12, <1>13 DEF u

\* The recursion of reconcile_pane_layout_for_workspace,
LEMMA ReconciledUpToSteps ==
  ASSUME NEW t, NEW windows, Len(windows) \in Nat, NEW next
  PROVE  /\ ReconciledUpTo(t, windows, next)[0]
              = [tree |-> Prune(t, ToSet(windows)), next |-> next]
         /\ \A i \in 1 .. Len(windows) :
              ReconciledUpTo(t, windows, next)[i]
                = ShowWindow(ReconciledUpTo(t, windows, next)[i - 1], windows[i])
  <1> DEFINE first == [tree |-> Prune(t, ToSet(windows)), next |-> next]
             Is(f, m) == f = [i \in 0 .. m |-> IF i = 0 THEN first
                                               ELSE ShowWindow(f[i - 1], windows[i])]
             T == {m \in Nat : \E f : Is(f, m)}
  <1>0. first = [tree |-> Prune(t, ToSet(windows)), next |-> next]
    OBVIOUS
  <1> HIDE DEF first
  <1>1. 0 \in T
    <2> DEFINE f == [i \in 0 .. 0 |-> first]
    <2>1. f = [i \in 0 .. 0 |-> IF i = 0 THEN first ELSE ShowWindow(f[i - 1], windows[i])]
      OBVIOUS
    <2> HIDE DEF f
    <2> QED  BY <2>1
  <1>2. ASSUME NEW m \in T PROVE m + 1 \in T
    <2>1. PICK f : Is(f, m)
      OBVIOUS
    <2> DEFINE v == ShowWindow(f[m], windows[m + 1])
               g == [i \in 0 .. m + 1 |-> IF i = m + 1 THEN v ELSE f[i]]
    <2>2. \A i \in 0 .. m : f[i] = IF i = 0 THEN first ELSE ShowWindow(f[i - 1], windows[i])
      BY <2>1
    <2>3. ASSUME NEW i \in 0 .. m + 1
          PROVE  g[i] = IF i = 0 THEN first ELSE ShowWindow(g[i - 1], windows[i])
      <3>1. CASE i = 0
        BY <2>2, <3>1
      <3>2. CASE i # 0 /\ i = m + 1
        <4>1. i - 1 = m /\ i - 1 \in 0 .. m + 1 /\ i - 1 # m + 1
          BY <3>2
        <4>2. g[i] = v /\ g[i - 1] = f[m]
          BY <3>2, <4>1
        <4> QED  BY <3>2, <4>2
      <3>3. CASE i # 0 /\ i # m + 1
        <4>1. i \in 0 .. m /\ i - 1 \in 0 .. m + 1 /\ i - 1 # m + 1
          BY <3>3
        <4>2. g[i] = f[i] /\ g[i - 1] = f[i - 1]
          BY <3>3, <4>1
        <4> QED  BY <2>2, <3>3, <4>1, <4>2
      <3> QED  BY <3>1, <3>2, <3>3
    <2>4. g = [i \in 0 .. m + 1 |-> g[i]]
      OBVIOUS
    <2> HIDE DEF g
    <2>5. Is(g, m + 1)
      BY <2>3, <2>4
    <2>6. m + 1 \in Nat
      OBVIOUS
    <2> HIDE DEF Is
    <2> QED  BY <2>5, <2>6
  <1>3. T = Nat
    <2> HIDE DEF T
    <2> QED  BY <1>1, <1>2, Induction DEF T
  <1>4. PICK f : Is(f, Len(windows))
    BY <1>3
  <1> DEFINE l == ReconciledUpTo(t, windows, next)
  <1>5. l = CHOOSE g : Is(g, Len(windows))
    BY DEF ReconciledUpTo, first
  <1>6. Is(l, Len(windows))
    BY <1>4, <1>5
  <1> HIDE DEF l
  <1>7. \A i \in 0 .. Len(windows) :
          l[i] = IF i = 0 THEN first ELSE ShowWindow(l[i - 1], windows[i])
    BY <1>6
  <1>8. l[0] = first /\ \A i \in 1 .. Len(windows) : l[i] = ShowWindow(l[i - 1], windows[i])
    BY <1>7
  <1> QED  BY <1>0, <1>8 DEF l

\* A tree and the next split id made of the tree t by windows ws, with split ids from n on.
Grew(t, n, ws, l) ==
  /\ IsTree(l.tree) /\ l.next \in Nat /\ n <= l.next
  /\ WindowsShown(l.tree) \subseteq ws
  /\ \A m \in SplitIds(l.tree) : m \in Nat /\ m < l.next /\ (m \in SplitIds(t) \/ n <= m)

\* one step of it,
LEMMA ShowWindowGrows ==
  ASSUME NEW t, NEW n \in Nat, NEW ws, NEW l, Grew(t, n, ws, l), NEW w \in Nat, w \in ws
  PROVE  /\ Grew(t, n, ws, ShowWindow(l, w))
         /\ \A v : v \in WindowsShown(l.tree) \/ v = w => v \in WindowsShown(ShowWindow(l, w).tree)
  <1>1. CASE w \in WindowsShown(l.tree)
    <2>1. ShowWindow(l, w) = l
      BY <1>1 DEF ShowWindow
    <2> QED  BY <1>1, <2>1
  <1>2. CASE w \notin WindowsShown(l.tree)
    <2> DEFINE u == AppendLeaf(l.tree, w, l.next)
               next == IF l.tree = NoTree THEN l.next ELSE l.next + 1
    <2>1. ShowWindow(l, w) = [tree |-> u, next |-> next]
      BY <1>2 DEF ShowWindow
    <2>2. l.next \in Nat /\ l.next \notin SplitIds(l.tree) /\ IsTree(l.tree)
      BY DEF Grew
    <2>3. /\ IsTree(u) /\ WindowsShown(u) = WindowsShown(l.tree) \cup {w}
          /\ SplitIds(u) \subseteq SplitIds(l.tree) \cup (IF l.tree = NoTree THEN {} ELSE {l.next})
      BY <1>2, <2>2, AppendLeafKeeps
    <2> HIDE DEF u
    <2>4. \A m \in SplitIds(u) : m \in Nat /\ m < next /\ (m \in SplitIds(t) \/ n <= m)
      BY <2>2, <2>3 DEF Grew
    <2>5. next \in Nat /\ n <= next
      BY <2>2 DEF Grew
    <2> HIDE DEF next
    <2>6. Grew(t, n, ws, [tree |-> u, next |-> next])
      BY <2>3, <2>4, <2>5 DEF Grew
    <2> QED  BY <2>1, <2>3, <2>6
  <1> QED  BY <1>1, <1>2

\* and by induction along the windows all of it: each window has its pane.
LEMMA ReconciledKeeps ==
  ASSUME NEW t, IsTree(t), NEW windows \in Seq(Nat), NEW n \in Nat, \A m \in SplitIds(t) : m < n,
         NEW l, l = Reconciled(t, windows, n)
  PROVE  /\ Grew(t, n, ToSet(windows), l)
         /\ WindowsShown(l.tree) = ToSet(windows)
  <1> DEFINE len == Len(windows)
             ws == ToSet(windows)
             f == ReconciledUpTo(t, windows, n)
             T == {i \in 0 .. len : /\ Grew(t, n, ws, f[i])
                                    /\ \A j \in 1 .. i : windows[j] \in WindowsShown(f[i].tree)}
  <1>1. len \in Nat /\ \A i \in 1 .. len : windows[i] \in Nat /\ windows[i] \in ws
    BY DEF ToSet
  <1>2. \A w \in ws : \E i \in 1 .. len : w = windows[i]
    BY DEF ToSet
  <1>3. /\ f[0] = [tree |-> Prune(t, ws), next |-> n]
        /\ \A i \in 1 .. len : f[i] = ShowWindow(f[i - 1], windows[i])
    BY <1>1, ReconciledUpToSteps
  <1>4. l = f[len]
    BY DEF Reconciled
  <1> HIDE DEF f, len, ws
  <1>5. 0 \in T
    <2>1. f[0].tree = Prune(t, ws) /\ f[0].next = n
      BY <1>3
    <2>2. \A m \in SplitIds(t) : m \in Nat
      BY TreeParts DEF IsTree, Nodes
    <2>3. Grew(t, n, ws, f[0])
      BY <2>1, <2>2, PruneKeeps DEF Grew
    <2> QED  BY <1>1, <2>3
  <1>6. ASSUME NEW i \in 1 .. len, i - 1 \in T PROVE i \in T
    <2>1. f[i] = ShowWindow(f[i - 1], windows[i])
      BY <1>3
    <2>2. Grew(t, n, ws, f[i - 1]) /\ windows[i] \in Nat /\ windows[i] \in ws
      BY <1>1, <1>6
    <2>5. /\ Grew(t, n, ws, f[i])
          /\ \A v : v \in WindowsShown(f[i - 1].tree) \/ v = windows[i]
                   => v \in WindowsShown(f[i].tree)
      BY <2>1, <2>2, ShowWindowGrows
    <2>3. \A j \in 1 .. i : j = i \/ j \in 1 .. i - 1
      BY <1>1
    <2>4. i \in 0 .. len
      BY <1>1
    <2> QED  BY <1>6, <2>3, <2>4, <2>5
  <1>7. len \in T
    <2> HIDE DEF T
    <2>1. 0 .. len \subseteq T
      BY <1>1, <1>5, <1>6, BoundedInduction
    <2> QED  BY <1>1, <2>1
  <1>8. Grew(t, n, ws, l) /\ \A j \in 1 .. len : windows[j] \in WindowsShown(l.tree)
    BY <1>4, <1>7
  <1>9. WindowsShown(l.tree) = ws
    BY <1>2, <1>8 DEF Grew
  <1> QED  BY <1>8, <1>9 DEF ws
------------------------------------------------------------------------------
\* What every operation keeps that neither opens nor closes a workspace.
Carries(s, r) ==
  /\ Sound(r)
  /\ SameIds(s.open, r.open)
  /\ r.closed = s.closed
  /\ r.made.workspaces = s.made.workspaces
  /\ Whole(s) => Whole(r)

\* One operation after another.
LEMMA CarriesOn ==
  ASSUME NEW s, NEW r, NEW q, IsShell(s), IsShell(r), IsShell(q), Carries(s, r), Carries(r, q)
  PROVE  Carries(s, q)
  <1>1. DOMAIN r.open = DOMAIN s.open
    BY DEF Carries, SameIds, IsShell
  <1> QED  BY <1>1 DEF Carries, SameIds

\* Operations on trees, or on the active workspace, only.
Leaves(s, r) ==
  /\ IsShell(r)
  /\ r.open = s.open /\ r.closed = s.closed /\ r.made = s.made
  /\ r.terminals = s.terminals /\ r.browsers = s.browsers

\* What leaves the workspaces, tabs and sessions alone keeps all about them.
LEMMA LeavesCarries ==
  ASSUME NEW s, Sound(s), NEW r, Leaves(s, r)
  PROVE  Carries(s, r)
  <1>1. OpenIds(r) = OpenIds(s) /\ UsedTabs(r) = UsedTabs(s)
    BY DEF OpenIds, UsedTabs, Leaves
  <1>2. Sound(r)
    BY <1>1 DEF Sound, Leaves, Bounded, NoStray
  <1>3. Whole(s) => Whole(r)
    BY <1>1 DEF Whole, Leaves, AllRun, Apart
  <1> QED  BY <1>2, <1>3 DEF Carries, Leaves, SameIds

\* The active workspace, trees and split ids are such other parts.
LEMMA OtherParts ==
  ASSUME NEW s, IsShell(s), NEW active \in Nat, NEW layouts, NEW nextSplit,
         NEW r, r = ShellOf(s.open, active, s.closed, s.terminals, s.browsers, layouts,
                            nextSplit, s.made)
  PROVE  Leaves(s, r)
  <1>1. /\ s.open \in Seq(Workspaces) /\ s.closed \in SUBSET Nat
        /\ s.terminals \in SUBSET (Nat \ {0}) /\ s.browsers \in SUBSET (Nat \ {0})
        /\ s.made \in [workspaces: Nat, windows: Nat]
    BY DEF IsShell
  <1> QED  BY <1>1, ShellOfParts DEF Leaves

\* So is a change of the trees,
LEMMA LayoutsLeave ==
  ASSUME NEW s, IsShell(s), NEW layouts, NEW n,
         NEW r, r = [s EXCEPT !.layouts = layouts, !.nextSplit = n]
  PROVE  Leaves(s, r)
  <1>1. r = ShellOf(s.open, s.active, s.closed, s.terminals, s.browsers, layouts, n, s.made)
    BY DEF IsShell, ShellOf
  <1>2. s.active \in Nat
    BY DEF IsShell
  <1> QED  BY <1>1, <1>2, OtherParts

\* reconcile_pane_layout_for_workspace,
LEMMA ReconcileLeaves ==
  ASSUME NEW s, IsShell(s), NEW k
  PROVE  Leaves(s, Reconcile(s, k))
  <1> DEFINE l == Reconciled(s.layouts[s.open[k].id], Ids(s.open[k].windows), s.nextSplit)
             layouts == [s.layouts EXCEPT ![s.open[k].id] = l.tree]
             n == l.next
             r == Reconcile(s, k)
  <1>1. r = [s EXCEPT !.layouts = layouts, !.nextSplit = n]
    BY DEF Reconcile
  <1> HIDE DEF layouts, n, r
  <1>2. Leaves(s, r)
    BY <1>1, LayoutsLeave
  <1> QED  BY <1>2 DEF r

\* and another active workspace.
LEMMA ActiveLeaves ==
  ASSUME NEW s, IsShell(s), NEW k \in Nat
  PROVE  Leaves(s, [s EXCEPT !.active = k])
  <1> DEFINE r == [s EXCEPT !.active = k]
  <1>1. r = ShellOf(s.open, k, s.closed, s.terminals, s.browsers, s.layouts, s.nextSplit, s.made)
    BY DEF IsShell, ShellOf
  <1> HIDE DEF r
  <1>2. Leaves(s, r)
    BY <1>1, OtherParts
  <1> QED  BY <1>2 DEF r

\* The windows of one workspace change.
WithWindows(open, k, windows) == [open EXCEPT ![k].windows = windows]

\* Other windows for one workspace leave the other workspaces as they were.
LEMMA WindowsChange ==
  ASSUME NEW open \in Seq(Workspaces), NEW k \in DOMAIN open, NEW windows \in Seq(Windows),
         NEW new, new = WithWindows(open, k, windows)
  PROVE  /\ new \in Seq(Workspaces) /\ Len(new) = Len(open) /\ DOMAIN new = DOMAIN open
         /\ \A j \in DOMAIN open :
              /\ new[j].id = open[j].id /\ new[j].root = open[j].root
              /\ new[j].windows = IF j = k THEN windows ELSE open[j].windows
  <1> DEFINE x == [open[k] EXCEPT !.windows = windows]
  <1>1. open[k] \in Workspaces
    BY OpenParts
  <1>2. x \in Workspaces /\ x.id = open[k].id /\ x.root = open[k].root /\ x.windows = windows
    BY <1>1 DEF Workspaces
  <1>3. new = [open EXCEPT ![k] = x]
    BY DEF WithWindows
  <1> HIDE DEF x
  <1>4. new \in Seq(Workspaces) /\ Len(new) = Len(open) /\ DOMAIN new = DOMAIN open
        /\ \A j \in DOMAIN open : new[j] = IF j = k THEN x ELSE open[j]
    BY <1>2, <1>3
  <1> QED  BY <1>2, <1>4

\* push_window adds a window without tabs.
LEMMA PushWindowKeeps ==
  ASSUME NEW s, Sound(s), NEW k \in DOMAIN s.open, NEW r, r = PushWindow(s, k)
  PROVE  /\ Carries(s, r) /\ Found(r, s.made.windows + 1)
         /\ r.layouts = s.layouts /\ r.nextSplit = s.nextSplit /\ r.active = k
         /\ r.made.windows = s.made.windows + 1
         /\ \A j \in DOMAIN s.open :
              r.open[j].windows = IF j = k THEN Append(s.open[k].windows,
                                                       [id |-> s.made.windows + 1, tabs |-> {}])
                                  ELSE s.open[j].windows
  <1> DEFINE w == s.made.windows + 1
             new == [id |-> w, tabs |-> {}]
             windows == s.open[k].windows
             pushed == Append(windows, new)
             open == WithWindows(s.open, k, pushed)
             made == [s.made EXCEPT !.windows = w]
  <1>1. r = [s EXCEPT !.open = open, !.active = k, !.made = made]
    BY DEF PushWindow, WithWindows
  <1>2. w \in Nat \ {0} /\ made \in [workspaces: Nat, windows: Nat]
        /\ made.workspaces = s.made.workspaces /\ made.windows = w
    BY DEF Sound, IsShell
  <1>3. new \in Windows /\ new.tabs = {} /\ new.id = w
    BY <1>2 DEF Windows
  <1>4. windows \in Seq(Windows) /\ s.open \in Seq(Workspaces) /\ k \in Nat
    BY OpenParts DEF Sound, IsShell
  <1> HIDE DEF new, windows, w, made
  <1>5. pushed \in Seq(Windows) /\ Len(pushed) = Len(windows) + 1
        /\ \A i \in DOMAIN pushed : pushed[i] = IF i = Len(windows) + 1 THEN new ELSE windows[i]
    BY <1>3, <1>4
  <1> HIDE DEF pushed
  <1>6. /\ open \in Seq(Workspaces) /\ Len(open) = Len(s.open) /\ DOMAIN open = DOMAIN s.open
        /\ \A j \in DOMAIN s.open :
             /\ open[j].id = s.open[j].id /\ open[j].root = s.open[j].root
             /\ open[j].windows = IF j = k THEN pushed ELSE s.open[j].windows
    <2>1. pushed \in Seq(Windows) /\ s.open \in Seq(Workspaces) /\ k \in DOMAIN s.open
      BY <1>4, <1>5
    <2>2. open = WithWindows(s.open, k, pushed)
      OBVIOUS
    <2> HIDE DEF open
    <2> QED  BY <2>1, <2>2, WindowsChange
  <1> HIDE DEF open
  <1>7. r = ShellOf(open, k, s.closed, s.terminals, s.browsers, s.layouts, s.nextSplit, made)
    BY <1>1 DEF Sound, IsShell, ShellOf
  <1>8. /\ IsShell(r) /\ r.open = open /\ r.closed = s.closed /\ r.terminals = s.terminals
        /\ r.browsers = s.browsers /\ r.made = made
        /\ r.layouts = s.layouts /\ r.nextSplit = s.nextSplit /\ r.active = k
    <2>1. /\ s.closed \in SUBSET Nat /\ s.terminals \in SUBSET (Nat \ {0})
          /\ s.browsers \in SUBSET (Nat \ {0})
      BY DEF Sound, IsShell
    <2> QED  BY <1>2, <1>4, <1>6, <1>7, <2>1, ShellOfParts
  <1>9. ASSUME NEW j \in DOMAIN s.open, NEW i, NEW t
        PROVE  (i \in DOMAIN open[j].windows /\ t \in open[j].windows[i].tabs)
                 <=> (i \in DOMAIN s.open[j].windows /\ t \in s.open[j].windows[i].tabs)
    <2>1. CASE j # k
      BY <1>6, <2>1
    <2>2. CASE j = k
      <3>1. DOMAIN pushed = 1 .. Len(windows) + 1 /\ DOMAIN windows = 1 .. Len(windows)
            /\ Len(windows) \in Nat
        BY <1>4, <1>5
      <3>2. open[j].windows = pushed /\ s.open[j].windows = windows
        BY <1>6, <2>2 DEF windows
      <3> QED  BY <1>3, <1>5, <3>1, <3>2
    <2> QED  BY <2>1, <2>2
  <1>10. AllTabs(r.open) = AllTabs(s.open)
    <2>1. \A t : t \in AllTabs(open) <=>
            \E j \in DOMAIN open : \E i \in DOMAIN open[j].windows : t \in open[j].windows[i].tabs
      BY <1>6, TabsAreIn
    <2>2. \A t : t \in AllTabs(s.open) <=>
            \E j \in DOMAIN s.open : \E i \in DOMAIN s.open[j].windows :
              t \in s.open[j].windows[i].tabs
      BY <1>4, TabsAreIn
    <2>3. DOMAIN open = DOMAIN s.open
      BY <1>6
    <2>4. \A t : t \in AllTabs(open) <=> t \in AllTabs(s.open)
      BY <1>9, <2>1, <2>2, <2>3
    <2> QED  BY <1>8, <2>4
  <1>11. OpenIds(r) = OpenIds(s) /\ SameIds(s.open, r.open)
    <2>1. SameIds(s.open, r.open)
      BY <1>6, <1>8 DEF SameIds
    <2> QED  BY <1>4, <1>6, <1>8, <2>1, SameOpenIds
  <1>12. Sound(r)
    BY <1>8, <1>10 DEF Sound, Bounded, UsedTabs, NoStray
  <1>13. ASSUME Whole(s) PROVE Whole(r)
    <2>1. AllRun(r) /\ Apart(r)
      BY <1>8, <1>10, <1>11, <1>13 DEF Whole, AllRun, Apart
    <2>2. Disjoint(r.open)
      BY <1>6, <1>8, <1>9, <1>13 DEF Whole, Disjoint
    <2> QED  BY <2>1, <2>2 DEF Whole
  <1>14. w \in OpenWindows(r)
    <2>1. Len(windows) + 1 \in DOMAIN pushed /\ pushed[Len(windows) + 1].id = w
      BY <1>3, <1>4, <1>5
    <2>2. k \in DOMAIN r.open /\ r.open[k].windows = pushed
      BY <1>6, <1>8
    <2> QED  BY <2>1, <2>2 DEF OpenWindows, ToSet, Ids
  <1>15. Found(r, w)
    BY <1>6, <1>8, <1>14, OpenIsFound
  <1>16. \A j \in DOMAIN s.open :
           r.open[j].windows = IF j = k THEN Append(s.open[k].windows, [id |-> w, tabs |-> {}])
                               ELSE s.open[j].windows
    BY <1>6, <1>8 DEF pushed, windows, new
  <1>17. Carries(s, r) /\ r.made.windows = w
    BY <1>2, <1>8, <1>11, <1>12, <1>13 DEF Carries
  <1> QED  BY <1>8, <1>15, <1>16, <1>17 DEF w

LEMMA PushWindowCarries ==
  ASSUME NEW s, Sound(s), NEW k \in DOMAIN s.open
  PROVE  Carries(s, PushWindow(s, k)) /\ Found(PushWindow(s, k), s.made.windows + 1)
  BY PushWindowKeeps

\* AddTab, and the pane that is a new window with one tab.
LEMMA AddTabCarries ==
  ASSUME NEW s, Sound(s), IsStore(store), NEW w, Found(s, w), NEW kind \in Kinds
  PROVE  /\ Carries(s, AddTab(s, w, kind))
         /\ SameWindows(s.open, AddTab(s, w, kind).open)
  BY AddTabKeeps DEF Carries, SameWindows

\* add_terminal_pane_to_workspace_without_layout_reconcile
LEMMA AddPaneCarries ==
  ASSUME NEW s, Sound(s), IsStore(store), NEW k \in DOMAIN s.open
  PROVE  Carries(s, AddPane(s, k))
  <1> DEFINE p == PushWindow(s, k)
             w == s.made.windows + 1
  <1>1. Carries(s, p) /\ Found(p, w)
    BY PushWindowKeeps
  <1>2. "terminal" \in Kinds
    BY WorkbenchAssumption
  <1>3. Sound(p)
    BY <1>1 DEF Carries
  <1> HIDE DEF p, w
  <1>4. Carries(p, AddTab(p, w, "terminal"))
    BY <1>1, <1>2, <1>3, AddTabCarries
  <1>5. IsShell(s) /\ IsShell(p) /\ IsShell(AddTab(p, w, "terminal"))
    BY <1>3, <1>4 DEF Carries, Sound
  <1>6. Carries(s, AddTab(p, w, "terminal"))
    BY <1>1, <1>4, <1>5, CarriesOn
  <1> QED  BY <1>6 DEF AddPane, p, w
------------------------------------------------------------------------------
(* The trees of a shell. *)
WindowIds(ws) == ToSet(Ids(ws.windows))

\* Trees for all workspaces: split ids are below n, and none is used twice.
Trees(layouts, n) ==
  /\ n \in Nat
  /\ DOMAIN layouts = WorkspaceIds
  /\ \A id \in WorkspaceIds : IsTree(layouts[id]) /\ \A m \in SplitIds(layouts[id]) : m < n
  /\ \A i, j \in WorkspaceIds : \A m :
       m \in SplitIds(layouts[i]) /\ m \in SplitIds(layouts[j]) => i = j

\* What the operations on trees need, and keep.
Planted(s) ==
  /\ Unique(s.open)
  /\ s.active = 1 \/ s.active \in DOMAIN s.open
  /\ Trees(s.layouts, s.nextSplit)
  /\ \A k \in DOMAIN s.open : \A w \in WindowIds(s.open[k]) : w <= s.made.windows

\* A tree shows windows of the workspace only.
FitsIn(tree, ws) == WindowsShown(tree) \subseteq WindowIds(ws)
FitAt(s, k) == FitsIn(s.layouts[s.open[k].id], s.open[k])

\* No tree is lost or unfit, but for that of the workspace at k.
GrownBut(s, r, k) ==
  /\ Planted(r)
  /\ s.made.windows <= r.made.windows
  /\ \A j \in DOMAIN s.open : j # k /\ FitAt(s, j) => FitAt(r, j)
  /\ \A id \in WorkspaceIds : id \notin OpenIds(s) => r.layouts[id] = s.layouts[id]
Grown(s, r) == GrownBut(s, r, 0)

\* No window goes, and no tree is lost or unfit.
Enlarges(s, r) == \A k \in DOMAIN s.open : WindowIds(s.open[k]) \subseteq WindowIds(r.open[k])
Grows(s, r) == Enlarges(s, r) /\ (Planted(s) => Grown(s, r))

\* One tree of a shell changes.
LEMMA OneTreeChanges ==
  ASSUME NEW layouts, NEW n, Trees(layouts, n), NEW id \in WorkspaceIds,
         NEW t, IsTree(t), NEW next \in Nat, n <= next,
         \A m \in SplitIds(t) : m \in Nat /\ m < next /\ (m \in SplitIds(layouts[id]) \/ n <= m)
  PROVE  Trees([layouts EXCEPT ![id] = t], next)
  <1> DEFINE new == [layouts EXCEPT ![id] = t]
  <1>1. /\ DOMAIN new = WorkspaceIds /\ new[id] = t
        /\ \A i \in WorkspaceIds : i # id => new[i] = layouts[i]
    BY DEF Trees
  <1> HIDE DEF new
  <1>2. \A i \in WorkspaceIds : \A m \in SplitIds(layouts[i]) : m \in Nat /\ m < n
    BY TreeParts DEF Trees, IsTree, Nodes
  <1>3. n \in Nat
    BY DEF Trees
  <1>4. ASSUME NEW i \in WorkspaceIds PROVE IsTree(new[i]) /\ \A m \in SplitIds(new[i]) : m < next
    <2>1. CASE i = id
      BY <1>1, <2>1
    <2>2. CASE i # id
      BY <1>1, <1>2, <1>3, <2>2 DEF Trees
    <2> QED  BY <2>1, <2>2
  <1>5. ASSUME NEW i \in WorkspaceIds, NEW j \in WorkspaceIds, NEW m,
               m \in SplitIds(new[i]), m \in SplitIds(new[j])
        PROVE  i = j
    <2>1. CASE i # id /\ j # id
      BY <1>1, <1>5, <2>1 DEF Trees
    <2>2. CASE i = id /\ j # id
      <3>1. m \in SplitIds(t) /\ m \in SplitIds(layouts[j])
        BY <1>1, <1>5, <2>2
      <3> QED  BY <1>2, <1>3, <2>2, <3>1 DEF Trees
    <2>3. CASE i # id /\ j = id
      <3>1. m \in SplitIds(t) /\ m \in SplitIds(layouts[i])
        BY <1>1, <1>5, <2>3
      <3> QED  BY <1>2, <1>3, <2>3, <3>1 DEF Trees
    <2> QED  BY <2>1, <2>2, <2>3
  <1>6. Trees(new, next)
    BY <1>1, <1>4, <1>5 DEF Trees
  <1> QED  BY <1>6 DEF new

\* The ids of the windows of a workspace.
LEMMA WindowIdsParts ==
  ASSUME NEW open \in Seq(Workspaces), NEW k \in DOMAIN open
  PROVE  /\ open[k].id \in WorkspaceIds
         /\ Ids(open[k].windows) \in Seq(Nat)
         /\ \A w : w \in WindowIds(open[k])
                     <=> \E i \in DOMAIN open[k].windows : w = open[k].windows[i].id
         /\ \A w \in WindowIds(open[k]) : w \in Nat
  <1> DEFINE windows == open[k].windows
             ids == Ids(windows)
  <1>1. open[k] \in Workspaces /\ windows \in Seq(Windows)
        /\ \A i \in DOMAIN windows : windows[i] \in Windows
    BY OpenParts
  <1>2. open[k].id \in WorkspaceIds /\ \A i \in DOMAIN windows : windows[i].id \in Nat
    BY <1>1 DEF Workspaces, Windows
  <1>3. DOMAIN windows = 1 .. Len(windows) /\ Len(windows) \in Nat
    BY <1>1
  <1>4. ids = [i \in DOMAIN windows |-> windows[i].id]
    BY DEF Ids
  <1> HIDE DEF ids
  <1>5. ids \in [1 .. Len(windows) -> Nat]
    BY <1>2, <1>3, <1>4
  <1>6. ids \in Seq(Nat)
    BY <1>3, <1>5
  <1>7. \A w : w \in WindowIds(open[k]) <=> \E i \in DOMAIN windows : w = windows[i].id
    BY <1>4 DEF WindowIds, ToSet, ids
  <1> QED  BY <1>2, <1>6, <1>7 DEF ids

\* What leaves trees and split ids alone leaves them fit where no window goes.
LEMMA TreesStay ==
  ASSUME NEW s, IsShell(s), NEW r, IsShell(r), SameIds(s.open, r.open),
         r.layouts = s.layouts, r.nextSplit = s.nextSplit, s.made.windows <= r.made.windows,
         r.active = s.active \/ r.active \in DOMAIN s.open, NEW k,
         \A j \in DOMAIN s.open :
           /\ j # k => WindowIds(s.open[j]) \subseteq WindowIds(r.open[j])
           /\ \A w \in WindowIds(r.open[j]) : w \in WindowIds(s.open[j]) \/ w <= r.made.windows,
         Planted(s)
  PROVE  GrownBut(s, r, k)
  <1>1. s.open \in Seq(Workspaces) /\ r.open \in Seq(Workspaces)
        /\ s.made.windows \in Nat /\ r.made.windows \in Nat
    BY DEF IsShell
  <1>2. /\ DOMAIN r.open = DOMAIN s.open
        /\ \A j \in DOMAIN s.open : r.open[j].id = s.open[j].id
    BY <1>1, SameOpenIds DEF SameIds
  <1>3. Unique(r.open)
    BY <1>2 DEF Planted, Unique
  <1>4. ASSUME NEW j \in DOMAIN r.open, NEW w \in WindowIds(r.open[j]) PROVE w <= r.made.windows
    <2>1. CASE w \in WindowIds(s.open[j])
      <3>1. w <= s.made.windows /\ w \in Nat
        BY <1>1, <1>2, <2>1, WindowIdsParts DEF Planted
      <3> QED  BY <1>1, <3>1
    <2>2. CASE w \notin WindowIds(s.open[j])
      BY <1>2, <2>2
    <2> QED  BY <2>1, <2>2
  <1>5. Planted(r)
    BY <1>2, <1>3, <1>4 DEF Planted
  <1>6. \A j \in DOMAIN s.open : j # k /\ FitAt(s, j) => FitAt(r, j)
    BY <1>2 DEF FitAt, FitsIn
  <1> QED  BY <1>5, <1>6 DEF GrownBut

\* The same windows have the same ids.
LEMMA SameWindowIds ==
  ASSUME NEW open \in Seq(Workspaces), NEW new \in Seq(Workspaces), SameWindows(open, new),
         NEW k \in DOMAIN open
  PROVE  k \in DOMAIN new /\ WindowIds(new[k]) = WindowIds(open[k])
  <1>1. k \in DOMAIN new
    BY DEF SameWindows, SameIds
  <1>2. DOMAIN new[k].windows = DOMAIN open[k].windows
    <2>1. Len(new[k].windows) = Len(open[k].windows)
      BY DEF SameWindows
    <2> QED  BY <1>1, <2>1, OpenParts
  <1>3. \A i \in DOMAIN open[k].windows : new[k].windows[i].id = open[k].windows[i].id
    BY DEF SameWindows
  <1>4. \A w : w \in WindowIds(new[k]) <=> w \in WindowIds(open[k])
    <2>1. \A w : w \in WindowIds(new[k]) <=> \E i \in DOMAIN new[k].windows : w = new[k].windows[i].id
      BY <1>1, WindowIdsParts
    <2>2. \A w : w \in WindowIds(open[k]) <=> \E i \in DOMAIN open[k].windows : w = open[k].windows[i].id
      BY WindowIdsParts
    <2> QED  BY <1>2, <1>3, <2>1, <2>2
  <1> QED  BY <1>1, <1>4

\* What leaves the windows and the trees alone.
LEMMA SameWindowsGrow ==
  ASSUME NEW s, IsShell(s), NEW r, IsShell(r), SameWindows(s.open, r.open),
         r.layouts = s.layouts, r.nextSplit = s.nextSplit, r.made = s.made,
         r.active = s.active \/ r.active \in DOMAIN s.open
  PROVE  Grows(s, r)
  <1>1. /\ s.open \in Seq(Workspaces) /\ r.open \in Seq(Workspaces)
        /\ s.made.windows \in Nat /\ SameIds(s.open, r.open)
    BY DEF IsShell, SameWindows
  <1>2. \A j \in DOMAIN s.open : WindowIds(r.open[j]) = WindowIds(s.open[j])
    BY <1>1, SameWindowIds
  <1>3. s.made.windows <= r.made.windows
    BY <1>1
  <1>4. ASSUME Planted(s) PROVE GrownBut(s, r, 0)
    BY <1>1, <1>2, <1>3, <1>4, TreesStay
  <1> QED  BY <1>2, <1>4 DEF Grows, Enlarges, Grown

LEMMA GrowsItself ==
  ASSUME NEW s, IsShell(s)
  PROVE  Grows(s, s)
  BY SameWindowsGrow DEF SameWindows, SameIds

\* One operation after another.
LEMMA GrownOn ==
  ASSUME NEW s, NEW r, NEW q, IsShell(s), IsShell(r), IsShell(q), SameIds(s.open, r.open), NEW k,
         GrownBut(s, r, k), Grown(r, q)
  PROVE  GrownBut(s, q, k)
  <1>1. /\ DOMAIN r.open = DOMAIN s.open /\ OpenIds(r) = OpenIds(s)
        /\ 0 \notin DOMAIN s.open
    BY SameOpenIds DEF IsShell
  <1>2. s.made.windows \in Nat /\ r.made.windows \in Nat /\ q.made.windows \in Nat
    BY DEF IsShell
  <1>3. s.made.windows <= q.made.windows
    BY <1>2 DEF GrownBut, Grown
  <1>4. \A j \in DOMAIN s.open : j # k /\ FitAt(s, j) => FitAt(q, j)
    BY <1>1 DEF GrownBut, Grown
  <1>5. \A id \in WorkspaceIds : id \notin OpenIds(s) => q.layouts[id] = s.layouts[id]
    BY <1>1 DEF GrownBut, Grown
  <1> QED  BY <1>3, <1>4, <1>5 DEF GrownBut, Grown

LEMMA GrowsOn ==
  ASSUME NEW s, NEW r, NEW q, IsShell(s), IsShell(r), IsShell(q), Carries(s, r),
         Grows(s, r), Grows(r, q)
  PROVE  Grows(s, q)
  <1>1. SameIds(s.open, r.open) /\ DOMAIN r.open = DOMAIN s.open
    BY SameOpenIds DEF Carries, IsShell
  <1>2. ASSUME Planted(s) PROVE Grown(s, q)
    <2>1. Grown(s, r) /\ Planted(r)
      BY <1>2 DEF Grows, Grown, GrownBut
    <2>2. Grown(r, q)
      BY <2>1 DEF Grows
    <2> QED  BY <1>1, <2>1, <2>2, GrownOn DEF Grown
  <1>3. Enlarges(s, q)
    BY <1>1 DEF Grows, Enlarges
  <1> QED  BY <1>2, <1>3 DEF Grows

\* Reconciled panes show all windows of the workspace, and no tree of another changes.
LEMMA ReconcileGrows ==
  ASSUME NEW s, IsShell(s), NEW k \in DOMAIN s.open, NEW r, r = Reconcile(s, k)
  PROVE  /\ Grows(s, r)
         /\ Planted(s) => FitAt(r, k) /\ WindowIds(s.open[k]) \subseteq WindowsShown(r.layouts[s.open[k].id])
  <1> DEFINE id == s.open[k].id
             ids == Ids(s.open[k].windows)
             t == s.layouts[id]
             n == s.nextSplit
             l == Reconciled(t, ids, n)
  <1>1. r = [s EXCEPT !.layouts = [s.layouts EXCEPT ![id] = l.tree], !.nextSplit = l.next]
    BY DEF Reconcile
  <1>2. Leaves(s, r) /\ s.open \in Seq(Workspaces) /\ s.made.windows \in Nat
    BY ReconcileLeaves DEF IsShell
  <1>3. /\ r.layouts = [s.layouts EXCEPT ![id] = l.tree] /\ r.nextSplit = l.next
        /\ r.active = s.active
    <2> HIDE DEF l, id
    <2> QED  BY <1>1 DEF IsShell
  <1>4. id \in WorkspaceIds /\ ids \in Seq(Nat) /\ ToSet(ids) = WindowIds(s.open[k])
    BY <1>2, WindowIdsParts DEF WindowIds
  <1> HIDE DEF id, ids, t, n, l
  <1>5. ASSUME Planted(s)
        PROVE  Grown(s, r) /\ FitAt(r, k) /\ WindowIds(s.open[k]) \subseteq WindowsShown(r.layouts[id])
    <2>1. /\ Trees(s.layouts, n) /\ IsTree(t) /\ n \in Nat
          /\ \A m \in SplitIds(t) : m < n
      BY <1>4, <1>5 DEF Planted, Trees, t, n
    <2>2. Grew(t, n, ToSet(ids), l) /\ WindowsShown(l.tree) = ToSet(ids)
      BY <1>4, <2>1, ReconciledKeeps DEF l
    <2>3. Trees(r.layouts, r.nextSplit)
      BY <1>3, <1>4, <2>1, <2>2, OneTreeChanges DEF Grew, t
    <2>4. Planted(r)
      BY <1>2, <1>3, <1>5, <2>3 DEF Planted, Leaves
    <2>5. r.layouts[id] = l.tree /\ \A i \in WorkspaceIds : i # id => r.layouts[i] = s.layouts[i]
      BY <1>3, <1>4, <2>1 DEF Trees
    <2>6. FitAt(r, k) /\ WindowIds(s.open[k]) \subseteq WindowsShown(r.layouts[id])
      BY <1>2, <1>4, <2>2, <2>5 DEF FitAt, FitsIn, Leaves, id
    <2>7. ASSUME NEW j \in DOMAIN s.open, FitAt(s, j) PROVE FitAt(r, j)
      <3>1. CASE j = k
        BY <2>6, <3>1
      <3>2. CASE j # k
        <4>1. s.open[j].id # id /\ s.open[j].id \in WorkspaceIds
          BY <1>2, <1>5, <3>2, WindowIdsParts DEF Planted, Unique, id
        <4> QED  BY <1>2, <2>5, <2>7, <4>1 DEF FitAt, FitsIn, Leaves
      <3> QED  BY <3>1, <3>2
    <2>8. id \in OpenIds(s)
      BY <1>2, OpenIdsParts DEF id
    <2> QED  BY <1>2, <2>4, <2>5, <2>6, <2>7, <2>8 DEF Grown, GrownBut, Leaves
  <1>6. Enlarges(s, r)
    BY <1>2 DEF Enlarges, Leaves
  <1> QED  BY <1>5, <1>6 DEF Grows, id

\* Another active workspace.
LEMMA ActiveGrows ==
  ASSUME NEW s, IsShell(s), NEW k \in DOMAIN s.open
  PROVE  Grows(s, [s EXCEPT !.active = k])
  <1> DEFINE r == [s EXCEPT !.active = k]
  <1>1. k \in Nat
    BY DEF IsShell
  <1>2. Leaves(s, r)
    BY <1>1, ActiveLeaves
  <1>3. r.layouts = s.layouts /\ r.nextSplit = s.nextSplit /\ r.active = k
    BY DEF IsShell
  <1> HIDE DEF r
  <1>4. Grows(s, r)
    BY <1>2, <1>3, SameWindowsGrow DEF Leaves, SameWindows, SameIds
  <1> QED  BY <1>4 DEF r

\* AddTab
LEMMA AddTabGrows ==
  ASSUME NEW s, Sound(s), IsStore(store), NEW w, Found(s, w), NEW kind \in Kinds
  PROVE  Grows(s, AddTab(s, w, kind))
  <1> DEFINE r == AddTab(s, w, kind)
  <1>1. /\ Sound(r) /\ SameWindows(s.open, r.open) /\ r.made = s.made
        /\ r.layouts = s.layouts /\ r.nextSplit = s.nextSplit /\ r.active = HomeOf(s, w)
    BY AddTabKeeps
  <1> HIDE DEF r
  <1>2. Grows(s, r)
    BY <1>1, SameWindowsGrow DEF Sound, Found
  <1> QED  BY <1>2 DEF r

\* Workspace::push_window: the new window has no pane yet.
LEMMA PushWindowGrows ==
  ASSUME NEW s, Sound(s), NEW k \in DOMAIN s.open
  PROVE  Grows(s, PushWindow(s, k))
  <1> DEFINE r == PushWindow(s, k)
             w == s.made.windows + 1
             new == [id |-> w, tabs |-> {}]
             windows == s.open[k].windows
             pushed == Append(windows, new)
  <1>1. /\ Carries(s, r) /\ r.layouts = s.layouts /\ r.nextSplit = s.nextSplit /\ r.active = k
        /\ r.made.windows = w
        /\ \A j \in DOMAIN s.open : r.open[j].windows = IF j = k THEN pushed ELSE s.open[j].windows
    BY PushWindowKeeps
  <1>2. /\ IsShell(s) /\ IsShell(r) /\ s.open \in Seq(Workspaces) /\ r.open \in Seq(Workspaces)
        /\ s.made.windows \in Nat /\ windows \in Seq(Windows)
    BY <1>1, OpenParts DEF Sound, Carries, IsShell
  <1>3. new \in [id: Nat \ {0}, tabs: {{}}] /\ w \in Nat /\ s.made.windows <= w /\ new.id = w
    BY <1>2
  <1> HIDE DEF r, new, windows
  <1>4. /\ DOMAIN windows \subseteq DOMAIN pushed
        /\ \A i \in DOMAIN windows : pushed[i] = windows[i]
        /\ \A i \in DOMAIN pushed : i \in DOMAIN windows \/ pushed[i] = new
    BY <1>2
  <1> HIDE DEF pushed
  <1>5. SameIds(s.open, r.open) /\ DOMAIN r.open = DOMAIN s.open
    BY <1>1, <1>2 DEF Carries, SameIds
  <1>6. ASSUME NEW j \in DOMAIN s.open
        PROVE  /\ WindowIds(s.open[j]) \subseteq WindowIds(r.open[j])
               /\ \A v \in WindowIds(r.open[j]) : v \in WindowIds(s.open[j]) \/ v <= r.made.windows
    <2>1. /\ \A v : v \in WindowIds(s.open[j])
               <=> \E i \in DOMAIN s.open[j].windows : v = s.open[j].windows[i].id
          /\ \A v : v \in WindowIds(r.open[j])
               <=> \E i \in DOMAIN r.open[j].windows : v = r.open[j].windows[i].id
      BY <1>2, <1>5, WindowIdsParts
    <2>2. CASE j = k
      <3>1. r.open[j].windows = pushed /\ s.open[j].windows = windows
        BY <1>1, <2>2 DEF windows
      <3>2. WindowIds(s.open[j]) \subseteq WindowIds(r.open[j])
        BY <1>4, <2>1, <3>1
      <3>3. ASSUME NEW v \in WindowIds(r.open[j]) PROVE v \in WindowIds(s.open[j]) \/ v = w
        BY <1>3, <1>4, <2>1, <3>1
      <3> QED  BY <1>1, <1>3, <3>2, <3>3
    <2>3. CASE j # k
      BY <1>1, <2>1, <2>3
    <2> QED  BY <2>2, <2>3
  <1>7. Planted(s) => GrownBut(s, r, 0)
    BY <1>1, <1>2, <1>3, <1>5, <1>6, TreesStay
  <1>8. Grows(s, r)
    BY <1>6, <1>7 DEF Grows, Enlarges, Grown
  <1> QED  BY <1>8 DEF r

\* add_terminal_pane_to_workspace_without_layout_reconcile
LEMMA AddPaneGrows ==
  ASSUME NEW s, Sound(s), IsStore(store), NEW k \in DOMAIN s.open
  PROVE  /\ Grows(s, AddPane(s, k))
         /\ AddPane(s, k).layouts = s.layouts /\ AddPane(s, k).nextSplit = s.nextSplit
         /\ s.made.windows + 1 \in WindowIds(AddPane(s, k).open[k])
  <1> DEFINE p == PushWindow(s, k)
             w == s.made.windows + 1
  <1>1. /\ Carries(s, p) /\ Found(p, w) /\ Grows(s, p)
        /\ p.layouts = s.layouts /\ p.nextSplit = s.nextSplit
        /\ p.open[k].windows = Append(s.open[k].windows, [id |-> w, tabs |-> {}])
    <2>1. Grows(s, p)
      BY PushWindowGrows
    <2>2. p = PushWindow(s, k)
      OBVIOUS
    <2> HIDE DEF p
    <2>3. /\ Carries(s, p) /\ Found(p, w) /\ p.layouts = s.layouts /\ p.nextSplit = s.nextSplit
          /\ \A j \in DOMAIN s.open :
               p.open[j].windows = IF j = k THEN Append(s.open[k].windows,
                                                        [id |-> s.made.windows + 1, tabs |-> {}])
                                   ELSE s.open[j].windows
      BY <2>2, PushWindowKeeps
    <2> QED  BY <2>1, <2>3
  <1>2. "terminal" \in Kinds
    BY WorkbenchAssumption
  <1>3. Sound(p)
    BY <1>1 DEF Carries
  <1> HIDE DEF p, w
  <1>4. Carries(p, AddTab(p, w, "terminal")) /\ Grows(p, AddTab(p, w, "terminal"))
    BY <1>1, <1>2, <1>3, AddTabCarries, AddTabGrows
  <1>5. IsShell(s) /\ IsShell(p) /\ IsShell(AddTab(p, w, "terminal"))
    BY <1>3, <1>4 DEF Carries, Sound
  <1>6. Grows(s, AddTab(p, w, "terminal"))
    BY <1>1, <1>4, <1>5, GrowsOn
  <1> DEFINE q == AddTab(p, w, "terminal")
  <1>7. SameWindows(p.open, q.open) /\ q.layouts = p.layouts /\ q.nextSplit = p.nextSplit
    BY <1>1, <1>2, <1>3, AddTabKeeps
  <1> HIDE DEF q
  <1>8. w \in WindowIds(q.open[k])
    <2>1. s.open \in Seq(Workspaces) /\ p.open \in Seq(Workspaces) /\ q.open \in Seq(Workspaces)
          /\ k \in DOMAIN p.open
      BY <1>1, <1>5 DEF IsShell, Carries, SameIds, q
    <2>2. s.open[k].windows \in Seq(Windows)
      BY <2>1, OpenParts
    <2>3. /\ Len(s.open[k].windows) + 1 \in DOMAIN p.open[k].windows
          /\ p.open[k].windows[Len(s.open[k].windows) + 1] = [id |-> w, tabs |-> {}]
      BY <1>1, <2>2
    <2>4. p.open[k].windows[Len(s.open[k].windows) + 1].id = w
      BY <2>3
    <2>5. w \in WindowIds(p.open[k])
      BY <2>1, <2>3, <2>4, WindowIdsParts
    <2> QED  BY <1>7, <2>1, <2>5, SameWindowIds
  <1> QED  BY <1>1, <1>6, <1>7, <1>8 DEF AddPane, p, w, q
------------------------------------------------------------------------------
\* One window of ensure_workspaces_have_terminal_panes.
FillStep(s, window) ==
  IF window.tabs = {} THEN AddTab(s, window.id, "terminal") ELSE s

\* FilledUpTo and EnsuredUpTo are the functions their definitions describe.
LEMMA FilledUpToSteps ==
  ASSUME NEW s, NEW windows, Len(windows) \in Nat
  PROVE  /\ FilledUpTo(s, windows)[0] = s
         /\ \A i \in 1 .. Len(windows) :
              FilledUpTo(s, windows)[i] = FillStep(FilledUpTo(s, windows)[i - 1], windows[i])
  <1> DEFINE Is(f, m) == f = [i \in 0 .. m |-> IF i = 0 THEN s
                                               ELSE FillStep(f[i - 1], windows[i])]
             T == {m \in Nat : \E f : Is(f, m)}
  <1>1. 0 \in T
    <2> DEFINE f == [i \in 0 .. 0 |-> s]
    <2>1. f = [i \in 0 .. 0 |-> IF i = 0 THEN s ELSE FillStep(f[i - 1], windows[i])]
      OBVIOUS
    <2> HIDE DEF f
    <2> QED  BY <2>1
  <1>2. ASSUME NEW m \in T PROVE m + 1 \in T
    <2>1. PICK f : Is(f, m)
      OBVIOUS
    <2> DEFINE v == FillStep(f[m], windows[m + 1])
               g == [i \in 0 .. m + 1 |-> IF i = m + 1 THEN v ELSE f[i]]
    <2>2. \A i \in 0 .. m : f[i] = IF i = 0 THEN s ELSE FillStep(f[i - 1], windows[i])
      BY <2>1
    <2>3. ASSUME NEW i \in 0 .. m + 1
          PROVE  g[i] = IF i = 0 THEN s ELSE FillStep(g[i - 1], windows[i])
      <3>1. CASE i = 0
        BY <2>2, <3>1
      <3>2. CASE i # 0 /\ i = m + 1
        <4>1. i - 1 = m /\ i - 1 \in 0 .. m + 1 /\ i - 1 # m + 1
          BY <3>2
        <4>2. g[i] = v /\ g[i - 1] = f[m]
          BY <3>2, <4>1
        <4> QED  BY <3>2, <4>2
      <3>3. CASE i # 0 /\ i # m + 1
        <4>1. i \in 0 .. m /\ i - 1 \in 0 .. m + 1 /\ i - 1 # m + 1
          BY <3>3
        <4>2. g[i] = f[i] /\ g[i - 1] = f[i - 1]
          BY <3>3, <4>1
        <4> QED  BY <2>2, <3>3, <4>1, <4>2
      <3> QED  BY <3>1, <3>2, <3>3
    <2>4. g = [i \in 0 .. m + 1 |-> g[i]]
      OBVIOUS
    <2> HIDE DEF g
    <2>5. Is(g, m + 1)
      BY <2>3, <2>4
    <2>6. m + 1 \in Nat
      OBVIOUS
    <2> HIDE DEF Is
    <2> QED  BY <2>5, <2>6
  <1>3. T = Nat
    <2> HIDE DEF T
    <2> QED  BY <1>1, <1>2, Induction DEF T
  <1>4. PICK f : Is(f, Len(windows))
    BY <1>3
  <1> DEFINE filled == FilledUpTo(s, windows)
  <1>5. filled = CHOOSE g : Is(g, Len(windows))
    BY DEF FilledUpTo, FillStep
  <1>6. Is(filled, Len(windows))
    BY <1>4, <1>5
  <1> HIDE DEF filled
  <1>7. \A i \in 0 .. Len(windows) :
          filled[i] = IF i = 0 THEN s ELSE FillStep(filled[i - 1], windows[i])
    BY <1>6
  <1>8. filled[0] = s /\ \A i \in 1 .. Len(windows) : filled[i] = FillStep(filled[i - 1], windows[i])
    BY <1>7
  <1> QED  BY <1>8 DEF filled

\* To do nothing.
LEMMA CarriesItself ==
  ASSUME NEW s, Sound(s)
  PROVE  Carries(s, s) /\ SameWindows(s.open, s.open)
  BY DEF Carries, SameIds, SameWindows

\* By induction along the windows of a workspace,
LEMMA FilledUpToCarries ==
  ASSUME NEW s, Sound(s), IsStore(store), NEW k \in DOMAIN s.open
  PROVE  /\ Carries(s, FilledUpTo(s, s.open[k].windows)[Len(s.open[k].windows)])
         /\ Grows(s, FilledUpTo(s, s.open[k].windows)[Len(s.open[k].windows)])
  <1> DEFINE windows == s.open[k].windows
             n == Len(windows)
             filled == FilledUpTo(s, windows)
             T == {i \in 0 .. n : /\ Carries(s, filled[i]) /\ SameWindows(s.open, filled[i].open)
                                 /\ Grows(s, filled[i])}
  <1>1. /\ n \in Nat /\ DOMAIN windows = 1 .. n /\ s.open \in Seq(Workspaces)
        /\ \A i \in 1 .. n : windows[i] \in Windows
    BY OpenParts DEF Sound, IsShell
  <1>2. filled[0] = s /\ \A i \in 1 .. n : filled[i] = FillStep(filled[i - 1], windows[i])
    <2> HIDE DEF windows
    <2> QED  BY <1>1, FilledUpToSteps
  <1>w. windows = s.open[k].windows
    OBVIOUS
  <1> HIDE DEF filled, n, windows
  <1>3. 0 \in T
    BY <1>1, <1>2, CarriesItself, GrowsItself DEF Sound
  <1>4. ASSUME NEW i \in 1 .. n, i - 1 \in T PROVE i \in T
    <2> DEFINE p == filled[i - 1]
               w == windows[i].id
    <2>1. /\ Carries(s, p) /\ SameWindows(s.open, p.open) /\ Grows(s, p)
          /\ Sound(p) /\ IsShell(p) /\ IsShell(s)
      BY <1>4 DEF Carries, Sound
    <2>2. filled[i] = FillStep(p, windows[i])
      BY <1>2
    <2> HIDE DEF p
    <2>3. w \in OpenWindows(p)
      <3>1. i \in DOMAIN s.open[k].windows /\ k \in DOMAIN s.open
        BY <1>1, <1>w
      <3>2. /\ Len(p.open) = Len(s.open) /\ Len(p.open[k].windows) = Len(windows)
            /\ p.open[k].windows[i].id = w
        BY <2>1, <3>1, <1>w DEF SameWindows, SameIds
      <3>3. p.open \in Seq(Workspaces) /\ k \in DOMAIN p.open
        BY <1>1, <2>1, <3>2 DEF IsShell
      <3>4. i \in DOMAIN p.open[k].windows
        BY <1>1, <1>w, <3>2, <3>3, OpenParts DEF n
      <3> QED  BY <3>2, <3>3, <3>4 DEF OpenWindows, ToSet, Ids
    <2>4. Found(p, w)
      <3>1. p.open \in Seq(Workspaces)
        BY <2>1 DEF IsShell
      <3> QED  BY <2>3, <3>1, OpenIsFound
    <2>5. Carries(p, filled[i]) /\ SameWindows(p.open, filled[i].open) /\ Grows(p, filled[i])
      <3>1. CASE windows[i].tabs = {}
        <4>1. filled[i] = AddTab(p, w, "terminal")
          BY <2>2, <3>1 DEF FillStep
        <4>2. "terminal" \in Kinds
          BY WorkbenchAssumption
        <4> QED  BY <2>1, <2>4, <4>1, <4>2, AddTabCarries, AddTabGrows
      <3>2. CASE windows[i].tabs # {}
        <4>1. filled[i] = p
          BY <2>2, <3>2 DEF FillStep
        <4> QED  BY <2>1, <4>1, CarriesItself, GrowsItself
      <3> QED  BY <3>1, <3>2
    <2>6. Carries(s, filled[i]) /\ Grows(s, filled[i])
      <3>1. IsShell(filled[i])
        BY <2>5 DEF Carries, Sound
      <3> QED  BY <2>1, <2>5, <3>1, CarriesOn, GrowsOn
    <2>7. SameWindows(s.open, filled[i].open)
      <3>1. DOMAIN p.open = DOMAIN s.open
        BY <2>1 DEF SameWindows, SameIds, IsShell
      <3>2. ASSUME NEW j \in DOMAIN s.open
            PROVE  DOMAIN p.open[j].windows = DOMAIN s.open[j].windows
        <4>1. Len(p.open[j].windows) = Len(s.open[j].windows)
          BY <2>1 DEF SameWindows
        <4>2. p.open \in Seq(Workspaces) /\ j \in DOMAIN p.open
          BY <2>1, <3>1 DEF IsShell
        <4> QED  BY <1>1, <4>1, <4>2, OpenParts
      <3> QED  BY <2>1, <2>5, <3>1, <3>2 DEF SameWindows, SameIds
    <2>8. i \in 0 .. n
      BY <1>1
    <2> QED  BY <2>6, <2>7, <2>8
  <1>5. n \in T
    <2> HIDE DEF T
    <2>1. 0 .. n \subseteq T
      BY <1>1, <1>3, <1>4, BoundedInduction
    <2> QED  BY <1>1, <2>1
  <1>6. Carries(s, filled[n]) /\ Grows(s, filled[n])
    BY <1>5
  <1> QED  BY <1>6 DEF filled, n, windows

\* for the workspace as a whole,
LEMMA EnsureWorkspaceCarries ==
  ASSUME NEW s, Sound(s), IsStore(store), NEW k \in DOMAIN s.open
  PROVE  Carries(s, EnsureWorkspace(s, k)) /\ Grows(s, EnsureWorkspace(s, k))
  <1>1. CASE s.open[k].windows = <<>>
    <2> DEFINE p == AddPane(s, k)
    <2>1. Carries(s, p) /\ Grows(s, p) /\ Sound(p) /\ IsShell(p) /\ IsShell(s)
      BY AddPaneCarries, AddPaneGrows DEF Carries, Sound
    <2> HIDE DEF p
    <2>2. k \in DOMAIN p.open
      BY <2>1 DEF Carries, SameIds, IsShell
    <2>3. Carries(p, Reconcile(p, k)) /\ Grows(p, Reconcile(p, k)) /\ IsShell(Reconcile(p, k))
      BY <2>1, <2>2, ReconcileLeaves, LeavesCarries, ReconcileGrows DEF Leaves
    <2>5. Carries(s, Reconcile(p, k)) /\ Grows(s, Reconcile(p, k))
      BY <2>1, <2>3, CarriesOn, GrowsOn
    <2>4. EnsureWorkspace(s, k) = Reconcile(p, k)
      BY <1>1 DEF EnsureWorkspace, p
    <2> QED  BY <2>4, <2>5
  <1>2. CASE s.open[k].windows # <<>>
    <2>1. EnsureWorkspace(s, k) = FilledUpTo(s, s.open[k].windows)[Len(s.open[k].windows)]
      BY <1>2 DEF EnsureWorkspace
    <2> QED  BY <2>1, FilledUpToCarries
  <1> QED  BY <1>1, <1>2

\* and along the workspaces: the recursion,
LEMMA EnsuredUpToSteps ==
  ASSUME NEW s, Len(s.open) \in Nat
  PROVE  /\ EnsuredUpTo(s)[0] = s
         /\ \A k \in 1 .. Len(s.open) :
              EnsuredUpTo(s)[k] = EnsureWorkspace(EnsuredUpTo(s)[k - 1], k)
  <1> DEFINE Is(f, m) == f = [k \in 0 .. m |-> IF k = 0 THEN s ELSE EnsureWorkspace(f[k - 1], k)]
             T == {m \in Nat : \E f : Is(f, m)}
  <1>1. 0 \in T
    <2> DEFINE f == [k \in 0 .. 0 |-> s]
    <2>1. f = [k \in 0 .. 0 |-> IF k = 0 THEN s ELSE EnsureWorkspace(f[k - 1], k)]
      OBVIOUS
    <2> HIDE DEF f
    <2> QED  BY <2>1
  <1>2. ASSUME NEW m \in T PROVE m + 1 \in T
    <2>1. PICK f : Is(f, m)
      OBVIOUS
    <2> DEFINE v == EnsureWorkspace(f[m], m + 1)
               g == [k \in 0 .. m + 1 |-> IF k = m + 1 THEN v ELSE f[k]]
    <2>2. \A k \in 0 .. m : f[k] = IF k = 0 THEN s ELSE EnsureWorkspace(f[k - 1], k)
      BY <2>1
    <2>3. ASSUME NEW k \in 0 .. m + 1
          PROVE  g[k] = IF k = 0 THEN s ELSE EnsureWorkspace(g[k - 1], k)
      <3>1. CASE k = 0
        BY <2>2, <3>1
      <3>2. CASE k # 0 /\ k = m + 1
        <4>1. k - 1 = m /\ k - 1 \in 0 .. m + 1 /\ k - 1 # m + 1
          BY <3>2
        <4>2. g[k] = v /\ g[k - 1] = f[m]
          BY <3>2, <4>1
        <4> QED  BY <3>2, <4>2
      <3>3. CASE k # 0 /\ k # m + 1
        <4>1. k \in 0 .. m /\ k - 1 \in 0 .. m + 1 /\ k - 1 # m + 1
          BY <3>3
        <4>2. g[k] = f[k] /\ g[k - 1] = f[k - 1]
          BY <3>3, <4>1
        <4> QED  BY <2>2, <3>3, <4>1, <4>2
      <3> QED  BY <3>1, <3>2, <3>3
    <2>4. g = [k \in 0 .. m + 1 |-> g[k]]
      OBVIOUS
    <2> HIDE DEF g
    <2>5. Is(g, m + 1)
      BY <2>3, <2>4
    <2>6. m + 1 \in Nat
      OBVIOUS
    <2> HIDE DEF Is
    <2> QED  BY <2>5, <2>6
  <1>3. T = Nat
    <2> HIDE DEF T
    <2> QED  BY <1>1, <1>2, Induction DEF T
  <1>4. PICK f : Is(f, Len(s.open))
    BY <1>3
  <1> DEFINE ensured == EnsuredUpTo(s)
  <1>5. ensured = CHOOSE g : Is(g, Len(s.open))
    BY DEF EnsuredUpTo
  <1>6. Is(ensured, Len(s.open))
    BY <1>4, <1>5
  <1> HIDE DEF ensured
  <1>7. \A k \in 0 .. Len(s.open) :
          ensured[k] = IF k = 0 THEN s ELSE EnsureWorkspace(ensured[k - 1], k)
    BY <1>6
  <1>8. ensured[0] = s /\ \A k \in 1 .. Len(s.open) : ensured[k] = EnsureWorkspace(ensured[k - 1], k)
    BY <1>7
  <1> QED  BY <1>8 DEF ensured

\* and ensure_workspaces_have_terminal_panes as a whole.
LEMMA EnsurePanesCarries ==
  ASSUME NEW s, Sound(s), IsStore(store)
  PROVE  Carries(s, EnsurePanes(s)) /\ Grows(s, EnsurePanes(s))
  <1> DEFINE n == Len(s.open)
             ensured == EnsuredUpTo(s)
             T == {k \in 0 .. n : Carries(s, ensured[k]) /\ Grows(s, ensured[k])}
  <1>1. n \in Nat /\ DOMAIN s.open = 1 .. n /\ s.active \in Nat /\ IsShell(s)
    BY DEF Sound, IsShell
  <1>2. ensured[0] = s /\ \A k \in 1 .. n : ensured[k] = EnsureWorkspace(ensured[k - 1], k)
    BY <1>1, EnsuredUpToSteps
  <1> HIDE DEF ensured, n
  <1>3. 0 \in T
    BY <1>1, <1>2, CarriesItself, GrowsItself
  <1>4. ASSUME NEW k \in 1 .. n, k - 1 \in T PROVE k \in T
    <2> DEFINE p == ensured[k - 1]
    <2>1. Carries(s, p) /\ Grows(s, p) /\ Sound(p) /\ IsShell(p)
      BY <1>4 DEF Carries, Sound
    <2>2. ensured[k] = EnsureWorkspace(p, k)
      BY <1>2
    <2> HIDE DEF p
    <2>3. k \in DOMAIN p.open
      <3>1. Len(p.open) = n
        BY <2>1 DEF Carries, SameIds, n
      <3> QED  BY <2>1, <3>1 DEF IsShell
    <2>4. Carries(p, ensured[k]) /\ Grows(p, ensured[k])
      BY <2>1, <2>2, <2>3, EnsureWorkspaceCarries
    <2>5. Carries(s, ensured[k]) /\ Grows(s, ensured[k])
      <3>1. IsShell(ensured[k])
        BY <2>4 DEF Carries, Sound
      <3> QED  BY <1>1, <2>1, <2>4, <3>1, CarriesOn, GrowsOn
    <2>6. k \in 0 .. n
      BY <1>1
    <2> QED  BY <2>5, <2>6
  <1>5. n \in T
    <2> HIDE DEF T
    <2>1. 0 .. n \subseteq T
      BY <1>1, <1>3, <1>4, BoundedInduction
    <2> QED  BY <1>1, <2>1
  <1> DEFINE e == ensured[n]
             m == Min({s.active, n})
  <1>6. Carries(s, e) /\ Grows(s, e) /\ Sound(e) /\ IsShell(e)
    BY <1>5 DEF Carries, Sound
  <1>7. m \in Nat /\ (m = s.active \/ m = n) /\ m <= n /\ m <= s.active
    <2>1. PICK x \in {s.active, n} : \A y \in {s.active, n} : x <= y
      BY <1>1
    <2> QED  BY <1>1, <2>1 DEF Min
  <1> HIDE DEF e, m
  <1> DEFINE r == [e EXCEPT !.active = m]
  <1>8. Carries(e, r) /\ IsShell(r)
    BY <1>6, <1>7, ActiveLeaves, LeavesCarries DEF Leaves
  <1>9. Carries(s, r)
    <2> HIDE DEF r
    <2> QED  BY <1>1, <1>6, <1>8, CarriesOn
  <1>11. ASSUME s.open # <<>> PROVE Grows(s, r)
    <2>1. r.open = e.open /\ DOMAIN e.open = 1 .. n /\ DOMAIN s.open = 1 .. n
      BY <1>1, <1>6, <1>8, ActiveLeaves, <1>7 DEF Leaves, Carries, SameIds, IsShell, n
    <2>2. ASSUME Planted(s) PROVE Grown(s, r)
      <3>1. n > 0
        BY <1>1, <1>11 DEF IsShell, n
      <3>2. m \in DOMAIN e.open
        BY <1>1, <1>7, <2>1, <2>2, <3>1 DEF Planted
      <3>3. Grows(e, r)
        BY <1>6, <3>2, ActiveGrows
      <3>4. Grows(s, r)
        <4> HIDE DEF r
        <4> QED  BY <1>1, <1>6, <1>8, <3>3, GrowsOn
      <3> QED  BY <2>2, <3>4 DEF Grows
    <2>3. Enlarges(s, r)
      BY <1>6, <2>1 DEF Grows, Enlarges
    <2> QED  BY <2>2, <2>3 DEF Grows
  <1>10. EnsurePanes(s) = IF s.open = <<>> THEN s ELSE r
    BY DEF EnsurePanes, e, m, n, ensured
  <1> QED  BY <1>1, <1>9, <1>10, <1>11, CarriesItself, GrowsItself
------------------------------------------------------------------------------
\* RemoveAt drops one element and keeps the order of the others.
LEMMA RemoveAtParts ==
  ASSUME NEW S, NEW u \in Seq(S), NEW i \in 1 .. Len(u)
  PROVE  /\ RemoveAt(u, i) \in Seq(S) /\ Len(RemoveAt(u, i)) = Len(u) - 1
         /\ \A j \in 1 .. Len(u) - 1 : RemoveAt(u, i)[j] = IF j < i THEN u[j] ELSE u[j + 1]
  <1> DEFINE a == SubSeq(u, 1, i - 1)
             b == SubSeq(u, i + 1, Len(u))
  <1>0. Len(u) \in Nat /\ DOMAIN u = 1 .. Len(u)
    OBVIOUS
  <1>1. a \in Seq(S) /\ Len(a) = i - 1 /\ \A j \in 1 .. i - 1 : a[j] = u[j]
    BY <1>0
  <1>2. b \in Seq(S) /\ Len(b) = Len(u) - i /\ \A j \in 1 .. Len(u) - i : b[j] = u[i + j]
    <2>1. i + 1 \in 1 .. Len(u) + 1 /\ Len(u) \in i + 1 - 1 .. Len(u)
      BY <1>0
    <2>2. b \in Seq(S) /\ Len(b) = IF i + 1 <= Len(u) THEN Len(u) - (i + 1) + 1 ELSE 0
      BY <1>0, <2>1, SubSeqProperties
    <2>3. \A j \in 1 .. Len(u) - (i + 1) + 1 : b[j] = u[(i + 1) + j - 1]
      BY <1>0, <2>1, SubSeqProperties
    <2>4. ASSUME NEW j \in 1 .. Len(u) - i PROVE b[j] = u[i + j]
      <3>1. j \in 1 .. Len(u) - (i + 1) + 1 /\ (i + 1) + j - 1 = i + j
        BY <1>0
      <3> HIDE DEF b
      <3> QED  BY <2>3, <3>1
    <2>5. (IF i + 1 <= Len(u) THEN Len(u) - (i + 1) + 1 ELSE 0) = Len(u) - i
      <3>1. Len(u) \in Nat /\ i \in Nat /\ i <= Len(u)
        BY <1>0
      <3>2. CASE i = Len(u)
        BY <3>1, <3>2
      <3>3. CASE i < Len(u)
        BY <3>1, <3>3
      <3> QED  BY <3>1, <3>2, <3>3
    <2> HIDE DEF b
    <2> QED  BY <2>2, <2>4, <2>5
  <1>3. RemoveAt(u, i) = a \o b
    BY DEF RemoveAt
  <1> HIDE DEF a, b
  <1>4. /\ a \o b \in Seq(S) /\ Len(a \o b) = Len(u) - 1
        /\ \A j \in 1 .. Len(u) - 1 : (a \o b)[j] = IF j < i THEN a[j] ELSE b[j - (i - 1)]
    <2>1. /\ a \o b \in Seq(S) /\ Len(a \o b) = Len(a) + Len(b)
          /\ \A j \in 1 .. Len(a) + Len(b) :
               (a \o b)[j] = IF j <= Len(a) THEN a[j] ELSE b[j - Len(a)]
      BY <1>1, <1>2, ConcatProperties
    <2> QED  BY <1>0, <1>1, <1>2, <2>1
  <1>5. ASSUME NEW j \in 1 .. Len(u) - 1
        PROVE  (a \o b)[j] = IF j < i THEN u[j] ELSE u[j + 1]
    BY <1>0, <1>1, <1>2, <1>4
  <1> QED  BY <1>3, <1>4, <1>5

\* What is left when these tabs go, and their sessions with them.
Drops(s, r, tabs) ==
  /\ r.terminals = s.terminals \ SessionsIn(tabs, "terminal")
  /\ r.browsers = s.browsers \ SessionsIn(tabs, "web")
  /\ AllTabs(r.open) \subseteq AllTabs(s.open)
  /\ AllTabs(s.open) \subseteq AllTabs(r.open) \cup tabs
  /\ Disjoint(s.open) => AllTabs(r.open) \cap tabs = {} /\ Disjoint(r.open)

\* A session stopped with every tab that goes: none strays.
LEMMA DropsKeeps ==
  ASSUME NEW s, Sound(s), NEW r, IsShell(r), NEW tabs \in SUBSET Tabs, Drops(s, r, tabs)
  PROVE  /\ Sound(r)
         /\ AllRun(s) /\ Disjoint(s.open) => AllRun(r) /\ Disjoint(r.open)
         /\ Apart(s) /\ OpenIds(s) \subseteq OpenIds(r) => Apart(r)
  <1>1. NoStray(r)
    <2>1. ASSUME NEW n \in r.terminals
          PROVE  \E u \in AllTabs(r.open) : u.kind = "terminal" /\ u.id = n
      <3>1. PICK u \in AllTabs(s.open) : u.kind = "terminal" /\ u.id = n
        BY DEF Drops, Sound, NoStray, SessionsIn
      <3>2. u \notin tabs
        BY <3>1 DEF Drops, SessionsIn
      <3> QED  BY <3>1, <3>2 DEF Drops
    <2>2. ASSUME NEW n \in r.browsers
          PROVE  \E u \in AllTabs(r.open) : u.kind = "web" /\ u.id = n
      <3>1. PICK u \in AllTabs(s.open) : u.kind = "web" /\ u.id = n
        BY DEF Drops, Sound, NoStray, SessionsIn
      <3>2. u \notin tabs
        BY <3>1 DEF Drops, SessionsIn
      <3> QED  BY <3>1, <3>2 DEF Drops
    <2> QED  BY <2>1, <2>2 DEF NoStray, SessionsIn
  <1>2. Bounded(r)
    <2>1. UsedTabs(r) \subseteq UsedTabs(s)
      BY DEF Drops, UsedTabs
    <2> QED  BY <2>1 DEF Sound, Bounded
  <1>3. ASSUME AllRun(s), Disjoint(s.open) PROVE AllRun(r) /\ Disjoint(r.open)
    <2>1. ASSUME NEW u \in AllTabs(r.open), u.kind = "terminal" PROVE u.id \in r.terminals
      <3>1. u \in AllTabs(s.open) /\ u \notin tabs
        BY <1>3 DEF Drops
      <3>2. u.id \in s.terminals
        BY <1>3, <2>1, <3>1 DEF AllRun, SessionsIn
      <3>3. ASSUME NEW v \in tabs, v.kind = "terminal" PROVE v.id # u.id
        <4>1. u \in Tabs
          BY <3>1, TabsAreIn DEF Sound, IsShell
        <4>2. u = [id |-> u.id, kind |-> u.kind] /\ v = [id |-> v.id, kind |-> v.kind]
          BY <4>1 DEF Tabs
        <4> QED  BY <2>1, <3>1, <3>3, <4>2
      <3> QED  BY <3>2, <3>3 DEF Drops, SessionsIn
    <2> QED  BY <1>3, <2>1 DEF AllRun, SessionsIn, Drops
  <1>4. ASSUME Apart(s), OpenIds(s) \subseteq OpenIds(r) PROVE Apart(r)
    BY <1>4 DEF Apart, Drops
  <1> QED  BY <1>1, <1>2, <1>3, <1>4 DEF Sound

\* The sessions of these tabs stop.
LEMMA StopSessionsEffect ==
  ASSUME NEW s, IsShell(s), NEW tabs
  PROVE  LET r == StopSessions(s, tabs)
         IN  /\ IsShell(r)
             /\ r.open = s.open /\ r.closed = s.closed /\ r.made = s.made
             /\ r.layouts = s.layouts /\ r.nextSplit = s.nextSplit /\ r.active = s.active
             /\ r.terminals = s.terminals \ SessionsIn(tabs, "terminal")
             /\ r.browsers = s.browsers \ SessionsIn(tabs, "web")
  <1> DEFINE terminals == s.terminals \ SessionsIn(tabs, "terminal")
             browsers == s.browsers \ SessionsIn(tabs, "web")
             r == StopSessions(s, tabs)
  <1>1. r = [s EXCEPT !.terminals = terminals, !.browsers = browsers]
    BY DEF StopSessions
  <1> HIDE DEF terminals, browsers, r
  <1>2. r = ShellOf(s.open, s.active, s.closed, terminals, browsers, s.layouts, s.nextSplit, s.made)
    BY <1>1 DEF IsShell, ShellOf
  <1>3. /\ s.open \in Seq(Workspaces) /\ s.active \in Nat /\ s.closed \in SUBSET Nat
        /\ s.made \in [workspaces: Nat, windows: Nat]
        /\ terminals \in SUBSET (Nat \ {0}) /\ browsers \in SUBSET (Nat \ {0})
    BY DEF IsShell, terminals, browsers
  <1>4. /\ IsShell(r) /\ r.open = s.open /\ r.closed = s.closed /\ r.made = s.made
        /\ r.layouts = s.layouts /\ r.nextSplit = s.nextSplit /\ r.active = s.active
        /\ r.terminals = terminals /\ r.browsers = browsers
    BY <1>2, <1>3, ShellOfParts
  <1> QED  BY <1>4 DEF terminals, browsers, r

\* close_window before it reconciles the panes
Unwindowed(s, w) ==
  [StopSessions(s, WindowOf(s, w).tabs)
     EXCEPT !.open[HomeOf(s, w)].windows = RemoveAt(@, PlaceOf(s, w)), !.active = HomeOf(s, w)]

LEMMA UnwindowedCarries ==
  ASSUME NEW s, Sound(s), NEW w, Found(s, w)
  PROVE  LET k == HomeOf(s, w)
             r == Unwindowed(s, w)
         IN  /\ Carries(s, r)
             /\ r.layouts = s.layouts /\ r.nextSplit = s.nextSplit /\ r.made = s.made /\ r.active = k
             /\ \A j \in DOMAIN s.open : j # k => r.open[j].windows = s.open[j].windows
             /\ \A j \in DOMAIN r.open[k].windows : \E l \in DOMAIN s.open[k].windows :
                  r.open[k].windows[j] = s.open[k].windows[l]
  <1> DEFINE k == HomeOf(s, w)
             i == PlaceOf(s, w)
             windows == s.open[k].windows
             tabs == WindowOf(s, w).tabs
             left == RemoveAt(windows, i)
             open == WithWindows(s.open, k, left)
             terminals == s.terminals \ SessionsIn(tabs, "terminal")
             browsers == s.browsers \ SessionsIn(tabs, "web")
             r == Unwindowed(s, w)
  <1>1. IsShell(s) /\ s.open \in Seq(Workspaces) /\ k \in DOMAIN s.open /\ k \in Nat
        /\ s.closed \in SUBSET Nat /\ s.made \in [workspaces: Nat, windows: Nat]
    BY DEF Sound, IsShell, Found
  <1>2. windows \in Seq(Windows) /\ i \in 1 .. Len(windows) /\ tabs = windows[i].tabs
        /\ DOMAIN windows = 1 .. Len(windows) /\ Len(windows) \in Nat
    BY <1>1, OpenParts DEF Found, WindowOf
  <1>3. tabs \in SUBSET Tabs
    BY <1>1, <1>2, OpenParts DEF Windows
  <1>4. terminals \in SUBSET (Nat \ {0}) /\ browsers \in SUBSET (Nat \ {0})
    BY DEF Sound, IsShell
  <1>5. r = ShellOf(open, k, s.closed, terminals, browsers, s.layouts, s.nextSplit, s.made)
    <2> DEFINE q == StopSessions(s, tabs)
    <2>1. /\ IsShell(q) /\ q.open = s.open /\ q.closed = s.closed /\ q.made = s.made
          /\ q.layouts = s.layouts /\ q.nextSplit = s.nextSplit
          /\ q.terminals = terminals /\ q.browsers = browsers
      BY <1>1, StopSessionsEffect
    <2> HIDE DEF terminals, browsers, tabs
    <2>2. r = [q EXCEPT !.open = open, !.active = k]
      BY <2>1 DEF Unwindowed, WithWindows, tabs
    <2> HIDE DEF open, k, r, q
    <2> QED  BY <2>1, <2>2 DEF ShellOf, IsShell
  <1> HIDE DEF k, i, windows, tabs, terminals, browsers, r
  <1>6. /\ left \in Seq(Windows) /\ Len(left) = Len(windows) - 1
        /\ \A j \in 1 .. Len(windows) - 1 : left[j] = IF j < i THEN windows[j] ELSE windows[j + 1]
    BY <1>2, RemoveAtParts
  <1> HIDE DEF left
  <1>7. /\ open \in Seq(Workspaces) /\ Len(open) = Len(s.open) /\ DOMAIN open = DOMAIN s.open
        /\ \A j \in DOMAIN s.open :
             /\ open[j].id = s.open[j].id /\ open[j].root = s.open[j].root
             /\ open[j].windows = IF j = k THEN left ELSE s.open[j].windows
    <2>1. open = WithWindows(s.open, k, left)
      OBVIOUS
    <2> HIDE DEF open
    <2> QED  BY <1>1, <1>6, <2>1, WindowsChange
  <1> HIDE DEF open
  <1>8. /\ IsShell(r) /\ r.open = open /\ r.closed = s.closed /\ r.terminals = terminals
        /\ r.browsers = browsers /\ r.made = s.made
        /\ r.layouts = s.layouts /\ r.nextSplit = s.nextSplit /\ r.active = k
    BY <1>1, <1>4, <1>5, <1>7, ShellOfParts
  \* where the window at j was
  <1> DEFINE Was(l, j) == IF l = k /\ j >= i THEN j + 1 ELSE j
  <1>9. ASSUME NEW l \in DOMAIN s.open, NEW j \in DOMAIN open[l].windows
        PROVE  /\ Was(l, j) \in DOMAIN s.open[l].windows
               /\ ~(l = k /\ Was(l, j) = i)
               /\ open[l].windows[j].tabs = s.open[l].windows[Was(l, j)].tabs
    <2>1. CASE l # k
      BY <1>7, <2>1
    <2>2. CASE l = k
      <3>1. open[l].windows = left /\ s.open[l].windows = windows
        BY <1>7, <2>2 DEF windows
      <3>2. j \in 1 .. Len(windows) - 1
        BY <1>6, <1>9, <3>1
      <3>3. left[j] = windows[Was(l, j)] /\ Was(l, j) \in 1 .. Len(windows) /\ Was(l, j) # i
        BY <1>2, <1>6, <2>2, <3>2
      <3> QED  BY <1>2, <2>2, <3>1, <3>3
    <2> QED  BY <2>1, <2>2
  <1>10. ASSUME NEW l \in DOMAIN s.open, NEW j \in DOMAIN s.open[l].windows, ~(l = k /\ j = i)
         PROVE  \E m \in DOMAIN open[l].windows :
                  open[l].windows[m].tabs = s.open[l].windows[j].tabs
    <2>1. CASE l # k
      BY <1>7, <2>1
    <2>2. CASE l = k
      <3> DEFINE m == IF j < i THEN j ELSE j - 1
      <3>1. open[l].windows = left /\ s.open[l].windows = windows
        BY <1>7, <2>2 DEF windows
      <3>2. m \in 1 .. Len(windows) - 1 /\ left[m] = windows[j]
        BY <1>2, <1>6, <1>10, <2>2, <3>1
      <3>3. m \in DOMAIN left
        BY <1>6, <3>2
      <3> QED  BY <3>1, <3>2, <3>3
    <2> QED  BY <2>1, <2>2
  <1>11. \A t : t \in AllTabs(open) <=>
           \E l \in DOMAIN s.open : \E j \in DOMAIN open[l].windows : t \in open[l].windows[j].tabs
    BY <1>7, TabsAreIn
  <1>12. \A t : t \in AllTabs(s.open) <=>
           \E l \in DOMAIN s.open : \E j \in DOMAIN s.open[l].windows : t \in s.open[l].windows[j].tabs
    BY <1>1, TabsAreIn
  <1>13. Drops(s, r, tabs)
    <2>1. AllTabs(open) \subseteq AllTabs(s.open)
      BY <1>9, <1>11, <1>12
    <2>2. ASSUME NEW t \in AllTabs(s.open), t \notin tabs PROVE t \in AllTabs(open)
      <3>0. PICK l \in DOMAIN s.open :
              \E j \in DOMAIN s.open[l].windows : t \in s.open[l].windows[j].tabs
        BY <1>12
      <3>1. PICK j \in DOMAIN s.open[l].windows : t \in s.open[l].windows[j].tabs
        BY <3>0
      <3>2. ~(l = k /\ j = i)
        BY <1>2, <2>2, <3>1 DEF windows
      <3> QED  BY <1>10, <1>11, <3>1, <3>2
    <2>3. ASSUME Disjoint(s.open) PROVE AllTabs(open) \cap tabs = {} /\ Disjoint(open)
      <3>1. ASSUME NEW t \in tabs, NEW l \in DOMAIN s.open, NEW j \in DOMAIN open[l].windows
            PROVE  t \notin open[l].windows[j].tabs
        <4>1. t \in s.open[k].windows[i].tabs /\ k \in DOMAIN s.open /\ i \in DOMAIN s.open[k].windows
          BY <1>1, <1>2 DEF windows
        <4>2. /\ Was(l, j) \in DOMAIN s.open[l].windows /\ ~(l = k /\ Was(l, j) = i)
              /\ open[l].windows[j].tabs = s.open[l].windows[Was(l, j)].tabs
          BY <1>9
        <4> HIDE DEF Was
        <4> QED  BY <2>3, <4>1, <4>2 DEF Disjoint
      <3>2. ASSUME NEW x \in DOMAIN s.open, NEW y \in DOMAIN s.open,
                   NEW l \in DOMAIN open[x].windows, NEW j \in DOMAIN open[y].windows, NEW t,
                   t \in open[x].windows[l].tabs, t \in open[y].windows[j].tabs
            PROVE  x = y /\ l = j
        <4>1. x = y /\ Was(x, l) = Was(y, j)
          <5>1. /\ Was(x, l) \in DOMAIN s.open[x].windows /\ t \in s.open[x].windows[Was(x, l)].tabs
                /\ Was(y, j) \in DOMAIN s.open[y].windows /\ t \in s.open[y].windows[Was(y, j)].tabs
            BY <1>9, <3>2
          <5> HIDE DEF Was
          <5> QED  BY <2>3, <5>1 DEF Disjoint
        <4>2. l \in Nat /\ j \in Nat /\ i \in Nat
          <5>1. DOMAIN open[x].windows = 1 .. Len(open[x].windows)
                /\ DOMAIN open[y].windows = 1 .. Len(open[y].windows)
                /\ Len(open[x].windows) \in Nat /\ Len(open[y].windows) \in Nat
            BY <1>7, OpenParts
          <5> QED  BY <1>2, <3>2, <5>1
        <4> QED  BY <4>1, <4>2
      <3> QED  BY <1>7, <1>11, <3>1, <3>2 DEF Disjoint
    <2> QED  BY <1>8, <2>1, <2>2, <2>3 DEF Drops, terminals, browsers
  <1>14. SameIds(s.open, r.open) /\ OpenIds(r) = OpenIds(s)
    <2>1. SameIds(s.open, r.open)
      BY <1>7, <1>8 DEF SameIds
    <2> QED  BY <1>1, <1>7, <1>8, <2>1, SameOpenIds
  <1>15. Carries(s, r)
    <2>1. /\ Sound(r)
          /\ AllRun(s) /\ Disjoint(s.open) => AllRun(r) /\ Disjoint(r.open)
          /\ Apart(s) /\ OpenIds(s) \subseteq OpenIds(r) => Apart(r)
      BY <1>3, <1>8, <1>13, DropsKeeps
    <2> QED  BY <1>8, <1>14, <2>1 DEF Carries, Whole
  <1>16. \A j \in DOMAIN r.open[k].windows : \E l \in DOMAIN windows :
           r.open[k].windows[j] = windows[l]
    <2>1. r.open[k].windows = left
      BY <1>1, <1>7, <1>8
    <2>2. DOMAIN left = 1 .. Len(windows) - 1
      BY <1>2, <1>6
    <2>3. ASSUME NEW j \in DOMAIN left PROVE \E l \in DOMAIN windows : left[j] = windows[l]
      BY <1>2, <1>6, <2>2
    <2> QED  BY <2>1, <2>3
  <1>17. \A j \in DOMAIN s.open : j # k => r.open[j].windows = s.open[j].windows
    BY <1>7, <1>8
  <1> QED  BY <1>8, <1>15, <1>16, <1>17 DEF r, k, windows

\* close_window
LEMMA CloseWindowCarries ==
  ASSUME NEW s, Sound(s), NEW w, Found(s, w)
  PROVE  Carries(s, CloseWindow(s, w)) /\ (Planted(s) => Grown(s, CloseWindow(s, w)))
  <1> DEFINE k == HomeOf(s, w)
             r == Unwindowed(s, w)
             c == Reconcile(r, k)
  <1>1. /\ Carries(s, r)
        /\ r.layouts = s.layouts /\ r.nextSplit = s.nextSplit /\ r.made = s.made /\ r.active = k
        /\ \A j \in DOMAIN s.open : j # k => r.open[j].windows = s.open[j].windows
        /\ \A j \in DOMAIN r.open[k].windows : \E l \in DOMAIN s.open[k].windows :
             r.open[k].windows[j] = s.open[k].windows[l]
    BY UnwindowedCarries
  <1>2. CloseWindow(s, w) = c
    BY DEF CloseWindow, Unwindowed
  <1>3. /\ IsShell(s) /\ s.open \in Seq(Workspaces) /\ k \in DOMAIN s.open /\ s.made.windows \in Nat
        /\ s.made.windows <= s.made.windows
    BY DEF Sound, IsShell, Found
  <1> HIDE DEF k, r
  <1>4. /\ IsShell(r) /\ Sound(r) /\ r.open \in Seq(Workspaces) /\ SameIds(s.open, r.open)
        /\ DOMAIN r.open = DOMAIN s.open
    BY <1>1, <1>3 DEF Carries, Sound, IsShell, SameIds
  <1>5. Carries(r, c) /\ IsShell(c)
    BY <1>4, ReconcileLeaves, LeavesCarries DEF Leaves
  <1>6. Carries(s, c)
    BY <1>1, <1>3, <1>4, <1>5, CarriesOn
  <1>7. ASSUME Planted(s) PROVE Grown(s, c)
    <2>1. ASSUME NEW j \in DOMAIN s.open
          PROVE  /\ j # k => WindowIds(s.open[j]) \subseteq WindowIds(r.open[j])
                 /\ WindowIds(r.open[j]) \subseteq WindowIds(s.open[j])
      <3>1. CASE j = k
        <4>1. \A v : v \in WindowIds(r.open[k])
                <=> \E i \in DOMAIN r.open[k].windows : v = r.open[k].windows[i].id
          <5>1. r.open \in Seq(Workspaces) /\ k \in DOMAIN r.open
            BY <1>3, <1>4
          <5> HIDE DEF c
          <5> QED  BY <5>1, WindowIdsParts
        <4>2. \A v : v \in WindowIds(s.open[k])
                <=> \E i \in DOMAIN s.open[k].windows : v = s.open[k].windows[i].id
          BY <1>3, WindowIdsParts
        <4>3. WindowIds(r.open[k]) \subseteq WindowIds(s.open[k])
          BY <1>1, <4>1, <4>2
        <4> QED  BY <3>1, <4>3
      <3>2. CASE j # k
        BY <1>1, <3>2 DEF WindowIds
      <3> QED  BY <3>1, <3>2
    <2>2. GrownBut(s, r, k)
      BY <1>1, <1>3, <1>4, <1>7, <2>1, TreesStay
    <2>3. Grown(r, c) /\ FitAt(c, k)
      BY <1>3, <1>4, <2>2, ReconcileGrows DEF GrownBut, Grows
    <2>4. GrownBut(s, c, k)
      BY <1>3, <1>4, <1>5, <2>2, <2>3, GrownOn
    <2> QED  BY <1>3, <2>3, <2>4 DEF Grown, GrownBut
  <1> QED  BY <1>2, <1>6, <1>7

\* The window a tab is taken from, and its open workspaces afterwards.
LEMMA TakeTabEffect ==
  ASSUME NEW s, IsShell(s), NEW w, Found(s, w), NEW t
  PROVE  LET r == TakeTab(s, w, t)
         IN  /\ IsShell(r)
             /\ r.open = WithTabs(s.open, HomeOf(s, w), PlaceOf(s, w), WindowOf(s, w).tabs \ {t})
             /\ r.closed = s.closed /\ r.made = s.made /\ r.layouts = s.layouts
             /\ r.nextSplit = s.nextSplit /\ r.active = s.active
             /\ r.terminals = s.terminals /\ r.browsers = s.browsers
  <1> DEFINE k == HomeOf(s, w)
             i == PlaceOf(s, w)
             tabs == WindowOf(s, w).tabs \ {t}
             open == WithTabs(s.open, k, i, tabs)
             r == TakeTab(s, w, t)
  <1>1. /\ s.open \in Seq(Workspaces) /\ k \in DOMAIN s.open /\ i \in DOMAIN s.open[k].windows
        /\ s.active \in Nat /\ s.closed \in SUBSET Nat
        /\ s.terminals \in SUBSET (Nat \ {0}) /\ s.browsers \in SUBSET (Nat \ {0})
        /\ s.made \in [workspaces: Nat, windows: Nat]
    BY DEF IsShell, Found
  <1>2. tabs \in SUBSET Tabs
    BY <1>1, OpenParts DEF WindowOf, Windows
  <1>3. r = [s EXCEPT !.open = open]
    BY DEF TakeTab, WithTabs, WindowOf
  <1> HIDE DEF k, i, tabs, r
  <1>4. open \in Seq(Workspaces)
    <2>1. open = WithTabs(s.open, k, i, tabs)
      OBVIOUS
    <2> HIDE DEF open
    <2> QED  BY <1>1, <1>2, <2>1, TabsChange
  <1> HIDE DEF open
  <1>5. r = ShellOf(open, s.active, s.closed, s.terminals, s.browsers, s.layouts, s.nextSplit, s.made)
    BY <1>3 DEF IsShell, ShellOf
  <1>6. /\ IsShell(r) /\ r.open = open /\ r.closed = s.closed /\ r.made = s.made
        /\ r.layouts = s.layouts /\ r.nextSplit = s.nextSplit /\ r.active = s.active
        /\ r.terminals = s.terminals /\ r.browsers = s.browsers
    BY <1>1, <1>4, <1>5, ShellOfParts
  <1> QED  BY <1>6 DEF open, r, k, i, tabs

\* close_window_tab
LEMMA CloseTabCarries ==
  ASSUME NEW s, Sound(s), NEW w, Found(s, w), NEW t \in WindowOf(s, w).tabs
  PROVE  Carries(s, CloseTab(s, w, t)) /\ Grows(s, CloseTab(s, w, t))
  <1> DEFINE k == HomeOf(s, w)
             i == PlaceOf(s, w)
             old == s.open[k].windows[i].tabs
             p == TakeTab(s, w, t)
             q == StopSessions(p, {t})
             r == [q EXCEPT !.active = k]
             open == WithTabs(s.open, k, i, old \ {t})
  <1>1. /\ IsShell(s) /\ s.open \in Seq(Workspaces) /\ k \in DOMAIN s.open
        /\ i \in DOMAIN s.open[k].windows /\ k \in Nat
    BY DEF Sound, IsShell, Found
  <1>2. old \in SUBSET Tabs /\ t \in old /\ t \in Tabs /\ WindowOf(s, w).tabs = old
    BY <1>1, OpenParts DEF WindowOf, Windows
  <1>3. /\ IsShell(p) /\ p.open = open /\ p.closed = s.closed /\ p.made = s.made
        /\ p.layouts = s.layouts /\ p.nextSplit = s.nextSplit /\ p.terminals = s.terminals /\ p.browsers = s.browsers
    <2>1. /\ IsShell(p) /\ p.closed = s.closed /\ p.made = s.made
          /\ p.open = WithTabs(s.open, HomeOf(s, w), PlaceOf(s, w), WindowOf(s, w).tabs \ {t})
          /\ p.terminals = s.terminals /\ p.browsers = s.browsers
          /\ p.layouts = s.layouts /\ p.nextSplit = s.nextSplit
      <3> HIDE DEF k, i, old, open
      <3>1. IsShell(s) /\ Found(s, w)
        BY <1>1
      <3> QED  BY <3>1, TakeTabEffect
    <2> HIDE DEF p, old
    <2> QED  BY <1>2, <2>1
  <1> HIDE DEF p, open
  <1>4. /\ IsShell(q) /\ q.open = open /\ q.closed = s.closed /\ q.made = s.made
        /\ q.layouts = s.layouts /\ q.nextSplit = s.nextSplit
        /\ q.terminals = s.terminals \ SessionsIn({t}, "terminal")
        /\ q.browsers = s.browsers \ SessionsIn({t}, "web")
    BY <1>3, StopSessionsEffect
  <1> HIDE DEF q
  <1>5. Leaves(q, r)
    BY <1>1, <1>4, ActiveLeaves
  <1>a. r.layouts = s.layouts /\ r.nextSplit = s.nextSplit /\ r.active = k
    BY <1>4 DEF IsShell
  <1> HIDE DEF k, i, r, old
  <1>6. /\ open \in Seq(Workspaces) /\ DOMAIN open = DOMAIN s.open
        /\ SameIds(s.open, open) /\ SameWindows(s.open, open)
        /\ \A j \in DOMAIN s.open :
             /\ DOMAIN open[j].windows = DOMAIN s.open[j].windows
             /\ \A l \in DOMAIN s.open[j].windows :
                  open[j].windows[l].tabs = IF j = k /\ l = i THEN old \ {t}
                                            ELSE s.open[j].windows[l].tabs
    <2>1. old \ {t} \in SUBSET Tabs /\ open = WithTabs(s.open, k, i, old \ {t})
      BY <1>2 DEF open
    <2>2. /\ open \in Seq(Workspaces) /\ Len(open) = Len(s.open) /\ DOMAIN open = DOMAIN s.open
          /\ \A j \in DOMAIN s.open :
               /\ open[j].id = s.open[j].id /\ open[j].root = s.open[j].root
               /\ DOMAIN open[j].windows = DOMAIN s.open[j].windows
               /\ \A l \in DOMAIN s.open[j].windows :
                    open[j].windows[l].tabs = IF j = k /\ l = i THEN old \ {t}
                                              ELSE s.open[j].windows[l].tabs
      BY <1>1, <2>1, TabsChange, SMTT(20)
    <2>3. \A j \in DOMAIN s.open :
            /\ Len(open[j].windows) = Len(s.open[j].windows)
            /\ \A l \in DOMAIN s.open[j].windows : open[j].windows[l].id = s.open[j].windows[l].id
      BY <1>1, <2>1, TabsChange, SMTT(20)
    <2> QED  BY <2>2, <2>3 DEF SameIds, SameWindows
  <1>7. \A x : x \in AllTabs(open) <=>
          \E j \in DOMAIN s.open : \E l \in DOMAIN s.open[j].windows : x \in open[j].windows[l].tabs
    BY <1>6, TabsAreIn
  <1>8. \A x : x \in AllTabs(s.open) <=>
          \E j \in DOMAIN s.open : \E l \in DOMAIN s.open[j].windows : x \in s.open[j].windows[l].tabs
    BY <1>1, TabsAreIn
  <1>9. ASSUME NEW j \in DOMAIN s.open, NEW l \in DOMAIN s.open[j].windows, NEW x
        PROVE  x \in open[j].windows[l].tabs
                 <=> x \in s.open[j].windows[l].tabs /\ ~(j = k /\ l = i /\ x = t)
    BY <1>6 DEF old
  <1>10. Drops(s, q, {t})
    <2>1. AllTabs(open) \subseteq AllTabs(s.open) /\ AllTabs(s.open) \subseteq AllTabs(open) \cup {t}
      BY <1>7, <1>8, <1>9
    <2>2. ASSUME Disjoint(s.open) PROVE t \notin AllTabs(open) /\ Disjoint(open)
      <3>1. ASSUME NEW j \in DOMAIN s.open, NEW l \in DOMAIN s.open[j].windows
            PROVE  t \notin open[j].windows[l].tabs
        <4>1. t \in s.open[k].windows[i].tabs
          BY <1>2 DEF old
        <4> QED  BY <1>1, <1>9, <2>2, <4>1 DEF Disjoint
      <3>2. Disjoint(open)
        BY <1>6, <1>9, <2>2 DEF Disjoint
      <3> QED  BY <1>7, <3>1, <3>2
    <2> QED  BY <1>4, <2>1, <2>2 DEF Drops
  <1>11. OpenIds(q) = OpenIds(s)
    BY <1>1, <1>4, <1>6, SameOpenIds
  <1>12. Carries(s, q)
    <2>1. {t} \in SUBSET Tabs
      BY <1>2
    <2>2. /\ Sound(q)
          /\ AllRun(s) /\ Disjoint(s.open) => AllRun(q) /\ Disjoint(q.open)
          /\ Apart(s) /\ OpenIds(s) \subseteq OpenIds(q) => Apart(q)
      BY <1>4, <1>10, <2>1, DropsKeeps
    <2> QED  BY <1>4, <1>6, <1>11, <2>2 DEF Carries, Whole
  <1>13. Carries(q, r) /\ IsShell(r)
    BY <1>5, <1>12, LeavesCarries DEF Carries, Leaves
  <1>14. Carries(s, r)
    BY <1>1, <1>4, <1>12, <1>13, CarriesOn
  <1>15. Grows(s, r)
    <2>1. IsShell(r) /\ r.made = s.made /\ r.open = open
      BY <1>4, <1>5 DEF Leaves
    <2> QED  BY <1>1, <1>6, <1>a, <2>1, SameWindowsGrow
  <1> QED  BY <1>14, <1>15 DEF CloseTab, r, q, p, k

\* What moves a tab keeps all of them.
LEMMA MoveTabCarries ==
  ASSUME NEW s, Sound(s), NEW from, Found(s, from), NEW t \in WindowOf(s, from).tabs,
         NEW to, Found(s, to)
  PROVE  Carries(s, MoveTab(s, from, t, to)) /\ Grows(s, MoveTab(s, from, t, to))
  <1> DEFINE k == HomeOf(s, from)
             i == PlaceOf(s, from)
             l == HomeOf(s, to)
             j == PlaceOf(s, to)
             p == TakeTab(s, from, t)
             taken == s.open[k].windows[i].tabs \ {t}
             tabs == p.open[l].windows[j].tabs \cup {t}
             open == WithTabs(p.open, l, j, tabs)
             r == MoveTab(s, from, t, to)
  <1>1. /\ IsShell(s) /\ s.open \in Seq(Workspaces)
        /\ k \in DOMAIN s.open /\ i \in DOMAIN s.open[k].windows
        /\ l \in DOMAIN s.open /\ j \in DOMAIN s.open[l].windows /\ l \in Nat
    BY DEF Sound, IsShell, Found
  <1>2. t \in s.open[k].windows[i].tabs /\ taken \in SUBSET Tabs /\ t \in Tabs
        /\ WindowOf(s, from).tabs = s.open[k].windows[i].tabs
    BY <1>1, OpenParts DEF WindowOf, Windows
  <1>3. /\ IsShell(p) /\ p.open = WithTabs(s.open, k, i, taken) /\ p.closed = s.closed
        /\ p.made = s.made /\ p.terminals = s.terminals /\ p.browsers = s.browsers
        /\ p.layouts = s.layouts /\ p.nextSplit = s.nextSplit
    <2>1. /\ IsShell(p) /\ p.closed = s.closed /\ p.made = s.made
          /\ p.layouts = s.layouts /\ p.nextSplit = s.nextSplit
          /\ p.open = WithTabs(s.open, HomeOf(s, from), PlaceOf(s, from), WindowOf(s, from).tabs \ {t})
          /\ p.terminals = s.terminals /\ p.browsers = s.browsers
      <3> HIDE DEF k, i, l, j
      <3>1. IsShell(s) /\ Found(s, from)
        BY <1>1
      <3> QED  BY <3>1, TakeTabEffect
    <2> HIDE DEF p
    <2> QED  BY <1>2, <2>1
  <1>4. r = [p EXCEPT !.open = open, !.active = l]
    BY DEF MoveTab, WithTabs
  <1> HIDE DEF k, i, l, j, p, taken, r
  <1>5. /\ p.open \in Seq(Workspaces) /\ DOMAIN p.open = DOMAIN s.open
        /\ SameIds(s.open, p.open) /\ SameWindows(s.open, p.open)
        /\ \A x \in DOMAIN s.open :
             /\ DOMAIN p.open[x].windows = DOMAIN s.open[x].windows
             /\ \A y \in DOMAIN s.open[x].windows :
                  p.open[x].windows[y].tabs = IF x = k /\ y = i THEN taken
                                              ELSE s.open[x].windows[y].tabs
    <2>1. /\ p.open \in Seq(Workspaces) /\ Len(p.open) = Len(s.open) /\ DOMAIN p.open = DOMAIN s.open
          /\ \A x \in DOMAIN s.open :
               /\ p.open[x].id = s.open[x].id /\ p.open[x].root = s.open[x].root
               /\ Len(p.open[x].windows) = Len(s.open[x].windows)
               /\ DOMAIN p.open[x].windows = DOMAIN s.open[x].windows
               /\ \A y \in DOMAIN s.open[x].windows :
                    /\ p.open[x].windows[y].id = s.open[x].windows[y].id
                    /\ p.open[x].windows[y].tabs = IF x = k /\ y = i THEN taken
                                                   ELSE s.open[x].windows[y].tabs
      BY <1>1, <1>2, <1>3, TabsChange, SMTT(20)
    <2> QED  BY <2>1 DEF SameIds, SameWindows
  <1>6. tabs \in SUBSET Tabs
    <2>1. l \in DOMAIN p.open /\ j \in DOMAIN p.open[l].windows
      BY <1>1, <1>5
    <2> QED  BY <1>2, <1>5, <2>1, OpenParts DEF Windows
  <1>7. /\ open \in Seq(Workspaces) /\ DOMAIN open = DOMAIN s.open
        /\ SameIds(s.open, open) /\ SameWindows(s.open, open)
        /\ \A x \in DOMAIN s.open :
             /\ DOMAIN open[x].windows = DOMAIN s.open[x].windows
             /\ \A y \in DOMAIN s.open[x].windows :
                  open[x].windows[y].tabs = IF x = l /\ y = j THEN tabs
                                            ELSE p.open[x].windows[y].tabs
    <2>0. open = WithTabs(p.open, l, j, tabs) /\ l \in DOMAIN p.open /\ j \in DOMAIN p.open[l].windows
      BY <1>1, <1>5
    <2> HIDE DEF open, tabs
    <2>1. /\ open \in Seq(Workspaces) /\ Len(open) = Len(p.open) /\ DOMAIN open = DOMAIN p.open
          /\ \A x \in DOMAIN p.open :
               /\ open[x].id = p.open[x].id /\ open[x].root = p.open[x].root
               /\ DOMAIN open[x].windows = DOMAIN p.open[x].windows
               /\ \A y \in DOMAIN p.open[x].windows :
                    open[x].windows[y].tabs = IF x = l /\ y = j THEN tabs
                                              ELSE p.open[x].windows[y].tabs
      BY <1>5, <1>6, <2>0, TabsChange
    <2>2. \A x \in DOMAIN p.open :
            /\ Len(open[x].windows) = Len(p.open[x].windows)
            /\ \A y \in DOMAIN p.open[x].windows : open[x].windows[y].id = p.open[x].windows[y].id
      BY <1>5, <1>6, <2>0, TabsChange
    <2>3. SameIds(s.open, open)
      BY <1>5, <2>1 DEF SameIds
    <2>4. SameWindows(s.open, open)
      BY <1>5, <2>2, <2>3 DEF SameWindows
    <2> QED  BY <1>5, <2>1, <2>3, <2>4
  <1> HIDE DEF open
  <1>8. /\ IsShell(r) /\ r.open = open /\ r.closed = s.closed /\ r.made = s.made
        /\ r.terminals = s.terminals /\ r.browsers = s.browsers
        /\ r.layouts = s.layouts /\ r.nextSplit = s.nextSplit /\ r.active = l
    <2>1. r = ShellOf(open, l, p.closed, p.terminals, p.browsers, p.layouts, p.nextSplit, p.made)
      BY <1>3, <1>4 DEF IsShell, ShellOf
    <2>2. /\ p.closed \in SUBSET Nat /\ p.terminals \in SUBSET (Nat \ {0})
          /\ p.browsers \in SUBSET (Nat \ {0}) /\ p.made \in [workspaces: Nat, windows: Nat]
      BY <1>3 DEF IsShell
    <2>3. /\ IsShell(r) /\ r.open = open /\ r.closed = p.closed /\ r.made = p.made
          /\ r.terminals = p.terminals /\ r.browsers = p.browsers
          /\ r.layouts = p.layouts /\ r.nextSplit = p.nextSplit /\ r.active = l
      BY <1>1, <1>7, <2>1, <2>2, ShellOfParts
    <2> QED  BY <1>3, <2>3
  <1>9. ASSUME NEW x \in DOMAIN s.open, NEW y \in DOMAIN s.open[x].windows, NEW u
        PROVE  u \in open[x].windows[y].tabs
                 <=> \/ x = l /\ y = j /\ u = t
                     \/ u \in s.open[x].windows[y].tabs /\ ~(x = k /\ y = i /\ u = t)
    <2>1. u \in p.open[x].windows[y].tabs
            <=> u \in s.open[x].windows[y].tabs /\ ~(x = k /\ y = i /\ u = t)
      BY <1>5 DEF taken
    <2>2. u \in open[x].windows[y].tabs
            <=> (x = l /\ y = j /\ u = t) \/ u \in p.open[x].windows[y].tabs
      BY <1>7
    <2> QED  BY <2>1, <2>2
  <1>10. \A u : u \in AllTabs(open) <=>
           \E x \in DOMAIN s.open : \E y \in DOMAIN s.open[x].windows : u \in open[x].windows[y].tabs
    BY <1>7, TabsAreIn
  <1>11. \A u : u \in AllTabs(s.open) <=>
           \E x \in DOMAIN s.open : \E y \in DOMAIN s.open[x].windows : u \in s.open[x].windows[y].tabs
    BY <1>1, TabsAreIn
  <1>12. AllTabs(open) = AllTabs(s.open)
    <2>1. ASSUME NEW u \in AllTabs(open) PROVE u \in AllTabs(s.open)
      BY <1>1, <1>2, <1>9, <1>10, <1>11
    <2>2. ASSUME NEW u \in AllTabs(s.open) PROVE u \in AllTabs(open)
      <3>1. CASE u = t
        BY <1>1, <1>9, <1>10, <3>1
      <3>2. CASE u # t
        BY <1>9, <1>10, <1>11, <3>2
      <3> QED  BY <3>1, <3>2
    <2> QED  BY <2>1, <2>2
  <1>13. OpenIds(r) = OpenIds(s)
    BY <1>1, <1>7, <1>8, SameOpenIds
  <1>14. Sound(r)
    BY <1>8, <1>12 DEF Sound, Bounded, UsedTabs, NoStray
  <1>15. ASSUME Whole(s) PROVE Whole(r)
    <2>1. AllRun(r) /\ Apart(r)
      BY <1>8, <1>12, <1>13, <1>15 DEF Whole, AllRun, Apart
    <2>2. Disjoint(open)
      <3>1. ASSUME NEW x \in DOMAIN s.open, NEW y \in DOMAIN s.open[x].windows,
                   t \in s.open[x].windows[y].tabs
            PROVE  x = k /\ y = i
        BY <1>1, <1>2, <1>15, <3>1 DEF Whole, Disjoint
      <3>2. ASSUME NEW x \in DOMAIN s.open, NEW y \in DOMAIN s.open,
                   NEW m \in DOMAIN s.open[x].windows, NEW n \in DOMAIN s.open[y].windows, NEW u,
                   u \in open[x].windows[m].tabs, u \in open[y].windows[n].tabs
            PROVE  x = y /\ m = n
        <4>1. CASE u = t
          BY <1>9, <3>1, <3>2, <4>1
        <4>2. CASE u # t
          <5>1. u \in s.open[x].windows[m].tabs /\ u \in s.open[y].windows[n].tabs
            BY <1>9, <3>2, <4>2
          <5> QED  BY <1>15, <5>1 DEF Whole, Disjoint
        <4> QED  BY <4>1, <4>2
      <3> QED  BY <1>7, <3>2 DEF Disjoint
    <2> QED  BY <1>8, <2>1, <2>2 DEF Whole
  <1>16. Carries(s, r)
    BY <1>7, <1>8, <1>14, <1>15 DEF Carries
  <1>17. Grows(s, r)
    BY <1>1, <1>7, <1>8, SameWindowsGrow
  <1> QED  BY <1>16, <1>17 DEF r

\* The panes change on top of a new pane.
LEMMA SplitCarries ==
  ASSUME NEW s, Sound(s), IsStore(store), NEW w, Found(s, w)
  PROVE  Carries(s, Split(s, w)) /\ Grows(s, Split(s, w))
  <1> DEFINE k == HomeOf(s, w)
             r == Reconcile(s, k)
             q == AddPane(r, k)
             id == r.open[k].id
             tree == r.layouts[id]
             p == CHOOSE a \in LeafPaths(tree) : tree[a].id = w
             layouts == [q.layouts EXCEPT ![id] = SplitLeaf(tree, p, s.made.windows + 1, r.nextSplit)]
             n == r.nextSplit + 1
             split == [q EXCEPT !.layouts = layouts, !.nextSplit = n]
  <1>1. Split(s, w) = IF PaneLimitReached(s, k) THEN r ELSE split
    BY DEF Split
  <1>2. Leaves(s, r) /\ IsShell(s)
    BY ReconcileLeaves DEF Sound
  <1>3. Carries(s, r) /\ Sound(r) /\ IsShell(r) /\ k \in DOMAIN r.open
    BY <1>2, LeavesCarries DEF Carries, Leaves, Found
  <1>a. /\ Grows(s, r)
        /\ Planted(s) => FitAt(r, k) /\ WindowIds(s.open[k]) \subseteq WindowsShown(r.layouts[s.open[k].id])
    BY <1>2, ReconcileGrows DEF Found
  <1> HIDE DEF r, layouts, n
  <1>4. /\ Carries(r, q) /\ IsShell(q) /\ Sound(q) /\ Grows(r, q)
        /\ q.layouts = r.layouts /\ q.nextSplit = r.nextSplit
        /\ r.made.windows + 1 \in WindowIds(q.open[k])
    BY <1>3, AddPaneCarries, AddPaneGrows DEF Carries, Sound
  <1> HIDE DEF q
  <1>5. Leaves(q, split)
    <2>1. split = [q EXCEPT !.layouts = layouts, !.nextSplit = n]
      OBVIOUS
    <2> HIDE DEF split
    <2> QED  BY <1>4, <2>1, LayoutsLeave
  <1>6. Carries(q, split) /\ IsShell(split)
    BY <1>4, <1>5, LeavesCarries DEF Leaves
  <1>c. /\ split.layouts = layouts /\ split.nextSplit = n /\ split.active = q.active
    BY <1>4 DEF IsShell
  <1> HIDE DEF split, p, tree
  <1>7. Carries(s, q)
    BY <1>2, <1>3, <1>4, CarriesOn
  <1>8. Carries(s, split)
    BY <1>2, <1>4, <1>6, <1>7, CarriesOn
  <1>9. ASSUME Planted(s) PROVE Grown(q, split)
    <2> DEFINE v == s.made.windows + 1
    <2>1. /\ Planted(r) /\ Planted(q) /\ r.open = s.open /\ r.made = s.made /\ s.made.windows \in Nat
          /\ k \in DOMAIN q.open /\ s.open \in Seq(Workspaces) /\ q.open \in Seq(Workspaces)
          /\ q.open[k].id = id /\ FitAt(r, k) /\ k \in DOMAIN s.open
          /\ WindowIds(s.open[k]) \subseteq WindowsShown(tree)
      <3>1. Planted(r) /\ r.open = s.open /\ r.made = s.made /\ FitAt(r, k)
            /\ WindowIds(s.open[k]) \subseteq WindowsShown(tree)
        BY <1>2, <1>9, <1>a DEF Grows, Grown, GrownBut, Leaves, tree
      <3>2. Planted(q)
        BY <1>4, <3>1 DEF Grows, Grown, GrownBut
      <3>3. SameIds(r.open, q.open)
        BY <1>4 DEF Carries
      <3>4. k \in DOMAIN q.open /\ q.open[k].id = id
        BY <1>3, <1>4, <3>3 DEF SameIds, IsShell
      <3> QED  BY <1>2, <1>3, <1>4, <3>1, <3>2, <3>4 DEF IsShell
    <2>2. w \in WindowsShown(tree)
      <3>1. w \in WindowIds(s.open[k])
        BY <2>1, WindowIdsParts DEF Found, WindowOf
      <3> QED  BY <2>1, <3>1
    <2>3. p \in DOMAIN tree /\ ~tree[p].split
      <3>1. \E a \in LeafPaths(tree) : tree[a].id = w
        BY <2>2 DEF WindowsShown
      <3>2. p \in LeafPaths(tree)
        BY <3>1 DEF p
      <3> QED  BY <3>2 DEF LeafPaths
    <2>4. id \in WorkspaceIds
      BY <2>1, WindowIdsParts
    <2>5. /\ Trees(q.layouts, r.nextSplit) /\ IsTree(tree) /\ r.nextSplit \in Nat
          /\ \A m \in SplitIds(tree) : m \in Nat /\ m < r.nextSplit
      <3>1. Trees(q.layouts, r.nextSplit) /\ q.layouts[id] = tree
        BY <1>4, <2>1 DEF Planted, tree
      <3>2. IsTree(tree) /\ r.nextSplit \in Nat /\ \A m \in SplitIds(tree) : m < r.nextSplit
        BY <2>4, <3>1 DEF Trees
      <3>3. \A m \in SplitIds(tree) : m \in Nat
        BY <3>2, TreeParts DEF IsTree, Nodes
      <3> QED  BY <3>1, <3>2, <3>3
    <2>6. v \notin WindowsShown(tree) /\ v \in Nat
      <3>1. \A x \in WindowsShown(tree) : x \in Nat /\ x <= s.made.windows
        BY <2>1, WindowIdsParts DEF Planted, FitAt, FitsIn, tree
      <3> QED  BY <2>1, <3>1
    <2>7. r.nextSplit \notin SplitIds(tree)
      BY <2>5
    <2> DEFINE u == SplitLeaf(tree, p, v, r.nextSplit)
    <2>8. /\ IsTree(u) /\ WindowsShown(u) \subseteq WindowsShown(tree) \cup {v}
          /\ SplitIds(u) \subseteq SplitIds(tree) \cup {r.nextSplit}
      BY <2>3, <2>5, <2>6, <2>7, SplitLeafKeeps
    <2>9. layouts = [q.layouts EXCEPT ![id] = u]
      BY DEF layouts
    <2> HIDE DEF u
    <2>10. n \in Nat /\ r.nextSplit <= n
           /\ \A m \in SplitIds(u) : m \in Nat /\ m < n /\ (m \in SplitIds(tree) \/ r.nextSplit <= m)
      BY <2>5, <2>8 DEF n
    <2>11. q.layouts[id] = tree
      BY <1>4 DEF tree
    <2>12. Trees(layouts, n)
      BY <2>4, <2>5, <2>8, <2>9, <2>10, <2>11, OneTreeChanges
    <2>13. layouts[id] = u /\ \A i \in WorkspaceIds : i # id => layouts[i] = q.layouts[i]
      BY <2>4, <2>5, <2>9 DEF Trees
    <2>14. split.open = q.open /\ split.made = q.made
      BY <1>5 DEF Leaves
    <2>15. Planted(split)
      BY <1>c, <2>1, <2>12, <2>14 DEF Planted
    <2>16. ASSUME NEW j \in DOMAIN q.open, FitAt(q, j) PROVE FitAt(split, j)
      <3>1. CASE j = k
        <4>1. v \in WindowIds(q.open[k])
          BY <1>4, <2>1
        <4>2. WindowsShown(tree) \subseteq WindowIds(q.open[k])
          BY <2>1, <2>11, <2>16, <3>1 DEF FitAt, FitsIn
        <4> QED  BY <1>c, <2>1, <2>8, <2>13, <2>14, <3>1, <4>1, <4>2 DEF FitAt, FitsIn
      <3>2. CASE j # k
        <4>1. q.open[j].id # id /\ q.open[j].id \in WorkspaceIds
          BY <2>1, <3>2, WindowIdsParts DEF Planted, Unique
        <4> QED  BY <1>c, <2>13, <2>14, <2>16, <4>1 DEF FitAt, FitsIn
      <3> QED  BY <3>1, <3>2
    <2>17. id \in OpenIds(q)
      BY <2>1, OpenIdsParts
    <2>18. q.made.windows <= split.made.windows
      BY <1>4, <2>14 DEF IsShell
    <2> QED  BY <1>c, <2>13, <2>15, <2>16, <2>17, <2>18 DEF Grown, GrownBut
  <1>10. Grows(s, split)
    <2>1. Grows(s, q)
      BY <1>2, <1>3, <1>4, <1>a, GrowsOn
    <2>2. ASSUME Planted(s) PROVE Grown(s, split)
      <3>1. Grown(s, q) /\ SameIds(s.open, q.open)
        BY <1>7, <2>1, <2>2 DEF Grows, Carries
      <3> QED  BY <1>2, <1>4, <1>6, <1>9, <2>2, <3>1, GrownOn DEF Grown
    <2>3. Enlarges(s, split)
      BY <1>5, <2>1 DEF Grows, Enlarges, Leaves
    <2> QED  BY <2>2, <2>3 DEF Grows
  <1> QED  BY <1>1, <1>3, <1>8, <1>10, <1>a
------------------------------------------------------------------------------
\* ensure_browser_runtimes_for_workspaces
LEMMA EnsureBrowsersCarries ==
  ASSUME NEW s, Sound(s), NEW works
  PROVE  Carries(s, EnsureBrowsers(s, works)) /\ Grows(s, EnsureBrowsers(s, works))
  <1> DEFINE referenced == SessionsIn(AllTabs(s.open), "web")
             browsers == IF works THEN referenced ELSE s.browsers \cap referenced
             r == EnsureBrowsers(s, works)
  <1>1. IsShell(s) /\ s.browsers \in SUBSET (Nat \ {0})
    BY DEF Sound, IsShell
  <1>2. referenced \in SUBSET (Nat \ {0})
    <2>1. AllTabs(s.open) \in SUBSET Tabs
      BY <1>1, TabsAreIn DEF IsShell
    <2> QED  BY <2>1 DEF SessionsIn, Tabs
  <1>3. browsers \in SUBSET (Nat \ {0}) /\ browsers \subseteq referenced
    BY <1>1, <1>2
  <1>4. r = [s EXCEPT !.browsers = browsers]
    BY DEF EnsureBrowsers
  <1> HIDE DEF browsers, r
  <1>5. r = ShellOf(s.open, s.active, s.closed, s.terminals, browsers, s.layouts, s.nextSplit, s.made)
    BY <1>1, <1>4 DEF IsShell, ShellOf
  <1>6. /\ s.open \in Seq(Workspaces) /\ s.active \in Nat /\ s.closed \in SUBSET Nat
        /\ s.terminals \in SUBSET (Nat \ {0}) /\ s.made \in [workspaces: Nat, windows: Nat]
    BY <1>1 DEF IsShell
  <1>7. /\ IsShell(r) /\ r.open = s.open /\ r.closed = s.closed /\ r.terminals = s.terminals
        /\ r.browsers = browsers /\ r.made = s.made
        /\ r.layouts = s.layouts /\ r.nextSplit = s.nextSplit /\ r.active = s.active
    <2>1. browsers \in SUBSET (Nat \ {0})
      BY <1>3
    <2> HIDE DEF referenced
    <2> QED  BY <1>5, <1>6, <2>1, ShellOfParts
  <1>8. NoStray(r)
    BY <1>3, <1>7 DEF Sound, NoStray
  <1>9. Bounded(r)
    <2>1. SessionsIn(AllTabs(s.open), "web") \subseteq {t.id : t \in AllTabs(s.open) \cup AllTabs(store.workspaces)}
      BY DEF SessionsIn
    <2>2. UsedTabs(r) \subseteq UsedTabs(s)
      BY <1>3, <1>7, <2>1 DEF UsedTabs
    <2> QED  BY <2>2 DEF Sound, Bounded
  <1>10. OpenIds(r) = OpenIds(s)
    BY <1>7 DEF OpenIds
  <1>11. Whole(s) => Whole(r)
    BY <1>7, <1>10 DEF Whole, AllRun, Apart
  <1>12. Carries(s, r)
    BY <1>7, <1>8, <1>9, <1>11 DEF Carries, Sound, SameIds
  <1>13. Grows(s, r)
    BY <1>1, <1>7, SameWindowsGrow DEF SameWindows, SameIds
  <1> QED  BY <1>12, <1>13 DEF r

\* A workspace that can be opened beside what is open, no tab being in two places.
Fits(s, ws) ==
  /\ SessionsIn(TabsOf(ws), "terminal") \subseteq store.sessions
  /\ TabsOf(ws) \cap AllTabs(s.open) = {}
  /\ \A i, j \in DOMAIN ws.windows :
       \A t : t \in ws.windows[i].tabs /\ t \in ws.windows[j].tabs => i = j
  /\ \A j \in DOMAIN store.workspaces :
       store.workspaces[j].id \notin OpenIds(s) \cup {ws.id}
         => TabsOf(store.workspaces[j]) \cap TabsOf(ws) = {}

\* One workspace more at the end.
LEMMA AppendParts ==
  ASSUME NEW open \in Seq(Workspaces), NEW ws \in Workspaces, NEW new, new = Append(open, ws)
  PROVE  /\ new \in Seq(Workspaces) /\ Len(new) = Len(open) + 1
         /\ DOMAIN new = DOMAIN open \cup {Len(open) + 1} /\ Len(open) + 1 \notin DOMAIN open
         /\ \A k \in DOMAIN open : new[k] = open[k]
         /\ new[Len(open) + 1] = ws
  <1>1. Len(open) \in Nat /\ DOMAIN open = 1 .. Len(open)
    OBVIOUS
  <1>2. /\ new \in Seq(Workspaces) /\ Len(new) = Len(open) + 1
        /\ \A k \in 1 .. Len(open) : new[k] = open[k]
        /\ new[Len(open) + 1] = ws
    OBVIOUS
  <1>3. DOMAIN new = 1 .. Len(open) + 1
    BY <1>2
  <1> QED  BY <1>1, <1>2, <1>3

\* A workspace opened with the stored sessions of its tabs.
LEMMA AppendOpens ==
  ASSUME NEW s, Sound(s), IsStore(store), NEW ws \in Workspaces,
         TabsOf(ws) \subseteq AllTabs(store.workspaces),
         NEW r, IsShell(r), r.open = Append(s.open, ws), r.browsers = s.browsers,
         r.terminals = s.terminals \cup (store.sessions \cap SessionsIn(TabsOf(ws), "terminal"))
  PROVE  /\ Sound(r)
         /\ OpenIds(r) = OpenIds(s) \cup {ws.id}
         /\ Whole(s) /\ Fits(s, ws) => Whole(r)
  <1> DEFINE n == Len(s.open) + 1
  <1>0. IsShell(s) /\ s.open \in Seq(Workspaces)
    BY DEF Sound, IsShell
  <1>1. /\ DOMAIN r.open = DOMAIN s.open \cup {n} /\ n \notin DOMAIN s.open
        /\ \A k \in DOMAIN s.open : r.open[k] = s.open[k]
        /\ r.open[n] = ws
    BY <1>0, AppendParts
  <1> HIDE DEF n
  <1>2. AllTabs(r.open) = AllTabs(s.open) \cup TabsOf(ws)
    BY <1>1 DEF AllTabs
  <1>3. OpenIds(r) = OpenIds(s) \cup {ws.id}
    BY <1>1 DEF OpenIds, ToSet, Ids
  <1>4. NoStray(r)
    <2>1. SessionsIn(AllTabs(s.open), "terminal") \subseteq SessionsIn(AllTabs(r.open), "terminal")
          /\ SessionsIn(AllTabs(s.open), "web") \subseteq SessionsIn(AllTabs(r.open), "web")
          /\ SessionsIn(TabsOf(ws), "terminal") \subseteq SessionsIn(AllTabs(r.open), "terminal")
      BY <1>2 DEF SessionsIn
    <2> QED  BY <2>1 DEF Sound, NoStray
  <1>5. Bounded(r)
    <2>1. UsedTabs(r) \subseteq UsedTabs(s)
      BY <1>2 DEF UsedTabs
    <2> QED  BY <2>1 DEF Sound, Bounded
  <1>6. ASSUME Whole(s), Fits(s, ws) PROVE Whole(r)
    <2>1. AllRun(r)
      BY <1>2, <1>6 DEF AllRun, Whole, Fits, SessionsIn
    <2>2. Disjoint(r.open)
      <3>1. ASSUME NEW k \in DOMAIN s.open, NEW i \in DOMAIN s.open[k].windows,
                   NEW j \in DOMAIN ws.windows, NEW t
            PROVE  ~(t \in s.open[k].windows[i].tabs /\ t \in ws.windows[j].tabs)
        <4>1. s.open[k].windows[i].tabs \subseteq AllTabs(s.open)
          BY <1>0, TabsAreIn
        <4>2. ws.windows[j].tabs \subseteq TabsOf(ws)
          BY DEF TabsOf
        <4> QED  BY <1>6, <4>1, <4>2 DEF Fits
      <3>2. ASSUME NEW k \in DOMAIN r.open, NEW l \in DOMAIN r.open,
                   NEW i \in DOMAIN r.open[k].windows, NEW j \in DOMAIN r.open[l].windows, NEW t,
                   t \in r.open[k].windows[i].tabs, t \in r.open[l].windows[j].tabs
            PROVE  k = l /\ i = j
        <4>1. CASE k = n /\ l = n
          BY <1>1, <1>6, <3>2, <4>1 DEF Fits
        <4>2. CASE k = n /\ l # n
          BY <1>1, <3>1, <3>2, <4>2
        <4>3. CASE k # n /\ l = n
          BY <1>1, <3>1, <3>2, <4>3
        <4>4. CASE k # n /\ l # n
          BY <1>1, <1>6, <3>2, <4>4 DEF Whole, Disjoint
        <4> QED  BY <4>1, <4>2, <4>3, <4>4
      <3> QED  BY <3>2 DEF Disjoint
    <2>3. Apart(r)
      BY <1>2, <1>3, <1>6 DEF Whole, Apart, Fits
    <2> QED  BY <2>1, <2>2, <2>3 DEF Whole
  <1> QED  BY <1>3, <1>4, <1>5, <1>6 DEF Sound

\* What opens one workspace more.
Opens(s, ws, r) ==
  /\ Sound(r)
  /\ SameIds(Append(s.open, ws), r.open)

\* The parts of a shell the trees depend on.
LEMMA ShellParts ==
  ASSUME NEW s, IsShell(s)
  PROVE  s.open \in Seq(Workspaces) /\ s.made.windows \in Nat
  BY DEF IsShell

\* What opening a workspace makes of the trees.
Grafted(s, ws, r) ==
  /\ Planted(r) /\ s.made.windows <= r.made.windows
  /\ \A k \in DOMAIN s.open : FitAt(s, k) => FitAt(r, k)
  /\ \A id \in WorkspaceIds : id \notin OpenIds(s) \cup {ws.id} => r.layouts[id] = s.layouts[id]

\* A workspace more leaves the trees as they are.
LEMMA AppendGrafts ==
  ASSUME NEW s, IsShell(s), Planted(s), NEW ws \in Workspaces, ws.id \notin OpenIds(s),
         \A w \in WindowIds(ws) : w <= s.made.windows,
         NEW r, IsShell(r), r.open = Append(s.open, ws), r.layouts = s.layouts,
         r.nextSplit = s.nextSplit, r.made.windows = s.made.windows,
         r.active = s.active \/ r.active = Len(s.open) + 1
  PROVE  /\ Grafted(s, ws, r)
         /\ FitsIn(s.layouts[ws.id], ws) => FitAt(r, Len(s.open) + 1)
  <1> DEFINE n == Len(s.open) + 1
  <1>1. s.open \in Seq(Workspaces) /\ s.made.windows \in Nat
    BY DEF IsShell
  <1>2. /\ DOMAIN r.open = DOMAIN s.open \cup {n} /\ n \notin DOMAIN s.open
        /\ \A k \in DOMAIN s.open : r.open[k] = s.open[k]
        /\ r.open[n] = ws
    BY <1>1, AppendParts
  <1>3. r.active = s.active \/ r.active = n
    OBVIOUS
  <1> HIDE DEF n
  <1>4. Unique(r.open)
    BY <1>1, <1>2, OpenIdsParts DEF Planted, Unique
  <1>5. Planted(r)
    BY <1>2, <1>3, <1>4 DEF Planted
  <1>6. s.made.windows <= r.made.windows
    BY <1>1
  <1>7. /\ \A k \in DOMAIN s.open : FitAt(s, k) => FitAt(r, k)
        /\ FitsIn(s.layouts[ws.id], ws) => FitAt(r, n)
    BY <1>2 DEF FitAt
  <1> QED  BY <1>5, <1>6, <1>7 DEF Grafted, n

\* An operation on it after that.
LEMMA GraftedOn ==
  ASSUME NEW s, NEW ws, NEW a, NEW r, IsShell(s), IsShell(a), IsShell(r), ws \in Workspaces,
         a.open = Append(s.open, ws), Grafted(s, ws, a), Grown(a, r)
  PROVE  Grafted(s, ws, r)
  <1>0. s.open \in Seq(Workspaces) /\ 0 \notin DOMAIN s.open /\ a.open \in Seq(Workspaces)
    <2>1. s.open \in Seq(Workspaces) /\ a.open \in Seq(Workspaces)
      BY ShellParts
    <2> QED  BY <2>1
  <1>1. /\ DOMAIN a.open = DOMAIN s.open \cup {Len(s.open) + 1}
        /\ \A k \in DOMAIN s.open : a.open[k] = s.open[k]
        /\ a.open[Len(s.open) + 1] = ws
    BY <1>0, AppendParts
  <1>2. ASSUME NEW id \in OpenIds(a) PROVE id \in OpenIds(s) \cup {ws.id}
    <2>1. PICK k \in DOMAIN a.open : id = a.open[k].id
      BY <1>0, OpenIdsParts
    <2>2. \A j \in DOMAIN s.open : s.open[j].id \in OpenIds(s)
      BY <1>0, OpenIdsParts
    <2> QED  BY <1>1, <2>1, <2>2
  <1>3. s.made.windows <= r.made.windows
    <2>1. s.made.windows \in Nat /\ a.made.windows \in Nat /\ r.made.windows \in Nat
      BY ShellParts
    <2> QED  BY <2>1 DEF Grafted, Grown, GrownBut
  <1>4. \A k \in DOMAIN s.open : FitAt(s, k) => FitAt(r, k)
    BY <1>0, <1>1 DEF Grafted, Grown, GrownBut
  <1>5. \A id \in WorkspaceIds : id \notin OpenIds(s) \cup {ws.id} => r.layouts[id] = s.layouts[id]
    BY <1>2 DEF Grafted, Grown, GrownBut
  <1> QED  BY <1>3, <1>4, <1>5 DEF Grafted, Grown, GrownBut

\* workspace_for_root: a workspace with an id that was never given out.
LEMMA NewWorkspaceOpens ==
  ASSUME NEW s, Sound(s), IsStore(store), NEW root \in Roots,
         s.made.workspaces + 1 \in WorkspaceIds, NEW r, r = NewWorkspace(s, root)
  PROVE  /\ Opens(s, [id |-> s.made.workspaces + 1, root |-> root, windows |-> <<>>], r)
         /\ r.closed = s.closed /\ r.made.workspaces = s.made.workspaces + 1
         /\ Whole(s) => Whole(r)
         /\ Planted(s) /\ s.made.workspaces + 1 \notin OpenIds(s)
              => /\ Grafted(s, [id |-> s.made.workspaces + 1, root |-> root, windows |-> <<>>], r)
                 /\ FitAt(r, Len(s.open) + 1)
  <1> DEFINE id == s.made.workspaces + 1
             k == Len(s.open) + 1
             ws == [id |-> id, root |-> root, windows |-> <<>>]
             open == Append(s.open, ws)
             made == [s.made EXCEPT !.workspaces = id]
             a == [s EXCEPT !.open = open, !.made.workspaces = id]
             p == AddPane(a, k)
             q == Reconcile(p, k)
  <1>1. IsShell(s) /\ s.open \in Seq(Workspaces) /\ s.active \in Nat /\ s.closed \in SUBSET Nat
        /\ s.terminals \in SUBSET (Nat \ {0}) /\ s.browsers \in SUBSET (Nat \ {0})
    BY DEF Sound, IsShell
  <1>2. made \in [workspaces: Nat, windows: Nat] /\ made.workspaces = id
        /\ made.windows = s.made.windows
    BY DEF Sound, IsShell
  <1>3. ws \in Workspaces /\ TabsOf(ws) = {} /\ ws.windows = <<>> /\ ws.id = id
    <2>1. <<>> \in Seq(Windows)
      OBVIOUS
    <2> HIDE DEF id
    <2> QED  BY <2>1 DEF Workspaces, TabsOf, id
  <1>4. a = [s EXCEPT !.open = open, !.made = made]
    OBVIOUS
  <1> HIDE DEF id, ws, made, a
  <1>5. open \in Seq(Workspaces) /\ k \in DOMAIN open
    BY <1>1, <1>3, AppendParts
  <1>6. /\ IsShell(a) /\ a.open = open /\ a.closed = s.closed /\ a.terminals = s.terminals
        /\ a.browsers = s.browsers /\ a.made = made
        /\ a.active = s.active /\ a.layouts = s.layouts /\ a.nextSplit = s.nextSplit
    <2> HIDE DEF open
    <2>1. a = ShellOf(open, s.active, s.closed, s.terminals, s.browsers, s.layouts, s.nextSplit, made)
      BY <1>1, <1>4 DEF IsShell, ShellOf
    <2> QED  BY <1>1, <1>2, <1>5, <2>1, ShellOfParts
  <1>7. SessionsIn(TabsOf(ws), "terminal") = {}
    BY <1>3 DEF SessionsIn
  <1>8. Sound(a) /\ (Whole(s) => Whole(a))
    <2>1. TabsOf(ws) \subseteq AllTabs(store.workspaces)
      BY <1>3
    <2>2. a.terminals = s.terminals \cup (store.sessions \cap SessionsIn(TabsOf(ws), "terminal"))
      BY <1>6, <1>7
    <2>3. Fits(s, ws)
      BY <1>3, <1>7 DEF Fits
    <2> QED  BY <1>3, <1>6, <2>1, <2>2, <2>3, AppendOpens
  <1>k. k = Len(s.open) + 1
    OBVIOUS
  <1> HIDE DEF k
  <1>9. Carries(a, p) /\ IsShell(p) /\ Sound(p) /\ Grows(a, p)
    BY <1>5, <1>6, <1>8, AddPaneCarries, AddPaneGrows DEF Carries, Sound, k
  <1> HIDE DEF p
  <1>10. Carries(p, q) /\ IsShell(q)
    BY <1>9, ReconcileLeaves, LeavesCarries DEF Leaves
  <1>g. Grows(p, q) /\ (Planted(p) => FitAt(q, k))
    <2>1. k \in DOMAIN p.open
      BY <1>5, <1>6, <1>9, SameOpenIds DEF Carries, IsShell
    <2> QED  BY <1>9, <2>1, ReconcileGrows
  <1> HIDE DEF q
  <1>11. Carries(a, q)
    BY <1>6, <1>9, <1>10, CarriesOn
  <1>t. ASSUME Planted(s), id \notin OpenIds(s) PROVE Grafted(s, ws, q) /\ FitAt(q, k)
    <2>1. Grafted(s, ws, a)
      <3>1. WindowIds(ws) = {}
        BY <1>3 DEF WindowIds, Ids, ToSet
      <3>2. a.open = Append(s.open, ws) /\ a.made.windows = s.made.windows
        BY <1>2, <1>6 DEF open
      <3> QED  BY <1>1, <1>3, <1>6, <1>t, <3>1, <3>2, AppendGrafts
    <2>2. Grows(a, q)
      BY <1>6, <1>9, <1>10, <1>g, GrowsOn
    <2>3. Grown(a, q) /\ Planted(p)
      BY <1>9, <2>1, <2>2 DEF Grows, Grafted, Grown, GrownBut
    <2>4. Grafted(s, ws, q)
      BY <1>1, <1>3, <1>6, <1>10, <2>1, <2>3, GraftedOn DEF open
    <2> QED  BY <1>g, <2>3, <2>4
  <1>12. r = q
    BY DEF NewWorkspace, q, p, k, a, ws, id
  <1> QED  BY <1>2, <1>6, <1>8, <1>11, <1>12, <1>k, <1>t DEF Carries, Opens, ws, id
------------------------------------------------------------------------------
\* What is left of s up to n: its elements but for those with these ids, each id once.
IsKept(s, ids, n, r) ==
  /\ r \in Seq(Workspaces)
  /\ Unique(r)
  /\ \A i \in DOMAIN r : \E j \in 1 .. n : r[i] = s[j] /\ s[j].id \notin ids
  /\ \A j \in 1 .. n : s[j].id \notin ids => \E i \in DOMAIN r : r[i] = s[j]

\* The recursion of WithoutIds,
LEMMA KeptUpToSteps ==
  ASSUME NEW s \in Seq(Workspaces), NEW ids
  PROVE  /\ KeptUpTo(s, ids)[0] = <<>>
         /\ \A n \in 1 .. Len(s) :
              KeptUpTo(s, ids)[n] = IF s[n].id \in ids THEN KeptUpTo(s, ids)[n - 1]
                                    ELSE Append(KeptUpTo(s, ids)[n - 1], s[n])
  <1> DEFINE S == Seq(Workspaces)
             len == Len(s)
             one(n, r) == IF n \in 1 .. len /\ s[n].id \notin ids THEN Append(r, s[n]) ELSE r
             step == [n \in Nat |-> [r \in S |-> one(n, r)]]
             Is(f) == f = [n \in 0 .. len |->
                             IF n = 0 THEN <<>>
                             ELSE IF s[n].id \in ids THEN f[n - 1] ELSE Append(f[n - 1], s[n])]
  <1>1. len \in Nat /\ \A n \in 1 .. len : s[n] \in Workspaces
    OBVIOUS
  <1>2. ASSUME NEW n \in Nat, NEW r \in S PROVE one(n, r) \in S
    BY <1>1
  <1> HIDE DEF one
  <1>3. step \in [Nat -> [S -> S]]
    BY <1>2
  <1>4. <<>> \in S
    OBVIOUS
  <1> HIDE DEF S, len
  <1>5. PICK f \in [0 .. len -> S] : Follows(f, <<>>, step, len)
    <2> HIDE DEF step
    <2> QED  BY <1>1, <1>3, <1>4, FiniteRecursion
  <1>6. ASSUME NEW n \in 1 .. len
        PROVE  f[n] = IF s[n].id \in ids THEN f[n - 1] ELSE Append(f[n - 1], s[n])
    <2>1. f[n] = step[n][f[n - 1]]
      BY <1>5 DEF Follows
    <2>2. n \in Nat /\ n - 1 \in 0 .. len
      BY <1>1
    <2>3. f[n - 1] \in S
      BY <1>5, <2>2
    <2>4. step[n][f[n - 1]] = one(n, f[n - 1])
      BY <2>2, <2>3
    <2> QED  BY <2>1, <2>4 DEF one
  <1>7. Is(f)
    <2>1. f[0] = <<>>
      BY <1>5 DEF Follows
    <2>2. \A n \in 0 .. len :
            f[n] = IF n = 0 THEN <<>>
                   ELSE IF s[n].id \in ids THEN f[n - 1] ELSE Append(f[n - 1], s[n])
      <3> TAKE n \in 0 .. len
      <3>1. CASE n = 0
        BY <2>1, <3>1
      <3>2. CASE n # 0
        <4>1. n \in 1 .. len
          BY <1>1, <3>2
        <4> QED  BY <1>6, <3>2, <4>1
      <3> QED  BY <3>1, <3>2
    <2>3. f = [n \in 0 .. len |-> f[n]]
      BY <1>5
    <2> QED  BY <2>2, <2>3
  <1> DEFINE kept == KeptUpTo(s, ids)
  <1>8. kept = CHOOSE g : Is(g)
    BY DEF KeptUpTo, len
  <1>9. Is(kept)
    BY <1>7, <1>8
  <1> HIDE DEF kept
  <1>10. /\ kept[0] = <<>>
         /\ \A n \in 1 .. len :
              kept[n] = IF s[n].id \in ids THEN kept[n - 1] ELSE Append(kept[n - 1], s[n])
    <2>1. \A n \in 0 .. len :
            kept[n] = IF n = 0 THEN <<>>
                      ELSE IF s[n].id \in ids THEN kept[n - 1] ELSE Append(kept[n - 1], s[n])
      BY <1>9
    <2>2. kept[0] = <<>>
      BY <1>1, <2>1
    <2>3. ASSUME NEW n \in 1 .. len
          PROVE  kept[n] = IF s[n].id \in ids THEN kept[n - 1] ELSE Append(kept[n - 1], s[n])
      <3>1. n \in 0 .. len /\ n # 0
        BY <1>1
      <3> QED  BY <2>1, <3>1
    <2> QED  BY <2>2, <2>3
  <1> QED  BY <1>10 DEF kept, len

\* and by induction along it what is left.
LEMMA WithoutIdsKeeps ==
  ASSUME NEW s \in Seq(Workspaces), Unique(s), NEW ids
  PROVE  IsKept(s, ids, Len(s), WithoutIds(s, ids))
  <1> DEFINE len == Len(s)
             kept == KeptUpTo(s, ids)
             T == {n \in 0 .. len : IsKept(s, ids, n, kept[n])}
  <1>1. len \in Nat /\ DOMAIN s = 1 .. len /\ \A n \in 1 .. len : s[n] \in Workspaces
    OBVIOUS
  <1>2. /\ kept[0] = <<>>
        /\ \A n \in 1 .. len :
             kept[n] = IF s[n].id \in ids THEN kept[n - 1] ELSE Append(kept[n - 1], s[n])
    BY KeptUpToSteps
  <1> HIDE DEF kept, len
  <1>3. 0 \in T
    <2>1. 0 \in 0 .. len /\ \A j : j \notin 1 .. 0
      BY <1>1
    <2>2. <<>> \in Seq(Workspaces) /\ DOMAIN <<>> = {}
      OBVIOUS
    <2>3. IsKept(s, ids, 0, <<>>)
      BY <2>1, <2>2 DEF IsKept, Unique
    <2> QED  BY <1>2, <2>1, <2>3
  <1>4. ASSUME NEW n \in 1 .. len, n - 1 \in T PROVE n \in T
    <2> DEFINE r == kept[n - 1]
               q == kept[n]
    <2>1. IsKept(s, ids, n - 1, r)
      BY <1>4
    <2>2. q = IF s[n].id \in ids THEN r ELSE Append(r, s[n])
      BY <1>2
    <2>3. n \in 0 .. len /\ n \in Nat /\ s[n] \in Workspaces /\ 1 .. n = (1 .. n - 1) \cup {n}
      BY <1>1
    <2> HIDE DEF r, q
    <2>4. CASE s[n].id \in ids
      <3>1. q = r
        BY <2>2, <2>4
      <3>2. \A j \in 1 .. n - 1 : j \in 1 .. n
        BY <2>3
      <3>3. \A j \in 1 .. n : s[j].id \notin ids => j \in 1 .. n - 1
        BY <2>3, <2>4
      <3>4. IsKept(s, ids, n, q)
        BY <2>1, <3>1, <3>2, <3>3 DEF IsKept
      <3> QED  BY <2>3, <3>4 DEF q
    <2>5. CASE s[n].id \notin ids
      <3>1. r \in Seq(Workspaces) /\ q = Append(r, s[n])
        BY <2>1, <2>2, <2>5 DEF IsKept
      <3>2. /\ q \in Seq(Workspaces) /\ Len(r) + 1 \notin DOMAIN r
            /\ DOMAIN q = DOMAIN r \cup {Len(r) + 1}
            /\ \A k \in DOMAIN r : q[k] = r[k]
            /\ q[Len(r) + 1] = s[n]
        BY <2>3, <3>1, AppendParts
      <3>3. \A i \in DOMAIN q : \E j \in 1 .. n : q[i] = s[j] /\ s[j].id \notin ids
        BY <2>1, <2>3, <2>5, <3>2 DEF IsKept
      <3>4. \A j \in 1 .. n : s[j].id \notin ids => \E i \in DOMAIN q : q[i] = s[j]
        BY <2>1, <2>3, <3>2 DEF IsKept
      <3>5. Unique(q)
        <4>1. ASSUME NEW i \in DOMAIN r PROVE r[i].id # s[n].id
          <5>1. PICK j \in 1 .. n - 1 : r[i] = s[j]
            BY <2>1 DEF IsKept
          <5>2. j \in DOMAIN s /\ n \in DOMAIN s /\ j # n
            BY <1>1, <2>3
          <5> QED  BY <5>1, <5>2 DEF Unique
        <4> QED  BY <2>1, <3>2, <4>1 DEF IsKept, Unique
      <3> QED  BY <2>3, <3>2, <3>3, <3>4, <3>5 DEF IsKept, q
    <2> QED  BY <2>3, <2>4, <2>5 DEF q
  <1>5. len \in T
    <2> HIDE DEF T
    <2>1. 0 .. len \subseteq T
      BY <1>1, <1>3, <1>4, BoundedInduction
    <2> QED  BY <1>1, <2>1
  <1>6. IsKept(s, ids, len, kept[len])
    BY <1>5
  <1> QED  BY <1>6 DEF WithoutIds, kept, len
------------------------------------------------------------------------------
\* The rows of the workspaces table.
Rows(db) == ToSet(db.workspaces)

\* save_workspace replaces the row of this id, or adds it.
LEMMA RowWritten ==
  ASSUME NEW db, IsStore(db), NEW row \in Workspaces,
         NEW d, d = Write(db, [table |-> "workspaces", row |-> row])
  PROVE  /\ IsStore(d) /\ d.sessions = db.sessions /\ d.control = db.control
         /\ Rows(d) = {r \in Rows(db) : r.id # row.id} \cup {row}
  <1> DEFINE kept == WithoutIds(db.workspaces, {row.id})
             rows == Append(kept, row)
  <1>1. d = [db EXCEPT !.workspaces = rows]
    BY DEF Write
  <1>2. IsKept(db.workspaces, {row.id}, Len(db.workspaces), kept)
    BY WithoutIdsKeeps DEF IsStore
  <1>3. DOMAIN db.workspaces = 1 .. Len(db.workspaces)
    BY DEF IsStore
  <1> HIDE DEF kept
  <1>4. /\ rows \in Seq(Workspaces)
        /\ DOMAIN rows = DOMAIN kept \cup {Len(kept) + 1} /\ Len(kept) + 1 \notin DOMAIN kept
        /\ \A k \in DOMAIN kept : rows[k] = kept[k]
        /\ rows[Len(kept) + 1] = row
    BY <1>2, AppendParts DEF IsKept
  <1> HIDE DEF rows
  <1>5. Unique(rows)
    <2>1. Unique(kept) /\ \A i \in DOMAIN kept : kept[i].id # row.id
      BY <1>2 DEF IsKept
    <2> QED  BY <1>4, <2>1 DEF Unique
  <1>6. ToSet(rows) = {r \in Rows(db) : r.id # row.id} \cup {row}
    <2>1. ToSet(kept) = {r \in Rows(db) : r.id # row.id}
      <3>1. ASSUME NEW r \in ToSet(kept) PROVE r \in Rows(db) /\ r.id # row.id
        <4>1. PICK i \in DOMAIN kept : r = kept[i]
          BY DEF ToSet
        <4>2. PICK j \in 1 .. Len(db.workspaces) :
                kept[i] = db.workspaces[j] /\ db.workspaces[j].id \notin {row.id}
          BY <1>2 DEF IsKept
        <4> QED  BY <1>3, <4>1, <4>2 DEF ToSet, Rows
      <3>2. ASSUME NEW r \in Rows(db), r.id # row.id PROVE r \in ToSet(kept)
        BY <1>2, <1>3, <3>2 DEF IsKept, ToSet, Rows
      <3> QED  BY <3>1, <3>2
    <2>2. ToSet(rows) = ToSet(kept) \cup {row}
      BY <1>4 DEF ToSet
    <2> QED  BY <2>1, <2>2
  <1>7. d = [workspaces |-> rows, sessions |-> db.sessions, control |-> db.control]
    BY <1>1 DEF IsStore
  <1>8. d.workspaces = rows /\ d.sessions = db.sessions /\ d.control = db.control
    BY <1>7
  <1>9. IsStore(d)
    BY <1>4, <1>5, <1>7, <1>8 DEF IsStore
  <1> QED  BY <1>6, <1>8, <1>9 DEF Rows

\* Another set of session rows.
LEMMA SessionsWritten ==
  ASSUME NEW db, IsStore(db), NEW ids \in SUBSET (Nat \ {0}),
         NEW d, d = [db EXCEPT !.sessions = ids]
  PROVE  /\ IsStore(d) /\ Rows(d) = Rows(db) /\ d.control = db.control
         /\ d.sessions = ids
  <1>1. d = [workspaces |-> db.workspaces, sessions |-> ids, control |-> db.control]
    BY DEF IsStore
  <1>2. d.workspaces = db.workspaces /\ d.sessions = ids /\ d.control = db.control
    BY <1>1
  <1>3. IsStore(d)
    BY <1>1, <1>2 DEF IsStore
  <1> QED  BY <1>2, <1>3 DEF Rows

\* save_session, of each session
LEMMA SessionsSaved ==
  ASSUME NEW db, IsStore(db), NEW ids \in SUBSET (Nat \ {0}),
         NEW d, d = Write(db, [table |-> "sessions", row |-> ids])
  PROVE  /\ IsStore(d) /\ Rows(d) = Rows(db) /\ d.control = db.control
         /\ d.sessions = db.sessions \cup ids
  <1> DEFINE all == db.sessions \cup ids
  <1>1. d = [db EXCEPT !.sessions = all]
    BY DEF Write
  <1>2. all \in SUBSET (Nat \ {0})
    BY DEF IsStore
  <1> HIDE DEF all
  <1> QED  BY <1>1, <1>2, SessionsWritten DEF all

\* delete_session, of each session
LEMMA SessionsDeleted ==
  ASSUME NEW db, IsStore(db), NEW ids,
         NEW d, d = Write(db, [table |-> "deleted", row |-> ids])
  PROVE  /\ IsStore(d) /\ Rows(d) = Rows(db) /\ d.control = db.control
         /\ d.sessions = db.sessions \ ids
  <1>1. d = [db EXCEPT !.sessions = db.sessions \ ids]
    BY DEF Write
  <1>2. ASSUME NEW rest, rest = db.sessions \ ids
        PROVE  /\ IsStore(d) /\ Rows(d) = Rows(db) /\ d.control = db.control
               /\ d.sessions = rest
    <2>1. rest \in SUBSET (Nat \ {0})
      BY <1>2 DEF IsStore
    <2>2. d = [db EXCEPT !.sessions = rest]
      BY <1>1, <1>2
    <2> QED  BY <2>1, <2>2, SessionsWritten
  <1> QED  BY <1>2

\* save_control_state
LEMMA ControlWritten ==
  ASSUME NEW db, IsStore(db), NEW control, control.closed \in SUBSET Nat,
         NEW d, d = Write(db, [table |-> "control_state", row |-> control])
  PROVE  /\ IsStore(d) /\ Rows(d) = Rows(db) /\ d.sessions = db.sessions
         /\ d.control = <<control>>
  <1>1. d = [db EXCEPT !.control = <<control>>]
    BY DEF Write
  <1>2. d = [workspaces |-> db.workspaces, sessions |-> db.sessions, control |-> <<control>>]
    BY <1>1 DEF IsStore
  <1>3. d.workspaces = db.workspaces /\ d.sessions = db.sessions /\ d.control = <<control>>
    BY <1>2
  <1>4. d.control[1] = control
    BY <1>3
  <1>5. IsStore(d)
    BY <1>2, <1>3, <1>4 DEF IsStore
  <1> QED  BY <1>3, <1>5 DEF Rows

\* The recursion of Written: one write after another,
LEMMA WrittenSteps ==
  ASSUME NEW db, NEW writes, Len(writes) \in Nat
  PROVE  /\ Written(db, writes)[0] = db
         /\ \A n \in 1 .. Len(writes) :
              Written(db, writes)[n] = Write(Written(db, writes)[n - 1], writes[n])
  <1> DEFINE Is(f, m) == f = [n \in 0 .. m |-> IF n = 0 THEN db ELSE Write(f[n - 1], writes[n])]
             T == {m \in Nat : \E f : Is(f, m)}
  <1>1. 0 \in T
    <2> DEFINE f == [n \in 0 .. 0 |-> db]
    <2>1. f = [n \in 0 .. 0 |-> IF n = 0 THEN db ELSE Write(f[n - 1], writes[n])]
      OBVIOUS
    <2> HIDE DEF f
    <2> QED  BY <2>1
  <1>2. ASSUME NEW m \in T PROVE m + 1 \in T
    <2>1. PICK f : Is(f, m)
      OBVIOUS
    <2> DEFINE v == Write(f[m], writes[m + 1])
               g == [n \in 0 .. m + 1 |-> IF n = m + 1 THEN v ELSE f[n]]
    <2>2. \A n \in 0 .. m : f[n] = IF n = 0 THEN db ELSE Write(f[n - 1], writes[n])
      BY <2>1
    <2>3. ASSUME NEW n \in 0 .. m + 1
          PROVE  g[n] = IF n = 0 THEN db ELSE Write(g[n - 1], writes[n])
      <3>1. CASE n = 0
        BY <2>2, <3>1
      <3>2. CASE n # 0 /\ n = m + 1
        <4>1. n - 1 = m /\ n - 1 \in 0 .. m + 1 /\ n - 1 # m + 1
          BY <3>2
        <4>2. g[n] = v /\ g[n - 1] = f[m]
          BY <3>2, <4>1
        <4> QED  BY <3>2, <4>2
      <3>3. CASE n # 0 /\ n # m + 1
        <4>1. n \in 0 .. m /\ n - 1 \in 0 .. m + 1 /\ n - 1 # m + 1
          BY <3>3
        <4>2. g[n] = f[n] /\ g[n - 1] = f[n - 1]
          BY <3>3, <4>1
        <4> QED  BY <2>2, <3>3, <4>1, <4>2
      <3> QED  BY <3>1, <3>2, <3>3
    <2>4. g = [n \in 0 .. m + 1 |-> g[n]]
      OBVIOUS
    <2> HIDE DEF g
    <2>5. Is(g, m + 1)
      BY <2>3, <2>4
    <2>6. m + 1 \in Nat
      OBVIOUS
    <2> HIDE DEF Is
    <2> QED  BY <2>5, <2>6
  <1>3. T = Nat
    <2> HIDE DEF T
    <2> QED  BY <1>1, <1>2, Induction DEF T
  <1>4. PICK f : Is(f, Len(writes))
    BY <1>3
  <1> DEFINE written == Written(db, writes)
  <1>5. written = CHOOSE g : Is(g, Len(writes))
    BY DEF Written
  <1>6. Is(written, Len(writes))
    BY <1>4, <1>5
  <1> HIDE DEF written
  <1>7. \A n \in 0 .. Len(writes) :
          written[n] = IF n = 0 THEN db ELSE Write(written[n - 1], writes[n])
    BY <1>6
  <1>8. written[0] = db /\ \A n \in 1 .. Len(writes) : written[n] = Write(written[n - 1], writes[n])
    BY <1>7
  <1> QED  BY <1>8 DEF written
------------------------------------------------------------------------------
\* Written of two sequences, one after the other.
LEMMA WrittenJoined ==
  ASSUME NEW db, NEW S, NEW a \in Seq(S), NEW b \in Seq(S)
  PROVE  /\ \A n \in 0 .. Len(a) : Written(db, a \o b)[n] = Written(db, a)[n]
         /\ \A n \in 0 .. Len(b) :
              Written(db, a \o b)[Len(a) + n] = Written(Written(db, a)[Len(a)], b)[n]
  <1> DEFINE la == Len(a)
             lb == Len(b)
             ab == a \o b
             x == Written(db, ab)
             y == Written(db, a)
             z == Written(y[la], b)
             T == {n \in 0 .. la : x[n] = y[n]}
             U == {n \in 0 .. lb : x[la + n] = z[n]}
  <1>1. /\ la \in Nat /\ lb \in Nat /\ Len(ab) = la + lb
        /\ \A i \in 1 .. la + lb : ab[i] = IF i <= la THEN a[i] ELSE b[i - la]
    BY ConcatProperties
  <1> HIDE DEF ab
  <1>2. /\ x[0] = db /\ \A n \in 1 .. la + lb : x[n] = Write(x[n - 1], ab[n])
    BY <1>1, WrittenSteps
  <1>3. /\ y[0] = db /\ \A n \in 1 .. la : y[n] = Write(y[n - 1], a[n])
    BY <1>1, WrittenSteps
  <1>4. /\ z[0] = y[la] /\ \A n \in 1 .. lb : z[n] = Write(z[n - 1], b[n])
    <2> HIDE DEF y
    <2> QED  BY <1>1, WrittenSteps
  <1> HIDE DEF x, y, z, la, lb
  <1>5. 0 .. la \subseteq T
    <2>1. 0 \in T
      BY <1>1, <1>2, <1>3
    <2>2. ASSUME NEW n \in 1 .. la, n - 1 \in T PROVE n \in T
      <3>1. n \in 1 .. la + lb /\ n \in 0 .. la /\ n <= la
        BY <1>1
      <3> QED  BY <1>1, <1>2, <1>3, <2>2, <3>1
    <2> HIDE DEF T
    <2> QED  BY <1>1, <2>1, <2>2, BoundedInduction
  <1>6. 0 .. lb \subseteq U
    <2>1. 0 \in U
      <3>1. x[la] = y[la] /\ la + 0 = la
        BY <1>1, <1>5
      <3> QED  BY <1>1, <1>4, <3>1
    <2>2. ASSUME NEW n \in 1 .. lb, n - 1 \in U PROVE n \in U
      <3>1. la + n \in 1 .. la + lb /\ n \in 0 .. lb /\ ~(la + n <= la) /\ (la + n) - la = n
            /\ (la + n) - 1 = la + (n - 1)
        BY <1>1
      <3>2. x[la + n] = Write(x[la + (n - 1)], b[n])
        BY <1>1, <1>2, <3>1
      <3> QED  BY <1>4, <2>2, <3>1, <3>2
    <2> HIDE DEF U
    <2> QED  BY <1>1, <2>1, <2>2, BoundedInduction
  <1>7. /\ \A n \in 0 .. la : x[n] = y[n]
        /\ \A n \in 0 .. lb : x[la + n] = z[n]
    BY <1>5, <1>6
  <1> QED  BY <1>7 DEF x, y, z, la, lb, ab

\* What a crash may leave of writes.
Remains(db, writes, d) ==
  \E n \in 0 .. Len(writes) - 1 :
     \/ d = Written(db, writes)[n]
     \/ /\ writes[n + 1].table \in {"sessions", "deleted"}
        /\ \E w \in Part(writes[n + 1]) : d = Write(Written(db, writes)[n], w)

\* A crash in two sequences of writes is in one of them.
LEMMA RemainsJoined ==
  ASSUME NEW db, NEW S, NEW a \in Seq(S), NEW b \in Seq(S), NEW d, Remains(db, a \o b, d)
  PROVE  Remains(db, a, d) \/ Remains(Written(db, a)[Len(a)], b, d)
  <1> DEFINE la == Len(a)
             lb == Len(b)
             ab == a \o b
             x == Written(db, ab)
             y == Written(db, a)
             z == Written(y[la], b)
  <1>1. /\ la \in Nat /\ lb \in Nat /\ Len(ab) = la + lb
        /\ \A i \in 1 .. la + lb : ab[i] = IF i <= la THEN a[i] ELSE b[i - la]
    BY ConcatProperties
  <1>2. /\ \A n \in 0 .. la : x[n] = y[n]
        /\ \A n \in 0 .. lb : x[la + n] = z[n]
    BY WrittenJoined
  <1> HIDE DEF ab, x, y, z, la, lb
  <1>3. PICK n \in 0 .. la + lb - 1 :
          \/ d = x[n]
          \/ /\ ab[n + 1].table \in {"sessions", "deleted"}
             /\ \E w \in Part(ab[n + 1]) : d = Write(x[n], w)
    <2>1. Remains(db, ab, d)
      BY DEF ab
    <2>2. Len(ab) - 1 = la + lb - 1
      BY <1>1
    <2> QED  BY <2>1, <2>2 DEF Remains, x
  <1>4. CASE n < la
    <2>1. n \in 0 .. la - 1 /\ n \in 0 .. la /\ n + 1 \in 1 .. la + lb /\ n + 1 <= la
      BY <1>1, <1>4
    <2>2. x[n] = y[n] /\ ab[n + 1] = a[n + 1]
      BY <1>1, <1>2, <2>1
    <2>3. Remains(db, a, d)
      BY <1>3, <2>1, <2>2 DEF Remains, y, la
    <2> QED  BY <2>3
  <1>5. CASE ~(n < la)
    <2> DEFINE m == n - la
    <2>1. m \in 0 .. lb - 1 /\ m \in 0 .. lb /\ n + 1 \in 1 .. la + lb /\ ~(n + 1 <= la)
          /\ (n + 1) - la = m + 1 /\ la + m = n
      BY <1>1, <1>5
    <2>2. x[n] = z[m] /\ ab[n + 1] = b[m + 1]
      BY <1>1, <1>2, <2>1
    <2> HIDE DEF m
    <2>3. Remains(y[la], b, d)
      BY <1>3, <2>1, <2>2 DEF Remains, z, lb
    <2> QED  BY <2>3 DEF y, la
  <1> QED  BY <1>4, <1>5

\* The writes of persist_state.
RowWrites == {[table |-> "workspaces", row |-> r] : r \in Workspaces}
SessionsWrite(s) == [table |-> "sessions", row |-> s.terminals]
ControlWrite(s) == [table |-> "control_state", row |-> ControlState(s)]

\* The rows of the workspaces, then the sessions, then the control state.
LEMMA PersistWritesParts ==
  ASSUME NEW s, IsShell(s)
  PROVE  /\ PersistWrites(s) \in Seq(RowWrites \cup {SessionsWrite(s), ControlWrite(s)})
         /\ Len(PersistWrites(s)) = Len(s.open) + 2
         /\ Len(s.open) \in Nat /\ Len(PersistWrites(s)) \in Nat
         /\ \A i \in 1 .. Len(s.open) :
              PersistWrites(s)[i] = [table |-> "workspaces", row |-> s.open[i]]
         /\ PersistWrites(s)[Len(s.open) + 1] = SessionsWrite(s)
         /\ PersistWrites(s)[Len(s.open) + 2] = ControlWrite(s)
  <1> DEFINE n == Len(s.open)
             S == RowWrites \cup {SessionsWrite(s), ControlWrite(s)}
             a == [i \in DOMAIN s.open |-> [table |-> "workspaces", row |-> s.open[i]]]
             b == <<SessionsWrite(s), ControlWrite(s)>>
  <1>1. n \in Nat /\ DOMAIN s.open = 1 .. n /\ \A i \in 1 .. n : s.open[i] \in Workspaces
    BY DEF IsShell
  <1>2. \A i \in 1 .. n : a[i] = [table |-> "workspaces", row |-> s.open[i]] /\ a[i] \in S
    BY <1>1 DEF RowWrites
  <1>3. a \in [1 .. n -> S]
    <2>1. a = [i \in 1 .. n |-> a[i]]
      BY <1>1
    <2> HIDE DEF a, S
    <2> QED  BY <1>2, <2>1
  <1>4. a \in Seq(S) /\ Len(a) = n
    <2> HIDE DEF a, S
    <2> QED  BY <1>1, <1>3, IsASeq
  <1>5. b \in Seq(S) /\ Len(b) = 2 /\ b[1] = SessionsWrite(s) /\ b[2] = ControlWrite(s)
    OBVIOUS
  <1>6. PersistWrites(s) = a \o b
    BY DEF PersistWrites, SessionsWrite, ControlWrite
  <1> HIDE DEF a, b, S, n
  <1>7. /\ a \o b \in Seq(S) /\ Len(a \o b) = n + 2
        /\ \A i \in 1 .. n + 2 : (a \o b)[i] = IF i <= n THEN a[i] ELSE b[i - n]
    <2>1. /\ a \o b \in Seq(S) /\ Len(a \o b) = Len(a) + Len(b)
          /\ \A i \in 1 .. Len(a) + Len(b) :
               (a \o b)[i] = IF i <= Len(a) THEN a[i] ELSE b[i - Len(a)]
      BY <1>4, <1>5, ConcatProperties
    <2> QED  BY <1>4, <1>5, <2>1
  <1>8. ASSUME NEW i \in 1 .. n PROVE (a \o b)[i] = [table |-> "workspaces", row |-> s.open[i]]
    <2>1. i \in 1 .. n + 2 /\ i <= n
      BY <1>1
    <2> QED  BY <1>2, <1>7, <2>1
  <1>9. (a \o b)[n + 1] = SessionsWrite(s) /\ (a \o b)[n + 2] = ControlWrite(s)
    <2>1. /\ n + 1 \in 1 .. n + 2 /\ ~(n + 1 <= n) /\ (n + 1) - n = 1
          /\ n + 2 \in 1 .. n + 2 /\ ~(n + 2 <= n) /\ (n + 2) - n = 2
      BY <1>1
    <2> QED  BY <1>5, <1>7, <2>1
  <1> QED  BY <1>1, <1>6, <1>7, <1>8, <1>9, SMTT(20) DEF S, n

\* The writes of persist_state, one by one.
LEMMA PersistSteps ==
  ASSUME NEW db, NEW s, IsShell(s)
  PROVE  /\ Written(db, PersistWrites(s))[0] = db
         /\ \A i \in 1 .. Len(s.open) + 2 :
              Written(db, PersistWrites(s))[i]
                = Write(Written(db, PersistWrites(s))[i - 1], PersistWrites(s)[i])
  <1>1. Len(PersistWrites(s)) = Len(s.open) + 2
    BY PersistWritesParts
  <1>2. Len(PersistWrites(s)) \in Nat
    BY PersistWritesParts
  <1> QED  BY <1>1, <1>2, WrittenSteps

\* After its first n rows, persist_state has written the first n open workspaces.
RowsUpTo(db, s, n, d) ==
  /\ IsStore(d)
  /\ d.sessions = db.sessions /\ d.control = db.control
  /\ Rows(d) = {r \in Rows(db) : \A i \in 1 .. n : r.id # s.open[i].id}
               \cup {s.open[i] : i \in 1 .. n}

\* By induction along the open workspaces: the rows written so far.
LEMMA RowsWritten ==
  ASSUME NEW db, IsStore(db), NEW s, IsShell(s), Unique(s.open), NEW n \in 0 .. Len(s.open)
  PROVE  RowsUpTo(db, s, n, Written(db, PersistWrites(s))[n])
  <1> DEFINE len == Len(s.open)
             x == Written(db, PersistWrites(s))
             T == {i \in 0 .. len : RowsUpTo(db, s, i, x[i])}
  <1>1. /\ len \in Nat /\ DOMAIN s.open = 1 .. len /\ \A i \in 1 .. len : s.open[i] \in Workspaces
    BY DEF IsShell
  <1>2. /\ x[0] = db
        /\ \A i \in 1 .. len + 2 : x[i] = Write(x[i - 1], PersistWrites(s)[i])
    BY PersistSteps
  <1>3. \A i \in 1 .. len : PersistWrites(s)[i] = [table |-> "workspaces", row |-> s.open[i]]
    BY PersistWritesParts
  <1> HIDE DEF x, len
  <1>4. 0 \in T
    <2>1. 0 \in 0 .. len /\ \A i : i \notin 1 .. 0
      BY <1>1
    <2> QED  BY <1>2, <2>1 DEF RowsUpTo
  <1>5. ASSUME NEW i \in 1 .. len, i - 1 \in T PROVE i \in T
    <2> DEFINE p == x[i - 1]
               d == x[i]
               row == s.open[i]
    <2>1. RowsUpTo(db, s, i - 1, p) /\ i \in 0 .. len /\ 1 .. i = (1 .. i - 1) \cup {i}
          /\ i \in 1 .. len + 2 /\ i \notin 1 .. i - 1 /\ 1 .. i \subseteq 1 .. len
      BY <1>1, <1>5
    <2>2. d = Write(p, [table |-> "workspaces", row |-> row])
      BY <1>2, <1>3, <2>1
    <2>3. row \in Workspaces
      BY <1>1
    <2> HIDE DEF p, d
    <2>4. /\ IsStore(d) /\ d.sessions = p.sessions /\ d.control = p.control
          /\ Rows(d) = {r \in Rows(p) : r.id # row.id} \cup {row}
      BY <2>1, <2>2, <2>3, RowWritten DEF RowsUpTo
    <2>5. \A j \in 1 .. i - 1 : s.open[j].id # row.id
      BY <1>1, <2>1 DEF Unique
    <2>6. ASSUME NEW r
          PROVE  r \in Rows(d) <=> \/ r \in Rows(db) /\ \A j \in 1 .. i : r.id # s.open[j].id
                                   \/ \E j \in 1 .. i : r = s.open[j]
      <3>1. r \in Rows(p) <=> \/ r \in Rows(db) /\ \A j \in 1 .. i - 1 : r.id # s.open[j].id
                              \/ \E j \in 1 .. i - 1 : r = s.open[j]
        BY <2>1 DEF RowsUpTo
      <3>2. r \in Rows(d) <=> (r \in Rows(p) /\ r.id # row.id) \/ r = row
        BY <2>4
      <3> QED  BY <2>1, <2>5, <3>1, <3>2
    <2>7. Rows(d) = {r \in Rows(db) : \A j \in 1 .. i : r.id # s.open[j].id}
                    \cup {s.open[j] : j \in 1 .. i}
      BY <2>6
    <2>8. RowsUpTo(db, s, i, d)
      BY <2>1, <2>4, <2>7 DEF RowsUpTo
    <2> QED  BY <2>1, <2>8 DEF d
  <1>6. n \in T
    <2> HIDE DEF T
    <2>1. 0 .. len \subseteq T
      BY <1>1, <1>4, <1>5, BoundedInduction
    <2> QED  BY <2>1 DEF len
  <1>7. RowsUpTo(db, s, n, x[n])
    BY <1>6
  <1> QED  BY <1>7 DEF x

\* All of persist_state.
Persisted(db, s, d) ==
  /\ IsStore(d)
  /\ Rows(d) = {r \in Rows(db) : r.id \notin OpenIds(s)} \cup ToSet(s.open)
  /\ d.sessions = db.sessions \cup s.terminals
  /\ d.control = <<ControlState(s)>>

\* The store before the control state is written.
LEMMA SessionsAreWritten ==
  ASSUME NEW db, IsStore(db), NEW s, IsShell(s), Unique(s.open),
         NEW d, d = Written(db, PersistWrites(s))[Len(s.open) + 1]
  PROVE  /\ IsStore(d) /\ d.control = db.control
         /\ Rows(d) = {r \in Rows(db) : r.id \notin OpenIds(s)} \cup ToSet(s.open)
         /\ d.sessions = db.sessions \cup s.terminals
  <1> DEFINE len == Len(s.open)
             x == Written(db, PersistWrites(s))
             p == x[len]
  <1>1. /\ len \in Nat /\ DOMAIN s.open = 1 .. len /\ s.terminals \in SUBSET (Nat \ {0})
    BY DEF IsShell
  <1>2. RowsUpTo(db, s, len, p)
    BY <1>1, RowsWritten
  <1>3. \A i \in 1 .. len + 2 : x[i] = Write(x[i - 1], PersistWrites(s)[i])
    BY PersistSteps
  <1>4. PersistWrites(s)[len + 1] = [table |-> "sessions", row |-> s.terminals]
    BY PersistWritesParts DEF SessionsWrite
  <1>5. len + 1 \in 1 .. len + 2 /\ (len + 1) - 1 = len
    BY <1>1
  <1> HIDE DEF x
  <1>6. d = Write(p, [table |-> "sessions", row |-> s.terminals])
    BY <1>3, <1>4, <1>5 DEF x
  <1> HIDE DEF p
  <1>7. /\ IsStore(d) /\ Rows(d) = Rows(p) /\ d.control = p.control
        /\ d.sessions = p.sessions \cup s.terminals
    <2>1. IsStore(p)
      BY <1>2 DEF RowsUpTo
    <2> QED  BY <1>1, <1>6, <2>1, SessionsSaved
  <1>8. OpenIds(s) = {s.open[i].id : i \in 1 .. len} /\ ToSet(s.open) = {s.open[i] : i \in 1 .. len}
    BY <1>1 DEF OpenIds, ToSet, Ids
  <1>9. \A r : r.id \notin OpenIds(s) <=> \A i \in 1 .. len : r.id # s.open[i].id
    BY <1>8
  <1>10. Rows(d) = {r \in Rows(db) : r.id \notin OpenIds(s)} \cup ToSet(s.open)
    BY <1>2, <1>7, <1>8, <1>9 DEF RowsUpTo
  <1> QED  BY <1>2, <1>7, <1>10 DEF RowsUpTo

\* persist_state to its end.
LEMMA PersistDone ==
  ASSUME NEW db, IsStore(db), NEW s, IsShell(s), Unique(s.open)
  PROVE  Persisted(db, s, Written(db, PersistWrites(s))[Len(PersistWrites(s))])
  <1> DEFINE len == Len(s.open)
             x == Written(db, PersistWrites(s))
             p == x[len + 1]
             d == x[len + 2]
  <1>1. /\ len \in Nat /\ s.closed \in SUBSET Nat
    BY DEF IsShell
  <1>2. \A i \in 1 .. len + 2 : x[i] = Write(x[i - 1], PersistWrites(s)[i])
    BY PersistSteps
  <1>3. PersistWrites(s)[len + 2] = [table |-> "control_state", row |-> ControlState(s)]
        /\ Len(PersistWrites(s)) = len + 2
    BY PersistWritesParts DEF ControlWrite
  <1>4. len + 2 \in 1 .. len + 2 /\ (len + 2) - 1 = len + 1
    BY <1>1
  <1>5. /\ IsStore(p) /\ p.control = db.control
        /\ Rows(p) = {r \in Rows(db) : r.id \notin OpenIds(s)} \cup ToSet(s.open)
        /\ p.sessions = db.sessions \cup s.terminals
    BY SessionsAreWritten
  <1> HIDE DEF x
  <1>6. d = Write(p, [table |-> "control_state", row |-> ControlState(s)])
    BY <1>2, <1>3, <1>4
  <1> HIDE DEF p, d, len
  <1>7. ControlState(s).closed \in SUBSET Nat
    BY <1>1 DEF ControlState
  <1>8. /\ IsStore(d) /\ Rows(d) = Rows(p) /\ d.sessions = p.sessions
        /\ d.control = <<ControlState(s)>>
    BY <1>5, <1>6, <1>7, ControlWritten
  <1>9. Persisted(db, s, d)
    BY <1>5, <1>8 DEF Persisted
  <1> QED  BY <1>3, <1>9 DEF d, x

\* What a crash leaves of persist_state: some of the rows, and the old control state.
Partly(db, s, d) ==
  /\ IsStore(d)
  /\ Rows(d) \subseteq Rows(db) \cup ToSet(s.open)
  /\ d.sessions \subseteq db.sessions \cup s.terminals
  /\ d.control = db.control

\* persist_state up to a crash.
LEMMA PersistTorn ==
  ASSUME NEW db, IsStore(db), NEW s, IsShell(s), Unique(s.open),
         NEW d, Remains(db, PersistWrites(s), d)
  PROVE  Partly(db, s, d)
  <1> DEFINE len == Len(s.open)
             x == Written(db, PersistWrites(s))
             W == PersistWrites(s)
  <1>1. /\ len \in Nat /\ DOMAIN s.open = 1 .. len /\ s.terminals \in SUBSET (Nat \ {0})
    BY DEF IsShell
  <1>2. Len(W) = len + 2
    BY PersistWritesParts
  <1>a. \A i \in 1 .. len : W[i] = [table |-> "workspaces", row |-> s.open[i]]
    BY PersistWritesParts
  <1>b. W[len + 1] = [table |-> "sessions", row |-> s.terminals]
    BY PersistWritesParts DEF SessionsWrite
  <1>c. W[len + 2] = [table |-> "control_state", row |-> ControlState(s)]
    BY PersistWritesParts DEF ControlWrite
  <1>3. \A n \in 0 .. len : RowsUpTo(db, s, n, x[n])
    BY RowsWritten
  <1>4. /\ IsStore(x[len + 1]) /\ x[len + 1].control = db.control
        /\ Rows(x[len + 1]) = {r \in Rows(db) : r.id \notin OpenIds(s)} \cup ToSet(s.open)
        /\ x[len + 1].sessions = db.sessions \cup s.terminals
    BY SessionsAreWritten
  <1> HIDE DEF W, x, len
  <1>5. ASSUME NEW n \in 0 .. len PROVE Rows(x[n]) \subseteq Rows(db) \cup ToSet(s.open)
    <2>1. \A i \in 1 .. n : i \in DOMAIN s.open
      BY <1>1
    <2> QED  BY <1>3, <2>1 DEF RowsUpTo, ToSet
  <1>6. ASSUME NEW n \in 0 .. len PROVE Partly(db, s, x[n])
    BY <1>3, <1>5 DEF Partly, RowsUpTo
  <1>7. Partly(db, s, x[len + 1])
    BY <1>4 DEF Partly
  <1>8. PICK n \in 0 .. len + 2 - 1 :
          \/ d = x[n]
          \/ W[n + 1].table \in {"sessions", "deleted"} /\ \E w \in Part(W[n + 1]) : d = Write(x[n], w)
    <2>1. Remains(db, W, d)
      BY DEF W
    <2> DEFINE last == Len(W) - 1
    <2>2. PICK n \in 0 .. last :
            \/ d = x[n]
            \/ W[n + 1].table \in {"sessions", "deleted"} /\ \E w \in Part(W[n + 1]) : d = Write(x[n], w)
      BY <2>1 DEF Remains, x, W
    <2>3. last = len + 2 - 1
      BY <1>1, <1>2
    <2> QED  BY <2>2, <2>3
  <1>9. CASE d = x[n]
    <2>1. n \in 0 .. len \/ n = len + 1
      BY <1>1
    <2> QED  BY <1>6, <1>7, <1>9, <2>1
  <1>10. CASE W[n + 1].table \in {"sessions", "deleted"} /\ \E w \in Part(W[n + 1]) : d = Write(x[n], w)
    <2>1. n = len
      <3>1. n + 1 \in 1 .. len \/ n + 1 = len + 1 \/ n + 1 = len + 2
        BY <1>1
      <3>2. n + 1 \notin 1 .. len /\ n + 1 # len + 2
        <4>1. ASSUME NEW i \in 1 .. len PROVE W[i].table = "workspaces"
          <5>1. W[i] = [table |-> "workspaces", row |-> s.open[i]]
            BY <1>a
          <5> QED  BY <5>1
        <4>2. W[len + 2].table = "control_state"
          BY <1>c
        <4>3. W[n + 1].table # "workspaces" /\ W[n + 1].table # "control_state"
          BY <1>10
        <4> QED  BY <4>1, <4>2, <4>3
      <3> QED  BY <1>1, <3>1, <3>2
    <2>2. PICK w \in Part([table |-> "sessions", row |-> s.terminals]) : d = Write(x[len], w)
      BY <1>b, <1>10, <2>1
    <2>3. PICK ids \in SUBSET s.terminals : w = [table |-> "sessions", row |-> ids]
      BY DEF Part
    <2>4. ids \in SUBSET (Nat \ {0}) /\ IsStore(x[len]) /\ len \in 0 .. len
      BY <1>1, <1>3 DEF RowsUpTo
    <2>5. /\ IsStore(d) /\ Rows(d) = Rows(x[len]) /\ d.control = x[len].control
          /\ d.sessions = x[len].sessions \cup ids
      <3>1. d = Write(x[len], [table |-> "sessions", row |-> ids])
        BY <2>2, <2>3
      <3> QED  BY <2>4, <3>1, SessionsSaved
    <2>6. Partly(db, s, x[len])
      BY <1>6, <2>4
    <2> QED  BY <2>5, <2>6 DEF Partly
  <1> QED  BY <1>8, <1>9, <1>10
------------------------------------------------------------------------------
\* The closed workspaces as they are stored.
ClosedIn(db) == IF db.control = NoControlState THEN {} ELSE db.control[1].closed

\* No tab is in two of the stored windows.
RowsApart(rows) ==
  \A a, b \in rows : \A i \in DOMAIN a.windows : \A j \in DOMAIN b.windows :
    \A t : t \in a.windows[i].tabs /\ t \in b.windows[j].tabs => a = b /\ i = j

\* What is stored as long as no handler was cut short.
RowsWhole(db) ==
  /\ RowsApart(Rows(db))
  /\ \A r \in Rows(db) : SessionsIn(TabsOf(r), "terminal") \subseteq db.sessions

\* Two workspaces of one folder are stored only if one of them is closed.
RootsApart(db) ==
  \A a, b \in Rows(db) :
    a.id \notin ClosedIn(db) /\ b.id \notin ClosedIn(db) /\ a.root = b.root => a = b

\* No id is given out twice.
IdsGiven(s, db) ==
  /\ \A r \in Rows(db) : r.id <= s.made.workspaces
  /\ \A c \in ClosedIn(db) : c <= s.made.workspaces

\* What the application has open is stored, and it knows of all that is stored.
Linked(s, db) ==
  /\ Unique(s.open)
  /\ ToSet(s.open) \subseteq Rows(db)
  /\ \A r \in Rows(db) : r.id \in OpenIds(s) \cup s.closed
  /\ OpenIds(s) \cap s.closed = {}
  /\ ClosedIn(db) = s.closed

\* Finitely many ids are used, in the shell or the store.
UsedIn(s, db) ==
  {t.id : t \in AllTabs(s.open) \cup AllTabs(db.workspaces)}
  \cup s.terminals \cup s.browsers \cup db.sessions
BoundedIn(s, db) == \E b \in Nat : \A n \in UsedIn(s, db) : n <= b

\* The inductive invariant.
Safe(u, s, db, n) ==
  /\ IsShell(s) /\ NoStray(s) /\ BoundedIn(s, db) /\ IsStore(db) /\ n \in Nat
  /\ RootsApart(db) /\ IdsGiven(s, db)
  /\ u => Linked(s, db)
  /\ n = 0 => RowsWhole(db)
  /\ n = 0 /\ u => AllRun(s)

\* What a handler may make of the shell, to be written over this store.
Ready(s) ==
  /\ Sound(s)
  /\ Unique(s.open)
  /\ \A k \in DOMAIN s.open : s.open[k].id <= s.made.workspaces
  /\ \A c \in s.closed : c <= s.made.workspaces
  /\ shell.made.workspaces <= s.made.workspaces
  /\ \A k, l \in DOMAIN s.open : s.open[k].root = s.open[l].root => k = l
  /\ OpenIds(s) \cap s.closed = {}
  /\ \A r \in Rows(store) : r.id \in OpenIds(s) \cup s.closed
  /\ \A k \in DOMAIN s.open : \A r \in Rows(store) :
       /\ r.root = s.open[k].root
       /\ r.id \notin ClosedIn(store) /\ s.open[k].id \notin ClosedIn(store)
       => r.id = s.open[k].id
  /\ torn = 0 => Whole(s)

\* What the operations on a shell need to know of it.
LEMMA SafeIsSound ==
  ASSUME NEW u, NEW s, NEW n, Safe(u, s, store, n)
  PROVE  Sound(s) /\ IsStore(store)
  BY DEF Safe, Sound, Bounded, BoundedIn, UsedIn, UsedTabs

\* The rows and tabs of a store.
LEMMA RowsParts ==
  ASSUME NEW db, IsStore(db)
  PROVE  /\ \A j \in DOMAIN db.workspaces : db.workspaces[j] \in Rows(db)
         /\ \A r \in Rows(db) : \E j \in DOMAIN db.workspaces : r = db.workspaces[j]
         /\ \A a, b \in Rows(db) : a.id = b.id => a = b
         /\ Rows(db) \subseteq Workspaces
         /\ \A t : t \in AllTabs(db.workspaces) <=> \E r \in Rows(db) : t \in TabsOf(r)
  <1>1. /\ \A j \in DOMAIN db.workspaces : db.workspaces[j] \in Rows(db)
        /\ \A r \in Rows(db) : \E j \in DOMAIN db.workspaces : r = db.workspaces[j]
    BY DEF Rows, ToSet
  <1>2. \A a, b \in Rows(db) : a.id = b.id => a = b
    BY <1>1 DEF IsStore, Unique
  <1>3. Rows(db) \subseteq Workspaces
    BY <1>1, OpenParts DEF IsStore
  <1>4. \A t : t \in AllTabs(db.workspaces) <=> \E r \in Rows(db) : t \in TabsOf(r)
    BY <1>1 DEF AllTabs
  <1> QED  BY <1>1, <1>2, <1>3, <1>4

LEMMA TabsOfParts ==
  ASSUME NEW ws \in Workspaces
  PROVE  /\ \A t : t \in TabsOf(ws) <=> \E i \in DOMAIN ws.windows : t \in ws.windows[i].tabs
         /\ TabsOf(ws) \in SUBSET Tabs
  <1>1. \A t : t \in TabsOf(ws) <=> \E i \in DOMAIN ws.windows : t \in ws.windows[i].tabs
    BY DEF TabsOf
  <1>2. ws.windows \in Seq(Windows)
    BY DEF Workspaces
  <1>3. \A i \in DOMAIN ws.windows : ws.windows[i].tabs \in SUBSET Tabs
    <2>1. ASSUME NEW u \in Seq(Windows), NEW i \in DOMAIN u PROVE u[i].tabs \in SUBSET Tabs
      <3>1. i \in 1 .. Len(u)
        OBVIOUS
      <3>2. u[i] \in Windows
        BY <3>1, ElementOfSeq
      <3> QED  BY <3>2 DEF Windows
    <2> QED  BY <1>2, <2>1
  <1> QED  BY <1>1, <1>3

\* While no handler was cut short, tabs are whole in what is open because they
\* are whole in what is stored.
LEMMA LinkedIsWhole ==
  ASSUME NEW s, IsShell(s), IsStore(store), Linked(s, store), RowsWhole(store), AllRun(s)
  PROVE  Whole(s)
  <1>1. s.open \in Seq(Workspaces) /\ \A k \in DOMAIN s.open : s.open[k] \in Rows(store)
    BY OpenIdsParts DEF IsShell, Linked
  <1>2. Disjoint(s.open)
    <2>1. ASSUME NEW k \in DOMAIN s.open, NEW l \in DOMAIN s.open,
                 NEW i \in DOMAIN s.open[k].windows, NEW j \in DOMAIN s.open[l].windows, NEW t,
                 t \in s.open[k].windows[i].tabs, t \in s.open[l].windows[j].tabs
          PROVE  k = l /\ i = j
      <3>1. s.open[k] = s.open[l] /\ i = j
        BY <1>1, <2>1 DEF RowsWhole, RowsApart
      <3> QED  BY <3>1 DEF Linked, Unique
    <2> QED  BY <2>1 DEF Disjoint
  <1>3. Apart(s)
    <2>1. ASSUME NEW x \in DOMAIN store.workspaces, store.workspaces[x].id \notin OpenIds(s),
                 NEW t, t \in TabsOf(store.workspaces[x]), t \in AllTabs(s.open)
          PROVE  FALSE
      <3> DEFINE r == store.workspaces[x]
      <3>1. r \in Rows(store)
        BY RowsParts
      <3>2. PICK i \in DOMAIN r.windows : t \in r.windows[i].tabs
        BY <2>1 DEF TabsOf
      <3>3. PICK k \in DOMAIN s.open :
              \E j \in DOMAIN s.open[k].windows : t \in s.open[k].windows[j].tabs
        BY <1>1, <2>1, TabsAreIn
      <3>4. PICK j \in DOMAIN s.open[k].windows : t \in s.open[k].windows[j].tabs
        BY <3>3
      <3>5. r = s.open[k]
        BY <1>1, <3>1, <3>2, <3>4 DEF RowsWhole, RowsApart
      <3> QED  BY <1>1, <2>1, <3>5, OpenIdsParts
    <2> QED  BY <2>1 DEF Apart
  <1> QED  BY <1>2, <1>3 DEF Whole

\* A stored workspace can be opened beside what is open.
LEMMA StoredFits ==
  ASSUME NEW s, IsStore(store), Apart(s), RowsWhole(store),
         NEW ws \in Rows(store), ws.id \notin OpenIds(s)
  PROVE  Fits(s, ws)
  <1>1. SessionsIn(TabsOf(ws), "terminal") \subseteq store.sessions
    BY DEF RowsWhole
  <1>2. TabsOf(ws) \cap AllTabs(s.open) = {}
    BY RowsParts DEF Apart
  <1>3. \A i, j \in DOMAIN ws.windows :
          \A t : t \in ws.windows[i].tabs /\ t \in ws.windows[j].tabs => i = j
    BY DEF RowsWhole, RowsApart
  <1>4. ASSUME NEW x \in DOMAIN store.workspaces,
               store.workspaces[x].id \notin OpenIds(s) \cup {ws.id},
               NEW t, t \in TabsOf(store.workspaces[x]), t \in TabsOf(ws)
        PROVE  FALSE
    <2> DEFINE r == store.workspaces[x]
    <2>1. r \in Rows(store) /\ r # ws
      BY <1>4, RowsParts
    <2>2. PICK i \in DOMAIN r.windows : t \in r.windows[i].tabs
      BY <1>4 DEF TabsOf
    <2>3. PICK j \in DOMAIN ws.windows : t \in ws.windows[j].tabs
      BY <1>4 DEF TabsOf
    <2> QED  BY <2>1, <2>2, <2>3 DEF RowsWhole, RowsApart
  <1> QED  BY <1>1, <1>2, <1>3, <1>4 DEF Fits

\* A shell that agrees with the store may be written as it is,
LEMMA SafeIsReady ==
  ASSUME NEW s, Safe(TRUE, s, store, torn), shell.made.workspaces <= s.made.workspaces
  PROVE  Ready(s)
  <1>1. /\ Sound(s) /\ IsStore(store) /\ IsShell(s) /\ Linked(s, store)
        /\ RootsApart(store) /\ IdsGiven(s, store)
    BY SafeIsSound DEF Safe
  <1>2. /\ s.open \in Seq(Workspaces) /\ s.made.workspaces \in Nat
        /\ \A k \in DOMAIN s.open : /\ s.open[k] \in Rows(store)
                                        /\ s.open[k].id \in OpenIds(s)
    BY <1>1, OpenIdsParts DEF IsShell, Linked
  <1>3. \A k \in DOMAIN s.open : s.open[k].id <= s.made.workspaces
    BY <1>1, <1>2 DEF IdsGiven
  <1>4. \A c \in s.closed : c <= s.made.workspaces
    BY <1>1 DEF IdsGiven, Linked
  <1>5. \A k \in DOMAIN s.open : s.open[k].id \notin ClosedIn(store)
    BY <1>1, <1>2 DEF Linked
  <1>6. ASSUME NEW k \in DOMAIN s.open, NEW r \in Rows(store),
               r.root = s.open[k].root, r.id \notin ClosedIn(store)
        PROVE  r = s.open[k]
    BY <1>1, <1>2, <1>5, <1>6 DEF RootsApart
  <1>7. \A k, l \in DOMAIN s.open : s.open[k].root = s.open[l].root => k = l
    <2>1. ASSUME NEW k \in DOMAIN s.open, NEW l \in DOMAIN s.open,
                 s.open[k].root = s.open[l].root
          PROVE  k = l
      <3>1. s.open[k] = s.open[l]
        BY <1>2, <1>5, <1>6, <2>1
      <3> QED  BY <1>1, <3>1 DEF Linked, Unique
    <2> QED  BY <2>1
  <1>8. torn = 0 => Whole(s)
    BY <1>1, LinkedIsWhole DEF Safe
  <1> QED  BY <1>1, <1>3, <1>4, <1>6, <1>7, <1>8 DEF Ready, Linked

\* so may the one that runs,
LEMMA ShellIsReady ==
  ASSUME up, Safe(up, shell, store, torn)
  PROVE  Ready(shell)
  <1>1. Safe(TRUE, shell, store, torn)
    BY DEF Safe
  <1>2. shell.made.workspaces <= shell.made.workspaces
    BY <1>1 DEF Safe, IsShell
  <1> QED  BY <1>1, <1>2, SafeIsReady

\* and what an operation makes of it.
LEMMA ReadyCarries ==
  ASSUME NEW s, Ready(s), NEW r, Carries(s, r)
  PROVE  Ready(r)
  <1>1. /\ IsShell(s) /\ IsShell(r) /\ Sound(r) /\ SameIds(s.open, r.open)
        /\ r.closed = s.closed /\ r.made.workspaces = s.made.workspaces
        /\ Whole(s) => Whole(r)
    BY DEF Ready, Carries, Sound
  <1>2. OpenIds(r) = OpenIds(s) /\ DOMAIN r.open = DOMAIN s.open
    BY <1>1, SameOpenIds DEF IsShell
  <1>3. \A k \in DOMAIN s.open : r.open[k].id = s.open[k].id /\ r.open[k].root = s.open[k].root
    BY <1>1 DEF SameIds
  <1>4. Unique(r.open)
    BY <1>2, <1>3 DEF Ready, Unique
  <1>5. /\ \A k \in DOMAIN r.open : r.open[k].id <= r.made.workspaces
        /\ \A c \in r.closed : c <= r.made.workspaces
        /\ shell.made.workspaces <= r.made.workspaces
        /\ \A k, l \in DOMAIN r.open : r.open[k].root = r.open[l].root => k = l
    BY <1>1, <1>2, <1>3 DEF Ready
  <1>6. /\ OpenIds(r) \cap r.closed = {}
        /\ \A row \in Rows(store) : row.id \in OpenIds(r) \cup r.closed
        /\ torn = 0 => Whole(r)
    BY <1>1, <1>2 DEF Ready
  <1>7. \A k \in DOMAIN r.open : \A row \in Rows(store) :
          /\ row.root = r.open[k].root
          /\ row.id \notin ClosedIn(store) /\ r.open[k].id \notin ClosedIn(store)
          => row.id = r.open[k].id
    BY <1>2, <1>3 DEF Ready
  <1> QED  BY <1>1, <1>4, <1>5, <1>6, <1>7 DEF Ready
------------------------------------------------------------------------------
\* The store after all of a handler's writes.
Done(s, d) ==
  /\ IsStore(d)
  /\ Rows(d) = {r \in Rows(store) : r.id \notin OpenIds(s)} \cup ToSet(s.open)
  /\ d.control = <<ControlState(s)>>
  /\ s.terminals \subseteq d.sessions
  /\ d.sessions \subseteq store.sessions \cup shell.terminals \cup s.terminals
  /\ torn = 0 => \A r \in Rows(store) :
                   r.id \notin OpenIds(s) => SessionsIn(TabsOf(r), "terminal") \subseteq d.sessions

\* The store after some of them.
Left(s, d) ==
  /\ IsStore(d)
  /\ Rows(d) \subseteq Rows(store) \cup ToSet(s.open)
  /\ ClosedIn(d) = ClosedIn(store)
  /\ d.sessions \subseteq store.sessions \cup shell.terminals \cup s.terminals

\* Writes give out no id.
LEMMA WritesAreBounded ==
  ASSUME NEW s, Sound(s), Sound(shell), IsStore(store), NEW d, IsStore(d),
         Rows(d) \subseteq Rows(store) \cup ToSet(s.open),
         d.sessions \subseteq store.sessions \cup shell.terminals \cup s.terminals
  PROVE  BoundedIn(s, d)
  <1>1. AllTabs(d.workspaces) \subseteq AllTabs(store.workspaces) \cup AllTabs(s.open)
    <2>1. ASSUME NEW t \in AllTabs(d.workspaces)
          PROVE  t \in AllTabs(store.workspaces) \cup AllTabs(s.open)
      <3>1. PICK r \in Rows(d) : t \in TabsOf(r)
        BY RowsParts
      <3>2. CASE r \in Rows(store)
        BY <3>1, <3>2, RowsParts
      <3>3. CASE r \in ToSet(s.open)
        BY <3>1, <3>3 DEF ToSet, AllTabs
      <3> QED  BY <3>2, <3>3
    <2> QED  BY <2>1
  <1>2. UsedIn(s, d) \subseteq UsedTabs(s) \cup UsedTabs(shell)
    BY <1>1 DEF UsedIn, UsedTabs
  <1>3. PICK a \in Nat : \A n \in UsedTabs(s) : n <= a
    BY DEF Sound, Bounded
  <1>4. PICK b \in Nat : \A n \in UsedTabs(shell) : n <= b
    BY DEF Sound, Bounded
  <1>5. UsedTabs(s) \subseteq Nat /\ UsedTabs(shell) \subseteq Nat
    BY UsedAreNumbers DEF Sound
  <1>6. a + b \in Nat /\ \A n \in UsedIn(s, d) : n <= a + b
    BY <1>2, <1>3, <1>4, <1>5
  <1> QED  BY <1>6 DEF BoundedIn

\* A handler that ends leaves a shell and a store that agree.
LEMMA DoneKeeps ==
  ASSUME Safe(up, shell, store, torn), NEW s, Ready(s), NEW d, Done(s, d)
  PROVE  Safe(TRUE, s, d, torn)
  <1>1. /\ Sound(s) /\ IsShell(s) /\ Sound(shell) /\ IsStore(store) /\ IsStore(d)
        /\ s.open \in Seq(Workspaces)
    BY SafeIsSound DEF Ready, Sound, Done, IsShell
  <1>2. ClosedIn(d) = s.closed
    BY DEF Done, ClosedIn, ControlState, NoControlState
  <1>3. /\ \A r \in Rows(d) : \/ r \in Rows(store) /\ r.id \notin OpenIds(s)
                              \/ \E k \in DOMAIN s.open : r = s.open[k]
        /\ \A k \in DOMAIN s.open : s.open[k] \in Rows(d)
    BY <1>1, OpenIdsParts DEF Done
  <1>4. \A r \in Rows(d) : r.id \in OpenIds(s) \/ (r \in Rows(store) /\ r.id \in s.closed)
    <2>1. \A k \in DOMAIN s.open : s.open[k].id \in OpenIds(s)
      BY <1>1, OpenIdsParts
    <2>2. \A r \in Rows(store) : r.id \in OpenIds(s) \cup s.closed
      BY DEF Ready
    <2>3. ASSUME NEW r \in Rows(d) PROVE r.id \in OpenIds(s) \/ (r \in Rows(store) /\ r.id \in s.closed)
      <3>1. CASE r \in Rows(store) /\ r.id \notin OpenIds(s)
        BY <2>2, <3>1
      <3>2. CASE \E k \in DOMAIN s.open : r = s.open[k]
        <4>1. PICK k \in DOMAIN s.open : r = s.open[k]
          BY <3>2
        <4>2. s.open[k].id \in OpenIds(s)
          BY <2>1
        <4> QED  BY <4>1, <4>2
      <3> QED  BY <1>3, <3>1, <3>2
    <2> QED  BY <2>3
  <1>5. BoundedIn(s, d)
    <2>1. Rows(d) \subseteq Rows(store) \cup ToSet(s.open)
      BY DEF Done
    <2>2. d.sessions \subseteq store.sessions \cup shell.terminals \cup s.terminals
      BY DEF Done
    <2> QED  BY <1>1, <2>1, <2>2, WritesAreBounded
  <1>6. Linked(s, d)
    <2>1. ToSet(s.open) \subseteq Rows(d)
      BY DEF Done
    <2> QED  BY <1>2, <1>4, <2>1 DEF Linked, Ready
  <1>7. RootsApart(d)
    <2>1. ASSUME NEW a \in Rows(d), NEW b \in Rows(d), a.id \notin s.closed, b.id \notin s.closed,
                 a.root = b.root
          PROVE  a = b
      <3>1. a.id \in OpenIds(s) /\ b.id \in OpenIds(s)
        BY <1>4, <2>1
      <3>2. PICK k \in DOMAIN s.open : a = s.open[k]
        BY <1>3, <3>1
      <3>3. PICK l \in DOMAIN s.open : b = s.open[l]
        BY <1>3, <3>1
      <3> QED  BY <2>1, <3>2, <3>3 DEF Ready
    <2> QED  BY <1>2, <2>1 DEF RootsApart
  <1>8. IdsGiven(s, d)
    <2>1. ASSUME NEW r \in Rows(d) PROVE r.id <= s.made.workspaces
      <3>1. CASE r \in Rows(store) /\ r.id \notin OpenIds(s)
        BY <3>1 DEF Ready
      <3>2. CASE \E k \in DOMAIN s.open : r = s.open[k]
        BY <3>2 DEF Ready
      <3> QED  BY <1>3, <3>1, <3>2
    <2> QED  BY <1>2, <2>1 DEF IdsGiven, Ready
  <1>9. ASSUME torn = 0 PROVE RowsWhole(d) /\ AllRun(s)
    <2>1. RowsWhole(store) /\ Whole(s)
      BY <1>9 DEF Safe, Ready
    <2>2. \A x \in Rows(store) : x.id \notin OpenIds(s) => TabsOf(x) \cap AllTabs(s.open) = {}
      BY <1>1, <2>1, RowsParts DEF Whole, Apart
    <2>3. RowsApart(Rows(d))
      <3>1. ASSUME NEW a \in Rows(store), a.id \notin OpenIds(s), NEW k \in DOMAIN s.open,
                   NEW i \in DOMAIN a.windows, NEW j \in DOMAIN s.open[k].windows, NEW t
            PROVE  ~(t \in a.windows[i].tabs /\ t \in s.open[k].windows[j].tabs)
        <4>1. s.open[k].windows[j].tabs \subseteq AllTabs(s.open)
          BY <1>1, TabsAreIn
        <4>2. a.windows[i].tabs \subseteq TabsOf(a)
          BY DEF TabsOf
        <4> QED  BY <2>2, <3>1, <4>1, <4>2
      <3>2. ASSUME NEW a \in Rows(d), NEW b \in Rows(d), NEW i \in DOMAIN a.windows,
                   NEW j \in DOMAIN b.windows, NEW t,
                   t \in a.windows[i].tabs, t \in b.windows[j].tabs
            PROVE  a = b /\ i = j
        <4>1. CASE /\ a \in Rows(store) /\ a.id \notin OpenIds(s)
                   /\ b \in Rows(store) /\ b.id \notin OpenIds(s)
          BY <2>1, <3>2, <4>1 DEF RowsWhole, RowsApart
        <4>2. CASE /\ a \in Rows(store) /\ a.id \notin OpenIds(s)
                   /\ \E k \in DOMAIN s.open : b = s.open[k]
          BY <3>1, <3>2, <4>2
        <4>3. CASE /\ \E k \in DOMAIN s.open : a = s.open[k]
                   /\ b \in Rows(store) /\ b.id \notin OpenIds(s)
          BY <3>1, <3>2, <4>3
        <4>4. CASE /\ \E k \in DOMAIN s.open : a = s.open[k]
                   /\ \E k \in DOMAIN s.open : b = s.open[k]
          <5>1. PICK k \in DOMAIN s.open : a = s.open[k]
            BY <4>4
          <5>2. PICK l \in DOMAIN s.open : b = s.open[l]
            BY <4>4
          <5>3. k = l /\ i = j
            BY <2>1, <3>2, <5>1, <5>2 DEF Whole, Disjoint
          <5> QED  BY <5>1, <5>2, <5>3
        <4> QED  BY <1>3, <4>1, <4>2, <4>3, <4>4
      <3> QED  BY <3>2 DEF RowsApart
    <2>4. ASSUME NEW r \in Rows(d) PROVE SessionsIn(TabsOf(r), "terminal") \subseteq d.sessions
      <3>1. CASE r \in Rows(store) /\ r.id \notin OpenIds(s)
        BY <1>9, <3>1 DEF Done
      <3>2. CASE \E k \in DOMAIN s.open : r = s.open[k]
        <4>1. TabsOf(r) \subseteq AllTabs(s.open)
          BY <3>2 DEF AllTabs
        <4>2. SessionsIn(AllTabs(s.open), "terminal") \subseteq s.terminals
          BY <2>1 DEF Whole, AllRun
        <4>3. s.terminals \subseteq d.sessions
          BY DEF Done
        <4> QED  BY <4>1, <4>2, <4>3 DEF SessionsIn
      <3> QED  BY <1>3, <3>1, <3>2
    <2> QED  BY <2>1, <2>3, <2>4 DEF RowsWhole, Whole
  <1>10. NoStray(s) /\ torn \in Nat
    BY <1>1 DEF Sound, Safe
  <1> QED  BY <1>1, <1>5, <1>6, <1>7, <1>8, <1>9, <1>10 DEF Safe

\* A crash in the middle leaves a store to start from: the closed workspaces are
\* still those from before the handler.
LEMMA LeftKeeps ==
  ASSUME Safe(up, shell, store, torn), NEW s, Ready(s), NEW d, Left(s, d)
  PROVE  Safe(FALSE, s, d, torn + 1)
  <1>1. /\ Sound(s) /\ IsShell(s) /\ Sound(shell) /\ IsStore(store) /\ IsStore(d)
        /\ s.open \in Seq(Workspaces)
    BY SafeIsSound DEF Ready, Sound, Left, IsShell
  <1>2. ClosedIn(d) = ClosedIn(store)
    BY DEF Left
  <1>3. \A r \in Rows(d) : r \in Rows(store) \/ \E k \in DOMAIN s.open : r = s.open[k]
    BY <1>1, OpenIdsParts DEF Left
  <1>4. BoundedIn(s, d)
    BY <1>1, WritesAreBounded DEF Left
  <1>5. RootsApart(d)
    <2>1. ASSUME NEW a \in Rows(d), NEW b \in Rows(d),
                 a.id \notin ClosedIn(store), b.id \notin ClosedIn(store), a.root = b.root
          PROVE  a.id = b.id
      <3>1. CASE a \in Rows(store) /\ b \in Rows(store)
        BY <2>1, <3>1 DEF Safe, RootsApart
      <3>2. CASE a \in Rows(store) /\ \E k \in DOMAIN s.open : b = s.open[k]
        BY <2>1, <3>2 DEF Ready
      <3>3. CASE (\E k \in DOMAIN s.open : a = s.open[k]) /\ b \in Rows(store)
        BY <2>1, <3>3 DEF Ready
      <3>4. CASE /\ \E k \in DOMAIN s.open : a = s.open[k]
                 /\ \E k \in DOMAIN s.open : b = s.open[k]
        BY <2>1, <3>4 DEF Ready
      <3> QED  BY <1>3, <3>1, <3>2, <3>3, <3>4
    <2> QED  BY <1>1, <1>2, <2>1, RowsParts DEF RootsApart
  <1>6. IdsGiven(s, d)
    <2>1. /\ s.made.workspaces \in Nat /\ shell.made.workspaces \in Nat
          /\ shell.made.workspaces <= s.made.workspaces
      BY <1>1 DEF Ready, IsShell, Sound
    <2>2. \A r \in Rows(store) : r.id <= shell.made.workspaces /\ r.id \in Nat
      <3>1. Rows(store) \subseteq Workspaces
        BY <1>1, RowsParts
      <3>2. \A r \in Workspaces : r.id \in Nat
        BY DEF Workspaces, WorkspaceIds
      <3> QED  BY <3>1, <3>2 DEF Safe, IdsGiven
    <2>3. \A c \in ClosedIn(store) : c <= shell.made.workspaces /\ c \in Nat
      BY DEF Safe, IdsGiven, IsStore, ClosedIn
    <2>4. \A r \in Rows(d) : r.id <= s.made.workspaces
      BY <1>3, <2>1, <2>2 DEF Ready
    <2>5. \A c \in ClosedIn(d) : c <= s.made.workspaces
      BY <1>2, <2>1, <2>3
    <2> QED  BY <2>4, <2>5 DEF IdsGiven
  <1>7. NoStray(s) /\ torn + 1 \in Nat /\ torn + 1 # 0
    BY <1>1 DEF Sound, Safe
  <1> QED  BY <1>1, <1>4, <1>5, <1>6, <1>7 DEF Safe

------------------------------------------------------------------------------
(* The trees of a shell and those that are stored. *)

\* The stored trees are sound together, and that of a closed workspace fits it.
StoredLayouts(db) == db.control[1].layouts
StoredTrees(db) ==
  db.control # NoControlState =>
    /\ \E n \in Nat : Trees(StoredLayouts(db), n)
    /\ \A r \in Rows(db) : r.id \in ClosedIn(db) => FitsIn(StoredLayouts(db)[r.id], r)

\* The trees of the shell fit what is open, and what is stored and not open.
Fitting(s, db) ==
  /\ Planted(s)
  /\ \A k \in DOMAIN s.open : FitAt(s, k)
  /\ \A r \in Rows(db) : r.id \notin OpenIds(s) => FitsIn(s.layouts[r.id], r)

\* No window id is given out twice.
WindowsGiven(s, db) == \A r \in Rows(db) : \A w \in WindowIds(r) : w <= s.made.windows

\* The second half of the inductive invariant.
Grounded(u, s, db) == StoredTrees(db) /\ WindowsGiven(s, db) /\ (u => Fitting(s, db))

\* What is open again but still stored as closed still fits its stored tree.
KeepsClosed(s, db) ==
  db.control # NoControlState =>
    \A k \in DOMAIN s.open :
      s.open[k].id \in ClosedIn(db) => FitsIn(StoredLayouts(db)[s.open[k].id], s.open[k])

\* What a handler may make of the trees, to be written over this store.
TreesReady(s) ==
  /\ Fitting(s, store)
  /\ shell.made.windows <= s.made.windows
  /\ KeepsClosed(s, store)

\* Some of the trees, the others not there.
LEMMA SomeTrees ==
  ASSUME NEW layouts, NEW n, Trees(layouts, n), NEW new, DOMAIN new = WorkspaceIds,
         \A id \in WorkspaceIds : new[id] = layouts[id] \/ new[id] = NoTree
  PROVE  Trees(new, n)
  <1>1. \A id \in WorkspaceIds : IsTree(new[id]) /\ \A m \in SplitIds(new[id]) : m \in SplitIds(layouts[id])
    BY NoTreeIsTree DEF Trees
  <1> QED  BY <1>1 DEF Trees

\* The ids of a stored workspace and its windows.
LEMMA RowIds ==
  ASSUME NEW db, IsStore(db), NEW r \in Rows(db)
  PROVE  r.id \in WorkspaceIds /\ \A w \in WindowIds(r) : w \in Nat
  <1>1. db.workspaces \in Seq(Workspaces) /\ \E j \in DOMAIN db.workspaces : r = db.workspaces[j]
    BY RowsParts DEF IsStore
  <1> QED  BY <1>1, WindowIdsParts

\* The trees of the shell that runs may be written as they are,
LEMMA ShellTreesReady ==
  ASSUME up, Safe(up, shell, store, torn), Grounded(up, shell, store)
  PROVE  TreesReady(shell)
  <1>1. IsShell(shell) /\ Linked(shell, store) /\ shell.open \in Seq(Workspaces) /\ shell.made.windows \in Nat
    BY DEF Safe, IsShell
  <1>2. \A k \in DOMAIN shell.open : shell.open[k].id \notin ClosedIn(store)
    BY <1>1, OpenIdsParts DEF Linked
  <1>3. shell.made.windows <= shell.made.windows
    BY <1>1
  <1> QED  BY <1>2, <1>3 DEF TreesReady, Grounded, KeepsClosed

\* and so may what an operation makes of them, that closes no window of a
\* workspace still stored as closed.
LEMMA TreesReadyCarries ==
  ASSUME IsStore(store), IsShell(shell), NEW s, Ready(s), TreesReady(s), NEW r, Carries(s, r), Grown(s, r),
         OpenIds(s) \cap ClosedIn(store) = {} \/ Enlarges(s, r)
  PROVE  TreesReady(r)
  <1>1. /\ IsShell(s) /\ IsShell(r) /\ SameIds(s.open, r.open) /\ s.open \in Seq(Workspaces)
        /\ r.open \in Seq(Workspaces)
    BY DEF Ready, Carries, Sound, IsShell
  <1>2. OpenIds(r) = OpenIds(s) /\ DOMAIN r.open = DOMAIN s.open
    BY <1>1, SameOpenIds
  <1>3. \A k \in DOMAIN s.open : k # 0 /\ r.open[k].id = s.open[k].id
    BY <1>1 DEF SameIds
  <1>4. Planted(r) /\ \A k \in DOMAIN r.open : FitAt(r, k)
    BY <1>2, <1>3 DEF TreesReady, Fitting, Grown, GrownBut
  <1>5. \A row \in Rows(store) : row.id \notin OpenIds(r) => FitsIn(r.layouts[row.id], row)
    BY <1>2, RowIds DEF TreesReady, Fitting, Grown, GrownBut
  <1>6. shell.made.windows <= r.made.windows
    <2>1. /\ s.made.windows \in Nat /\ r.made.windows \in Nat /\ shell.made.windows \in Nat
          /\ shell.made.windows <= s.made.windows /\ s.made.windows <= r.made.windows
      BY <1>1 DEF IsShell, TreesReady, Grown, GrownBut
    <2> QED  BY <2>1
  <1>7. KeepsClosed(r, store)
    <2>1. CASE OpenIds(s) \cap ClosedIn(store) = {}
      BY <1>1, <1>2, <2>1, OpenIdsParts DEF KeepsClosed
    <2>2. CASE Enlarges(s, r)
      BY <1>2, <1>3, <2>2 DEF KeepsClosed, Enlarges, FitsIn, TreesReady
    <2> QED  BY <2>1, <2>2
  <1> QED  BY <1>4, <1>5, <1>6, <1>7 DEF TreesReady, Fitting

\* So it is for what keeps all windows.
LEMMA ReadyGrows ==
  ASSUME IsStore(store), IsShell(shell), NEW s, Ready(s), TreesReady(s),
         NEW r, Carries(s, r), Grows(s, r)
  PROVE  Ready(r) /\ TreesReady(r)
  <1>1. Planted(s)
    BY DEF TreesReady, Fitting
  <1> QED  BY <1>1, ReadyCarries, TreesReadyCarries DEF Grows

\* Writes give out no window.
LEMMA WindowsStayGiven ==
  ASSUME Safe(up, shell, store, torn), Grounded(up, shell, store), NEW s, Ready(s), TreesReady(s),
         NEW d, Rows(d) \subseteq Rows(store) \cup ToSet(s.open)
  PROVE  WindowsGiven(s, d)
  <1>1. /\ IsShell(s) /\ IsShell(shell) /\ s.open \in Seq(Workspaces) /\ IsStore(store)
        /\ s.made.windows \in Nat /\ shell.made.windows \in Nat
        /\ shell.made.windows <= s.made.windows
    BY DEF Safe, Ready, TreesReady, Sound, IsShell
  <1>2. ASSUME NEW r \in Rows(store), NEW w \in WindowIds(r) PROVE w <= s.made.windows
    <2>1. w \in Nat /\ w <= shell.made.windows
      BY <1>1, RowIds DEF Grounded, WindowsGiven
    <2> QED  BY <1>1, <2>1
  <1>3. ASSUME NEW r \in ToSet(s.open), NEW w \in WindowIds(r) PROVE w <= s.made.windows
    <2>1. PICK k \in DOMAIN s.open : r = s.open[k]
      BY <1>1, OpenIdsParts
    <2> QED  BY <2>1 DEF TreesReady, Fitting, Planted
  <1> QED  BY <1>2, <1>3 DEF WindowsGiven

\* A handler that ends leaves trees that fit what is stored.
LEMMA DoneGrounds ==
  ASSUME Safe(up, shell, store, torn), Grounded(up, shell, store), NEW s, Ready(s), TreesReady(s),
         NEW d, Done(s, d)
  PROVE  Grounded(TRUE, s, d)
  <1>1. IsShell(s) /\ s.open \in Seq(Workspaces) /\ IsStore(store) /\ IsStore(d)
    BY DEF Safe, Ready, Sound, IsShell, Done
  <1>2. Rows(d) = {r \in Rows(store) : r.id \notin OpenIds(s)} \cup ToSet(s.open)
    BY DEF Done
  <1>3. \A r \in Rows(d) : r.id \in OpenIds(s) \/ r \in Rows(store)
    BY <1>1, <1>2, OpenIdsParts
  <1> DEFINE layouts == StoredLayouts(d)
  <1>4. ClosedIn(d) = s.closed /\ layouts = [id \in WorkspaceIds |-> WrittenLayout(s, id)]
    BY DEF Done, ClosedIn, ControlState, NoControlState, StoredLayouts
  <1> HIDE DEF layouts
  <1>5. \A id \in WorkspaceIds : layouts[id] = s.layouts[id] \/ layouts[id] = NoTree
    BY <1>4 DEF WrittenLayout
  <1>6. Trees(layouts, s.nextSplit) /\ s.nextSplit \in Nat
    <2>1. Trees(s.layouts, s.nextSplit) /\ DOMAIN layouts = WorkspaceIds
      BY <1>4 DEF TreesReady, Fitting, Planted
    <2>2. Trees(layouts, s.nextSplit)
      BY <1>5, <2>1, SomeTrees
    <2> QED  BY <2>1, <2>2 DEF Trees
  <1>7. ASSUME NEW r \in Rows(d), r.id \in s.closed PROVE FitsIn(layouts[r.id], r)
    <2>1. r.id \notin OpenIds(s) /\ r \in Rows(store)
      BY <1>3, <1>7 DEF Ready
    <2>2. FitsIn(s.layouts[r.id], r) /\ r.id \in WorkspaceIds
      BY <1>1, <2>1, RowIds DEF TreesReady, Fitting
    <2> QED  BY <1>5, <2>2, NoTreeIsTree DEF FitsIn
  <1>8. StoredTrees(d)
    BY <1>4, <1>6, <1>7 DEF StoredTrees, layouts
  <1>9. WindowsGiven(s, d)
    BY <1>2, WindowsStayGiven
  <1>10. Fitting(s, d)
    BY <1>3 DEF TreesReady, Fitting
  <1> QED  BY <1>8, <1>9, <1>10 DEF Grounded

\* What a crash leaves of a handler's writes of rows fits the stored trees.
LEMMA PartlyFits ==
  ASSUME NEW db, NEW s, s.open \in Seq(Workspaces), NEW d, Partly(db, s, d),
         StoredTrees(db), KeepsClosed(s, db)
  PROVE  StoredTrees(d)
  <1>1. /\ d.control = db.control /\ ClosedIn(d) = ClosedIn(db)
        /\ StoredLayouts(d) = StoredLayouts(db)
    BY DEF Partly, ClosedIn, StoredLayouts
  <1>2. ASSUME d.control # NoControlState, NEW r \in Rows(d), r.id \in ClosedIn(d)
        PROVE  FitsIn(StoredLayouts(d)[r.id], r)
    <2>1. CASE r \in Rows(db)
      BY <1>1, <1>2, <2>1 DEF StoredTrees
    <2>2. CASE r \in ToSet(s.open)
      <3>1. PICK k \in DOMAIN s.open : r = s.open[k]
        BY <2>2, OpenIdsParts
      <3> QED  BY <1>1, <1>2, <3>1 DEF KeepsClosed
    <2> QED  BY <2>1, <2>2 DEF Partly
  <1> QED  BY <1>1, <1>2 DEF StoredTrees
------------------------------------------------------------------------------
\* One persist_state.
LEMMA PersistKeeps ==
  ASSUME Safe(up, shell, store, torn), StoredTrees(store), NEW s, Ready(s), KeepsClosed(s, store)
  PROVE  /\ Done(s, Written(store, PersistWrites(s))[Len(PersistWrites(s))])
         /\ \A d : Remains(store, PersistWrites(s), d) => Left(s, d) /\ StoredTrees(d)
  <1> DEFINE d == Written(store, PersistWrites(s))[Len(PersistWrites(s))]
  <1>1. IsShell(s) /\ Unique(s.open) /\ IsStore(store)
    BY SafeIsSound DEF Ready, Sound
  <1>2. Persisted(store, s, d)
    BY <1>1, PersistDone
  <1> HIDE DEF d
  <1>3. torn = 0 => \A r \in Rows(store) : SessionsIn(TabsOf(r), "terminal") \subseteq store.sessions
    BY DEF Safe, RowsWhole
  <1>4. Done(s, d)
    BY <1>2, <1>3 DEF Persisted, Done
  <1>5. ASSUME NEW e, Remains(store, PersistWrites(s), e) PROVE Left(s, e) /\ StoredTrees(e)
    <2>1. Partly(store, s, e) /\ s.open \in Seq(Workspaces)
      BY <1>1, <1>5, PersistTorn DEF IsShell
    <2>2. StoredTrees(e)
      BY <2>1, PartlyFits
    <2> QED  BY <2>1, <2>2 DEF Partly, Left, ClosedIn
  <1> QED  BY <1>4, <1>5 DEF d

\* The writes of remove_terminal_runtime.
DeleteWrites == {[table |-> "deleted", row |-> ids] : ids \in SUBSET (Nat \ {0})}

\* The sessions of tabs that went are deleted before the rest is saved.
LEMMA DeletesKeep ==
  ASSUME up, Safe(up, shell, store, torn), StoredTrees(store), NEW s, Ready(s),
         KeepsClosed(s, store), OpenIds(s) = OpenIds(shell), NEW tabs \in SUBSET AllTabs(shell.open)
  PROVE  LET W == Deletes(tabs) \o PersistWrites(s)
         IN  /\ Done(s, Written(store, W)[Len(W)])
             /\ \A d : Remains(store, W, d) => Left(s, d) /\ StoredTrees(d)
  <1> DEFINE ids == SessionsIn(tabs, "terminal")
             P == PersistWrites(s)
             D == Deletes(tabs)
             W == D \o P
             S == DeleteWrites \cup RowWrites \cup {SessionsWrite(s), ControlWrite(s)}
             db == Written(store, D)[1]
             d == Written(db, P)[Len(P)]
  <1>1. /\ IsShell(s) /\ Unique(s.open) /\ IsStore(store) /\ IsShell(shell) /\ Sound(shell)
        /\ Linked(shell, store) /\ Ready(shell)
    BY SafeIsSound, ShellIsReady DEF Ready, Sound, Safe
  <1>2. ids \in SUBSET (Nat \ {0})
    <2>1. tabs \in SUBSET Tabs
      BY <1>1, TabsAreIn DEF IsShell
    <2> QED  BY <2>1 DEF SessionsIn, Tabs
  <1>3. D = <<[table |-> "deleted", row |-> ids]>>
    BY DEF Deletes
  <1> HIDE DEF ids
  <1>4. D \in Seq(S) /\ Len(D) = 1 /\ D[1] = [table |-> "deleted", row |-> ids]
    <2>1. [table |-> "deleted", row |-> ids] \in S
      BY <1>2 DEF DeleteWrites
    <2> HIDE DEF S, D
    <2> QED  BY <1>3, <2>1
  <1>5. P \in Seq(S) /\ Len(P) \in Nat
    <2>1. P \in Seq(RowWrites \cup {SessionsWrite(s), ControlWrite(s)}) /\ Len(P) \in Nat
      BY <1>1, PersistWritesParts
    <2>2. RowWrites \cup {SessionsWrite(s), ControlWrite(s)} \subseteq S
      OBVIOUS
    <2> HIDE DEF S, P
    <2> QED  BY <2>1, <2>2, SeqMonotonic
  <1> HIDE DEF S, D, P
  <1>6. Len(W) = Len(D) + Len(P)
    BY <1>4, <1>5, ConcatProperties
  <1>7. db = Write(store, [table |-> "deleted", row |-> ids]) /\ Written(store, D)[0] = store
    <2>1. Len(D) \in Nat /\ 1 \in 1 .. Len(D)
      BY <1>4
    <2>2. Written(store, D)[1] = Write(Written(store, D)[1 - 1], D[1])
      BY <2>1, WrittenSteps
    <2>3. Written(store, D)[0] = store
      BY <2>1, WrittenSteps
    <2> QED  BY <1>4, <2>2, <2>3
  <1>8. /\ IsStore(db) /\ Rows(db) = Rows(store) /\ db.control = store.control
        /\ db.sessions = store.sessions \ ids
    BY <1>1, <1>7, SessionsDeleted
  <1>9. Written(store, W)[Len(W)] = d
    <2>1. Written(store, D \o P)[Len(D) + Len(P)] = Written(Written(store, D)[Len(D)], P)[Len(P)]
      <3>1. Len(P) \in 0 .. Len(P)
        BY <1>5
      <3>2. D \in Seq(S) /\ P \in Seq(S)
        BY <1>4, <1>5
      <3>3. \A n \in 0 .. Len(P) :
              Written(store, D \o P)[Len(D) + n] = Written(Written(store, D)[Len(D)], P)[n]
        BY <3>2, WrittenJoined
      <3> QED  BY <3>1, <3>3
    <2> QED  BY <1>4, <1>6, <2>1
  <1> HIDE DEF db
  <1>10. Persisted(db, s, d)
    BY <1>1, <1>8, PersistDone DEF P
  <1> HIDE DEF d
  <1>11. ASSUME torn = 0, NEW r \in Rows(store), r.id \notin OpenIds(s)
         PROVE  SessionsIn(TabsOf(r), "terminal") \subseteq d.sessions
    <2>1. SessionsIn(TabsOf(r), "terminal") \subseteq store.sessions
      BY <1>11 DEF Safe, RowsWhole
    <2>2. TabsOf(r) \cap AllTabs(shell.open) = {}
      BY <1>1, <1>11, RowsParts DEF Ready, Whole, Apart
    <2>3. TabsOf(r) \in SUBSET Tabs /\ tabs \in SUBSET Tabs
      BY <1>1, RowsParts, TabsOfParts, TabsAreIn DEF IsShell
    <2>4. SessionsIn(TabsOf(r), "terminal") \cap ids = {}
      <3>1. ASSUME NEW t \in TabsOf(r), NEW u \in tabs, t.kind = "terminal", u.kind = "terminal",
                   t.id = u.id
            PROVE  FALSE
        <4>1. t = [id |-> t.id, kind |-> t.kind] /\ u = [id |-> u.id, kind |-> u.kind]
          BY <2>3 DEF Tabs
        <4>2. t = u
          BY <3>1, <4>1
        <4> QED  BY <2>2, <4>2
      <3> QED  BY <3>1 DEF SessionsIn, ids
    <2> QED  BY <1>8, <1>10, <2>1, <2>4 DEF Persisted
  <1>12. Done(s, d)
    BY <1>8, <1>10, <1>11 DEF Persisted, Done
  <1>13. ASSUME NEW e, Remains(store, W, e) PROVE Left(s, e) /\ StoredTrees(e)
    <2>1. Remains(store, D, e) \/ Remains(db, P, e)
      BY <1>4, <1>5, <1>13, RemainsJoined DEF db
    <2>2. CASE Remains(store, D, e)
      <3>1. /\ IsStore(e) /\ Rows(e) = Rows(store) /\ e.control = store.control
            /\ e.sessions \subseteq store.sessions
        <4>1. CASE e = store
          BY <1>1, <4>1
        <4>2. CASE \E w \in Part([table |-> "deleted", row |-> ids]) : e = Write(store, w)
          <5>1. PICK w \in Part([table |-> "deleted", row |-> ids]) : e = Write(store, w)
            BY <4>2
          <5>2. PICK some : w = [table |-> "deleted", row |-> some]
            BY DEF Part
          <5>3. e = Write(store, [table |-> "deleted", row |-> some])
            BY <5>1, <5>2
          <5>4. /\ IsStore(e) /\ Rows(e) = Rows(store) /\ e.control = store.control
                /\ e.sessions = store.sessions \ some
            BY <1>1, <5>3, SessionsDeleted
          <5> QED  BY <5>4
        <4>3. e = store \/ \E w \in Part([table |-> "deleted", row |-> ids]) : e = Write(store, w)
          <5>1. PICK n \in 0 .. Len(D) - 1 :
                  \/ e = Written(store, D)[n]
                  \/ \E w \in Part(D[n + 1]) : e = Write(Written(store, D)[n], w)
            BY <2>2 DEF Remains
          <5>2. n = 0
            BY <1>4
          <5> QED  BY <1>4, <1>7, <5>1, <5>2
        <4> QED  BY <4>1, <4>2, <4>3
      <3>2. StoredTrees(e)
        BY <3>1 DEF StoredTrees, StoredLayouts, ClosedIn
      <3> QED  BY <3>1, <3>2 DEF Left, ClosedIn
    <2>3. CASE Remains(db, P, e)
      <3>1. Partly(db, s, e)
        BY <1>1, <1>8, <2>3, PersistTorn DEF P
      <3>2. StoredTrees(db) /\ KeepsClosed(s, db) /\ s.open \in Seq(Workspaces)
        BY <1>1, <1>8 DEF StoredTrees, KeepsClosed, StoredLayouts, ClosedIn, IsShell
      <3>3. StoredTrees(e)
        BY <3>1, <3>2, PartlyFits
      <3> QED  BY <1>8, <3>1, <3>3 DEF Partly, Left, ClosedIn
    <2> QED  BY <2>1, <2>2, <2>3
  <1> QED  BY <1>9, <1>12, <1>13 DEF D, P
------------------------------------------------------------------------------
\* The invariant before a step and after it.
SafeNow == Safe(up, shell, store, torn) /\ Grounded(up, shell, store)

\* A handler that ends, or that a crash cuts short.
LEMMA HandledKeeps ==
  ASSUME SafeNow, NEW s, Ready(s), TreesReady(s), NEW W,
         Done(s, Written(store, W)[Len(W)]),
         \A d : Remains(store, W, d) => Left(s, d) /\ StoredTrees(d),
         Handled(s, W)
  PROVE  SafeNow'
  <1>1. shell' = s
    BY DEF Handled
  <1>2. CASE Complete(s, W)
    <2>1. Safe(TRUE, s, Written(store, W)[Len(W)], torn)
          /\ Grounded(TRUE, s, Written(store, W)[Len(W)])
      BY DoneKeeps, DoneGrounds DEF SafeNow
    <2> QED  BY <1>1, <1>2, <2>1 DEF Complete, SafeNow
  <1>3. CASE Torn(s, W)
    <2>1. Remains(store, W, store') /\ up' = FALSE /\ torn' = torn + 1
      BY <1>3 DEF Torn, Remains
    <2>2. Left(s, store') /\ StoredTrees(store')
      BY <2>1
    <2>3. Safe(FALSE, s, store', torn + 1)
      BY <2>2, LeftKeeps DEF SafeNow
    <2>4. Grounded(FALSE, s, store')
      BY <2>2, WindowsStayGiven DEF SafeNow, Left, Grounded
    <2> QED  BY <1>1, <2>1, <2>3, <2>4 DEF SafeNow
  <1> QED  BY <1>2, <1>3 DEF Handled

\* A handler that ends with persist_state.
LEMMA PersistedKeeps ==
  ASSUME SafeNow, NEW s, Ready(s), TreesReady(s), Handled(s, PersistWrites(s))
  PROVE  SafeNow'
  <1>1. /\ Done(s, Written(store, PersistWrites(s))[Len(PersistWrites(s))])
        /\ \A d : Remains(store, PersistWrites(s), d) => Left(s, d) /\ StoredTrees(d)
    BY PersistKeeps DEF SafeNow, Grounded, TreesReady
  <1> QED  BY <1>1, HandledKeeps

\* What an operation that neither opens nor closes a workspace makes of the shell.
CanFollow(s) == Carries(shell, s) /\ (Planted(shell) => Grown(shell, s))

LEMMA FollowsIsReady ==
  ASSUME SafeNow, up, NEW s, CanFollow(s)
  PROVE  Ready(s) /\ TreesReady(s) /\ OpenIds(s) = OpenIds(shell)
  <1>1. /\ Ready(shell) /\ TreesReady(shell) /\ IsStore(store) /\ IsShell(shell)
        /\ OpenIds(shell) \cap ClosedIn(store) = {}
    BY ShellIsReady, ShellTreesReady DEF SafeNow, Safe, Linked
  <1>2. Ready(s)
    BY <1>1, ReadyCarries DEF CanFollow
  <1>3. TreesReady(s)
    <2>1. Planted(shell)
      BY <1>1 DEF TreesReady, Fitting
    <2> QED  BY <1>1, <2>1, TreesReadyCarries DEF CanFollow
  <1>4. OpenIds(s) = OpenIds(shell)
    BY <1>1, <1>2, SameOpenIds DEF CanFollow, Carries, Ready, Sound, IsShell
  <1> QED  BY <1>2, <1>3, <1>4

LEMMA CarriedKeeps ==
  ASSUME SafeNow, NEW s, CanFollow(s), Handle(s)
  PROVE  SafeNow'
  BY FollowsIsReady, PersistedKeeps DEF Handle

\* One that removes tabs and deletes their sessions.
LEMMA DeletedKeeps ==
  ASSUME SafeNow, up, NEW s, CanFollow(s), NEW tabs \in SUBSET AllTabs(shell.open),
         Handled(s, Deletes(tabs) \o PersistWrites(s))
  PROVE  SafeNow'
  <1>1. Ready(s) /\ TreesReady(s) /\ OpenIds(s) = OpenIds(shell)
    BY FollowsIsReady
  <1> DEFINE W == Deletes(tabs) \o PersistWrites(s)
  <1>2. /\ Done(s, Written(store, W)[Len(W)])
        /\ \A d : Remains(store, W, d) => Left(s, d) /\ StoredTrees(d)
    BY <1>1, DeletesKeep DEF SafeNow, Grounded, TreesReady
  <1>3. Handled(s, W)
    OBVIOUS
  <1> HIDE DEF W
  <1> QED  BY <1>1, <1>2, <1>3, HandledKeeps

\* What is not persisted.
LEMMA ShownKeeps ==
  ASSUME SafeNow, NEW s, Leaves(shell, s), Planted(shell) => Grown(shell, s), Shown(s)
  PROVE  SafeNow'
  <1>1. OpenIds(s) = OpenIds(shell) /\ UsedIn(s, store) = UsedIn(shell, store)
    BY DEF OpenIds, UsedIn, Leaves
  <1>2. Safe(up, s, store, torn)
    <2>1. IsShell(s) /\ NoStray(s) /\ BoundedIn(s, store) /\ IdsGiven(s, store)
      BY <1>1 DEF SafeNow, Safe, Leaves, NoStray, BoundedIn, IdsGiven
    <2>2. up => Linked(s, store)
      BY <1>1 DEF SafeNow, Safe, Leaves, Linked
    <2>3. torn = 0 /\ up => AllRun(s)
      BY DEF SafeNow, Safe, Leaves, AllRun
    <2> QED  BY <2>1, <2>2, <2>3 DEF SafeNow, Safe
  <1>3. Grounded(up, s, store)
    <2>1. up /\ Sound(shell)
      BY SafeIsSound DEF Shown, SafeNow
    <2>2. CanFollow(s)
      BY <2>1, LeavesCarries DEF CanFollow
    <2>3. TreesReady(s)
      BY <2>1, <2>2, FollowsIsReady
    <2> QED  BY <2>3 DEF SafeNow, Grounded, WindowsGiven, TreesReady, Leaves
  <1> QED  BY <1>2, <1>3 DEF Shown, SafeNow

\* A crash between two steps.
LEMMA CrashKeeps ==
  ASSUME SafeNow, Crash
  PROVE  SafeNow'
  <1>1. Safe(FALSE, shell, store, torn) /\ Grounded(FALSE, shell, store)
    BY DEF SafeNow, Safe, Grounded
  <1> QED  BY <1>1 DEF Crash, SafeNow
------------------------------------------------------------------------------
\* SelectInSeq finds the first of the positions it looks for, and 0 if there is none.
LEMMA FirstOf ==
  ASSUME NEW len \in Nat, NEW I \in SUBSET (1 .. len), NEW x, x = IF I # {} THEN Min(I) ELSE 0
  PROVE  x \in 0 .. len /\ (x # 0 => x \in I) /\ (x = 0 => I = {})
  <1>1. CASE I = {}
    BY <1>1
  <1>2. CASE I # {}
    <2>1. I \in SUBSET Nat
      OBVIOUS
    <2>2. PICK y \in I : \A z \in I : y <= z
      BY <1>2, <2>1, Least
    <2>3. Min(I) \in I
      BY <2>2 DEF Min
    <2>4. x = Min(I)
      BY <1>2
    <2>5. I # {} /\ x \in I
      BY <1>2, <2>3, <2>4
    <2> QED  BY <2>5
  <1> QED  BY <1>1, <1>2

\* No workspace of this folder is open if OpenAt finds none.
LEMMA OpenAtIs ==
  ASSUME NEW root, shell.open \in Seq(Workspaces)
  PROVE  /\ OpenAt(root) \in Nat
         /\ OpenAt(root) = 0 => \A k \in DOMAIN shell.open : shell.open[k].root # root
         /\ OpenAt(root) # 0 => OpenAt(root) \in DOMAIN shell.open
  <1> DEFINE I == {i \in 1 .. Len(shell.open) : shell.open[i].root = root}
  <1>1. OpenAt(root) = IF I # {} THEN Min(I) ELSE 0
    BY DEF OpenAt, SelectInSeq
  <1>2. Len(shell.open) \in Nat /\ I \in SUBSET (1 .. Len(shell.open))
    OBVIOUS
  <1>3. DOMAIN shell.open = 1 .. Len(shell.open)
    OBVIOUS
  <1> HIDE DEF I
  <1>4. /\ OpenAt(root) \in 0 .. Len(shell.open)
        /\ OpenAt(root) = 0 => I = {}
        /\ OpenAt(root) # 0 => OpenAt(root) \in I
    BY <1>1, <1>2, FirstOf
  <1> QED  BY <1>2, <1>3, <1>4 DEF I

\* restore_workspace_from_store_for_root finds a workspace of the folder that is not open.
LEMMA StoredForIs ==
  ASSUME NEW s, IsStore(store), NEW root, NEW n, n = StoredFor(s, store, root), n # 0
  PROVE  /\ n \in DOMAIN store.workspaces
         /\ store.workspaces[n].root = root /\ store.workspaces[n].id \notin OpenIds(s)
  <1> DEFINE I == {i \in 1 .. Len(store.workspaces) :
                     store.workspaces[i].root = root /\ store.workspaces[i].id \notin OpenIds(s)}
  <1>1. n = IF I # {} THEN Min(I) ELSE 0
    BY DEF StoredFor, SelectInSeq
  <1>2. /\ Len(store.workspaces) \in Nat /\ I \in SUBSET (1 .. Len(store.workspaces))
        /\ DOMAIN store.workspaces = 1 .. Len(store.workspaces)
    BY DEF IsStore
  <1> HIDE DEF I
  <1>3. n \in I
    BY <1>1, <1>2, FirstOf
  <1> QED  BY <1>2, <1>3 DEF I
------------------------------------------------------------------------------
(* One lemma for the actions that neither open nor close a workspace. *)

\* What each of these lemmas starts from.
LEMMA UpIsSound ==
  ASSUME SafeNow
  PROVE  /\ Sound(shell) /\ IsShell(shell) /\ IsStore(store)
         /\ shell.open \in Seq(Workspaces) /\ DOMAIN shell.open = 1 .. Len(shell.open)
         /\ DOMAIN shell.open \in SUBSET Nat
         /\ up => Linked(shell, store)
  <1>1. Sound(shell) /\ IsStore(store)
    BY SafeIsSound DEF SafeNow
  <1>2. IsShell(shell) /\ shell.open \in Seq(Workspaces)
    BY <1>1 DEF Sound, IsShell
  <1>3. DOMAIN shell.open = 1 .. Len(shell.open) /\ DOMAIN shell.open \in SUBSET Nat
    BY <1>2
  <1> QED  BY <1>1, <1>2, <1>3 DEF SafeNow, Safe

\* One operation after another.
LEMMA FollowsOn ==
  ASSUME SafeNow, NEW r, CanFollow(r), NEW q, Carries(r, q), Grows(r, q)
  PROVE  CanFollow(q)
  <1>1. IsShell(shell) /\ IsShell(r) /\ IsShell(q) /\ SameIds(shell.open, r.open)
    BY UpIsSound DEF CanFollow, Carries, Sound
  <1>2. Carries(shell, q)
    BY <1>1, CarriesOn DEF CanFollow
  <1>3. ASSUME Planted(shell) PROVE Grown(shell, q)
    <2>1. GrownBut(shell, r, 0) /\ Grown(r, q)
      BY <1>3 DEF CanFollow, Grown, GrownBut, Grows
    <2>2. GrownBut(shell, q, 0)
      BY <1>1, <2>1, GrownOn
    <2> QED  BY <2>2 DEF Grown
  <1> QED  BY <1>2, <1>3 DEF CanFollow

\* Another active workspace.
LEMMA ActiveFollows ==
  ASSUME SafeNow, NEW k \in DOMAIN shell.open
  PROVE  Leaves(shell, [shell EXCEPT !.active = k]) /\ CanFollow([shell EXCEPT !.active = k])
  <1> DEFINE s == [shell EXCEPT !.active = k]
  <1>1. k \in Nat
    BY UpIsSound
  <1>2. Leaves(shell, s) /\ Grows(shell, s)
    BY <1>1, UpIsSound, ActiveLeaves, ActiveGrows
  <1> HIDE DEF s
  <1>3. CanFollow(s)
    BY <1>2, UpIsSound, LeavesCarries DEF CanFollow, Grows
  <1> QED  BY <1>2, <1>3 DEF s

\* Render, PointAtWorkspace
LEMMA ShownActionsKeep ==
  ASSUME SafeNow,
         Render \/ \E k \in DOMAIN shell.open : PointAtWorkspace(k)
  PROVE  SafeNow'
  <1>1. CASE Render
    <2> DEFINE s == Reconcile(shell, shell.active)
    <2>1. Leaves(shell, s) /\ Shown(s)
      BY <1>1, UpIsSound, ReconcileLeaves DEF Render
    <2>2. ASSUME Planted(shell) PROVE Grown(shell, s)
      <3>1. shell.active \in DOMAIN shell.open
        <4>1. Len(shell.open) \in Nat /\ Len(shell.open) # 0
          BY <1>1, UpIsSound DEF Render
        <4> QED  BY <2>2, <4>1, UpIsSound DEF Planted
      <3>2. Grows(shell, s)
        BY <3>1, UpIsSound, ReconcileGrows
      <3> HIDE DEF s
      <3> QED  BY <2>2, <3>2 DEF Grows
    <2> HIDE DEF s
    <2> QED  BY <2>1, <2>2, ShownKeeps
  <1>2. ASSUME NEW k \in DOMAIN shell.open, PointAtWorkspace(k) PROVE SafeNow'
    BY <1>2, ActiveFollows, ShownKeeps DEF PointAtWorkspace, CanFollow
  <1> QED  BY <1>1, <1>2

\* Workspaces that are open are not closed, so activating one leaves all but
\* the active workspace as it was.
LEMMA ActivateKeeps ==
  ASSUME SafeNow, NEW k \in DOMAIN shell.open, ActivateWorkspace(k)
  PROVE  SafeNow'
  <1>1. up /\ Linked(shell, store)
    BY UpIsSound DEF ActivateWorkspace, Handle
  <1>2. shell.closed \ {shell.open[k].id} = shell.closed
    BY <1>1, UpIsSound, OpenIdsParts DEF Linked
  <1>3. [shell EXCEPT !.active = k, !.closed = @ \ {shell.open[k].id}] = [shell EXCEPT !.active = k]
    BY <1>2, UpIsSound DEF IsShell
  <1>4. Handle([shell EXCEPT !.active = k])
    BY <1>3 DEF ActivateWorkspace
  <1> QED  BY <1>4, ActiveFollows, CarriedKeeps

\* OtherRequest, CloseGoneFromUi, ActivateOpen
LEMMA EnsuredActionsKeep ==
  ASSUME SafeNow, OtherRequest \/ CloseGoneFromUi \/ \E root \in Roots : ActivateOpen(root)
  PROVE  SafeNow'
  <1>1. CanFollow(shell)
    BY UpIsSound, CarriesItself, GrowsItself DEF CanFollow, Grows
  <1>2. ASSUME NEW s, CanFollow(s) PROVE CanFollow(EnsurePanes(s))
    <2>1. Carries(s, EnsurePanes(s)) /\ Grows(s, EnsurePanes(s))
      BY <1>2, UpIsSound, EnsurePanesCarries DEF CanFollow, Carries
    <2> QED  BY <1>2, <2>1, FollowsOn
  <1>3. CASE OtherRequest
    BY <1>1, <1>3, CarriedKeeps DEF OtherRequest
  <1>4. CASE CloseGoneFromUi
    BY <1>1, <1>2, <1>4, CarriedKeeps DEF CloseGoneFromUi
  <1>5. ASSUME NEW root \in Roots, ActivateOpen(root) PROVE SafeNow'
    <2> DEFINE a == [shell EXCEPT !.active = OpenAt(root)]
    <2>1. CanFollow(a)
      BY <1>5, UpIsSound, OpenAtIs, ActiveFollows DEF ActivateOpen
    <2>2. Handle(EnsurePanes(a))
      BY <1>5 DEF ActivateOpen
    <2> HIDE DEF a
    <2> QED  BY <1>2, <2>1, <2>2, CarriedKeeps
  <1> QED  BY <1>3, <1>4, <1>5

\* CreateWindow, OpenTerminalWindow, OpenWebWindow
LEMMA WindowActionsKeep ==
  ASSUME SafeNow, NEW k \in DOMAIN shell.open,
         CreateWindow(k) \/ OpenTerminalWindow(k) \/ OpenWebWindow(k)
  PROVE  SafeNow'
  <1> DEFINE p == PushWindow(shell, k)
             w == shell.made.windows + 1
  <1>1. CanFollow(p) /\ Found(p, w) /\ Sound(p)
    BY UpIsSound, PushWindowCarries, PushWindowGrows DEF Carries, CanFollow, Grows
  <1>2. CASE CreateWindow(k)
    BY <1>1, <1>2, CarriedKeeps DEF CreateWindow
  <1>3. CASE OpenTerminalWindow(k)
    <2>1. CanFollow(AddPane(shell, k))
      BY UpIsSound, AddPaneCarries, AddPaneGrows DEF CanFollow, Grows
    <2> QED  BY <1>3, <2>1, CarriedKeeps DEF OpenTerminalWindow
  <1>4. CASE "web" \in Kinds /\ Handle(AddTab(p, w, "web"))
    <2> HIDE DEF p, w
    <2>1. Carries(p, AddTab(p, w, "web")) /\ Grows(p, AddTab(p, w, "web"))
      BY <1>1, <1>4, UpIsSound, AddTabCarries, AddTabGrows
    <2> QED  BY <1>1, <1>4, <2>1, FollowsOn, CarriedKeeps
  <1>5. CASE Handle([shell EXCEPT !.active = k])
    BY <1>5, ActiveFollows, CarriedKeeps
  <1> QED  BY <1>2, <1>3, <1>4, <1>5 DEF OpenWebWindow

\* An open window is found, and its tabs are open.
LEMMA WindowTabsAreOpen ==
  ASSUME SafeNow, NEW w \in OpenWindows(shell)
  PROVE  Found(shell, w) /\ WindowOf(shell, w).tabs \subseteq AllTabs(shell.open)
  <1>1. Found(shell, w)
    BY UpIsSound, OpenIsFound
  <1>2. WindowOf(shell, w).tabs \subseteq AllTabs(shell.open)
    BY <1>1, UpIsSound, TabsAreIn DEF Found, WindowOf
  <1> QED  BY <1>1, <1>2

\* OpenTab, SplitWindow, MoveWindowTab
LEMMA TabActionsKeep ==
  ASSUME SafeNow, NEW w \in OpenWindows(shell),
         \/ OpenTab(w) \/ SplitWindow(w)
         \/ \E t \in WindowOf(shell, w).tabs : \E to \in OpenWindows(shell) : MoveWindowTab(w, t, to)
  PROVE  SafeNow'
  <1>1. Found(shell, w)
    BY WindowTabsAreOpen
  <1>2. ASSUME NEW kind \in Kinds, Handle(AddTab(shell, w, kind)) PROVE SafeNow'
    <2>1. CanFollow(AddTab(shell, w, kind))
      BY <1>1, UpIsSound, AddTabCarries, AddTabGrows DEF CanFollow, Grows
    <2> QED  BY <1>2, <2>1, CarriedKeeps
  <1>3. CASE SplitWindow(w)
    <2>1. CanFollow(Split(shell, w))
      BY <1>1, UpIsSound, SplitCarries DEF CanFollow, Grows
    <2> QED  BY <1>3, <2>1, CarriedKeeps DEF SplitWindow
  <1>4. ASSUME NEW t \in WindowOf(shell, w).tabs, NEW to \in OpenWindows(shell), MoveWindowTab(w, t, to)
        PROVE  SafeNow'
    <2>1. Found(shell, to)
      BY WindowTabsAreOpen
    <2>2. CanFollow(MoveTab(shell, w, t, to))
      BY <1>1, <2>1, UpIsSound, MoveTabCarries DEF CanFollow, Grows
    <2> QED  BY <1>4, <2>2, CarriedKeeps DEF MoveWindowTab
  <1> QED  BY <1>2, <1>3, <1>4 DEF OpenTab

\* What a request closes, and what the UI closes before it ensures the panes.
LEMMA ClosedKeeps ==
  ASSUME SafeNow, up, NEW s, CanFollow(s), NEW tabs \in SUBSET AllTabs(shell.open),
         \/ Handled(s, Deletes(tabs) \o PersistWrites(s))
         \/ Handled(EnsurePanes(s), Deletes(tabs) \o PersistWrites(EnsurePanes(s)))
  PROVE  SafeNow'
  <1>1. CASE Handled(s, Deletes(tabs) \o PersistWrites(s))
    BY <1>1, DeletedKeeps
  <1>2. CASE Handled(EnsurePanes(s), Deletes(tabs) \o PersistWrites(EnsurePanes(s)))
    <2>1. Carries(s, EnsurePanes(s)) /\ Grows(s, EnsurePanes(s))
      BY UpIsSound, EnsurePanesCarries DEF CanFollow, Carries
    <2>2. CanFollow(EnsurePanes(s))
      BY <2>1, FollowsOn
    <2> QED  BY <1>2, <2>2, DeletedKeeps
  <1> QED  BY <1>1, <1>2

\* CloseWindowRequest, CloseLastTabFromUi
LEMMA CloseWindowKeeps ==
  ASSUME SafeNow, NEW w \in OpenWindows(shell), CloseWindowRequest(w) \/ CloseLastTabFromUi(w)
  PROVE  SafeNow'
  <1> DEFINE s == CloseWindow(shell, w)
             tabs == WindowOf(shell, w).tabs
  <1>1. CanFollow(s) /\ tabs \in SUBSET AllTabs(shell.open)
    BY UpIsSound, WindowTabsAreOpen, CloseWindowCarries DEF CanFollow
  <1>2. /\ up
        /\ \/ Handled(s, Deletes(tabs) \o PersistWrites(s))
           \/ Handled(EnsurePanes(s), Deletes(tabs) \o PersistWrites(EnsurePanes(s)))
    BY DEF CloseWindowRequest, CloseLastTabFromUi
  <1> HIDE DEF s, tabs
  <1> QED  BY <1>1, <1>2, ClosedKeeps

\* CloseTabRequest, CloseTabFromUi
LEMMA CloseTabKeeps ==
  ASSUME SafeNow, NEW w \in OpenWindows(shell), NEW t \in WindowOf(shell, w).tabs,
         CloseTabRequest(w, t) \/ CloseTabFromUi(w, t)
  PROVE  SafeNow'
  <1> DEFINE s == CloseTab(shell, w, t)
  <1>1. CanFollow(s) /\ {t} \in SUBSET AllTabs(shell.open)
    BY UpIsSound, WindowTabsAreOpen, CloseTabCarries DEF CanFollow, Grows
  <1>2. /\ up
        /\ \/ Handled(s, Deletes({t}) \o PersistWrites(s))
           \/ Handled(EnsurePanes(s), Deletes({t}) \o PersistWrites(EnsurePanes(s)))
    BY DEF CloseTabRequest, CloseTabFromUi
  <1> HIDE DEF s
  <1> QED  BY <1>1, <1>2, ClosedKeeps
------------------------------------------------------------------------------
(* Opening a workspace. *)

\* Ids of workspaces are numbers.
LEMMA IdsAreNumbers == \A ws \in Workspaces : ws.id \in Nat
  BY DEF Workspaces, WorkspaceIds

\* The folder is open nowhere: so what is stored of it is closed, and what is
\* opened for it is new among what is open.
LEMMA OpensIsReady ==
  ASSUME SafeNow, up, NEW ws, NEW r, Opens(shell, ws, r), ws \in Workspaces,
         shell.made.workspaces <= r.made.workspaces, ws.id <= r.made.workspaces,
         ws.id \notin OpenIds(shell), r.closed = shell.closed \ {ws.id},
         \A k \in DOMAIN shell.open : shell.open[k].root # ws.root,
         torn = 0 => Whole(r)
  PROVE  Ready(r)
  <1> DEFINE new == Append(shell.open, ws)
             last == Len(shell.open) + 1
  <1>1. /\ IsShell(shell) /\ IsStore(store) /\ shell.open \in Seq(Workspaces)
        /\ Linked(shell, store) /\ Ready(shell) /\ Sound(r) /\ IsShell(r)
        /\ r.open \in Seq(Workspaces) /\ SameIds(new, r.open)
    BY UpIsSound, ShellIsReady DEF Opens, SafeNow, Sound, IsShell
  <1>2. /\ new \in Seq(Workspaces) /\ DOMAIN new = DOMAIN shell.open \cup {last}
        /\ last \notin DOMAIN shell.open
        /\ \A k \in DOMAIN shell.open : new[k] = shell.open[k]
        /\ new[last] = ws
    BY <1>1, AppendParts
  <1> HIDE DEF new, last
  <1>3. DOMAIN r.open = DOMAIN new
    <2>1. Len(new) = Len(r.open)
      BY <1>1 DEF SameIds
    <2> QED  BY <1>1, <1>2, <2>1
  <1>4. /\ \A k \in DOMAIN shell.open : /\ r.open[k].id = shell.open[k].id
                                        /\ r.open[k].root = shell.open[k].root
        /\ r.open[last].id = ws.id /\ r.open[last].root = ws.root
    BY <1>1, <1>2 DEF SameIds
  <1>5. DOMAIN r.open = DOMAIN shell.open \cup {last}
    BY <1>2, <1>3
  <1>6. \A k \in DOMAIN shell.open : /\ shell.open[k].id \in OpenIds(shell)
                                     /\ shell.open[k].id # ws.id
                                     /\ shell.open[k] \in Rows(store)
    BY <1>1, OpenIdsParts DEF Linked
  <1>7. OpenIds(r) = OpenIds(shell) \cup {ws.id}
    <2>1. \A id \in OpenIds(r) : id \in OpenIds(shell) \cup {ws.id}
      BY <1>1, <1>4, <1>5, <1>6, OpenIdsParts
    <2>2. \A id \in OpenIds(shell) : id \in OpenIds(r)
      BY <1>1, <1>4, <1>5, OpenIdsParts
    <2>3. ws.id \in OpenIds(r)
      BY <1>1, <1>4, <1>5, OpenIdsParts
    <2> QED  BY <2>1, <2>2, <2>3
  <1>8. Unique(r.open)
    <2>1. Unique(shell.open)
      BY <1>1 DEF Linked
    <2> QED  BY <1>2, <1>4, <1>5, <1>6, <2>1 DEF Unique
  <1>9. /\ \A k \in DOMAIN r.open : r.open[k].id <= r.made.workspaces
        /\ \A c \in r.closed : c <= r.made.workspaces
    <2>1. shell.made.workspaces \in Nat /\ r.made.workspaces \in Nat /\ shell.closed \in SUBSET Nat
      BY <1>1 DEF IsShell
    <2>2. /\ \A k \in DOMAIN shell.open : /\ shell.open[k].id <= shell.made.workspaces
                                          /\ shell.open[k].id \in Nat
          /\ \A c \in shell.closed : c <= shell.made.workspaces
      <3>1. \A k \in DOMAIN shell.open : shell.open[k].id \in Nat
        BY <1>1, OpenParts, IdsAreNumbers
      <3> QED  BY <1>1, <3>1 DEF Ready
    <2>3. \A k \in DOMAIN shell.open : r.open[k].id <= r.made.workspaces
      BY <1>4, <2>1, <2>2
    <2>4. \A c \in r.closed : c <= r.made.workspaces
      BY <2>1, <2>2
    <2> QED  BY <1>4, <1>5, <2>3, <2>4
  <1>10. \A k, l \in DOMAIN r.open : r.open[k].root = r.open[l].root => k = l
    <2>1. \A k, l \in DOMAIN shell.open : shell.open[k].root = shell.open[l].root => k = l
      BY <1>1 DEF Ready
    <2> QED  BY <1>4, <1>5, <2>1
  <1>11. OpenIds(r) \cap r.closed = {} /\ \A row \in Rows(store) : row.id \in OpenIds(r) \cup r.closed
    BY <1>1, <1>7 DEF Linked
  <1>12. ASSUME NEW k \in DOMAIN r.open, NEW row \in Rows(store),
                row.root = r.open[k].root, row.id \notin ClosedIn(store)
         PROVE  row.id = r.open[k].id
    <2>1. row.id \in OpenIds(shell)
      BY <1>1, <1>12 DEF Linked
    <2>2. PICK l \in DOMAIN shell.open : row.id = shell.open[l].id
      BY <1>1, <2>1, OpenIdsParts
    <2>3. row = shell.open[l]
      BY <1>1, <1>6, <2>2, RowsParts
    <2>4. k \in DOMAIN shell.open
      BY <1>4, <1>5, <1>12, <2>3
    <2>5. shell.open[k].root = shell.open[l].root
      BY <1>4, <1>12, <2>3, <2>4
    <2>6. k = l
      BY <1>1, <2>4, <2>5 DEF Ready
    <2> QED  BY <1>4, <2>3, <2>4, <2>6
  <1> QED  BY <1>1, <1>8, <1>9, <1>10, <1>11, <1>12 DEF Ready

\* What is opened and its trees may be written.
LEMMA GraftedIsReady ==
  ASSUME SafeNow, up, NEW ws, NEW r, Opens(shell, ws, r), Grafted(shell, ws, r), ws \in Workspaces,
         FitAt(r, Len(shell.open) + 1),
         store.control # NoControlState /\ ws.id \in ClosedIn(store)
           => FitsIn(StoredLayouts(store)[ws.id], r.open[Len(shell.open) + 1])
  PROVE  TreesReady(r)
  <1> DEFINE new == Append(shell.open, ws)
             n == Len(shell.open) + 1
  <1>1. /\ IsShell(shell) /\ IsStore(store) /\ shell.open \in Seq(Workspaces)
        /\ Linked(shell, store) /\ TreesReady(shell) /\ IsShell(r)
        /\ r.open \in Seq(Workspaces) /\ SameIds(new, r.open)
    BY UpIsSound, ShellTreesReady DEF Opens, SafeNow, Sound, IsShell
  <1>2. /\ new \in Seq(Workspaces) /\ DOMAIN new = DOMAIN shell.open \cup {n}
        /\ n \notin DOMAIN shell.open
        /\ \A k \in DOMAIN shell.open : new[k] = shell.open[k]
        /\ new[n] = ws
    BY <1>1, AppendParts
  <1>0. FitAt(r, n) /\ (store.control # NoControlState /\ ws.id \in ClosedIn(store)
                          => FitsIn(StoredLayouts(store)[ws.id], r.open[n]))
    OBVIOUS
  <1> HIDE DEF new, n
  <1>3. DOMAIN r.open = DOMAIN shell.open \cup {n}
    <2>1. Len(new) = Len(r.open)
      BY <1>1 DEF SameIds
    <2> QED  BY <1>1, <1>2, <2>1
  <1>4. (\A k \in DOMAIN shell.open : r.open[k].id = shell.open[k].id) /\ r.open[n].id = ws.id
    BY <1>1, <1>2 DEF SameIds
  <1>5. \A id \in OpenIds(shell) \cup {ws.id} : id \in OpenIds(r)
    BY <1>1, <1>3, <1>4, OpenIdsParts
  <1>6. \A k \in DOMAIN r.open : FitAt(r, k)
    BY <1>0, <1>1, <1>3 DEF TreesReady, Fitting, Grafted
  <1>7. ASSUME NEW row \in Rows(store), row.id \notin OpenIds(r) PROVE FitsIn(r.layouts[row.id], row)
    <2>1. row.id \in WorkspaceIds /\ row.id \notin OpenIds(shell) \cup {ws.id}
      BY <1>1, <1>5, <1>7, RowIds
    <2> QED  BY <1>1, <2>1 DEF TreesReady, Fitting, Grafted
  <1>8. KeepsClosed(r, store)
    <2>1. \A k \in DOMAIN shell.open : r.open[k].id \notin ClosedIn(store)
      BY <1>1, <1>4, OpenIdsParts DEF Linked
    <2> QED  BY <1>0, <1>3, <1>4, <2>1 DEF KeepsClosed
  <1>9. shell.made.windows <= r.made.windows
    BY DEF Grafted
  <1> QED  BY <1>6, <1>7, <1>8, <1>9 DEF TreesReady, Fitting, Grafted

\* create_workspace of a folder that is not open.
LEMMA CreateNewKeeps ==
  ASSUME SafeNow, NEW root \in Roots, CreateNew(root)
  PROVE  SafeNow'
  <1> DEFINE id == shell.made.workspaces + 1
             ws == [id |-> id, root |-> root, windows |-> <<>>]
             r == NewWorkspace(shell, root)
  <1>1. /\ up /\ OpenAt(root) = 0 /\ shell.made.workspaces < MaxWorkspaces
        /\ Handled(r, PersistWrites(r))
    BY DEF CreateNew, Handle
  <1>2. /\ Sound(shell) /\ IsShell(shell) /\ IsStore(store) /\ Linked(shell, store) /\ Ready(shell)
        /\ shell.made.workspaces \in Nat /\ shell.open \in Seq(Workspaces)
    BY <1>1, UpIsSound, ShellIsReady DEF SafeNow, IsShell
  <1>3. id \in WorkspaceIds /\ id \in Nat /\ shell.made.workspaces <= id
    BY <1>1, <1>2, WorkbenchAssumption DEF WorkspaceIds
  <1>4. ws \in Workspaces /\ ws.id = id /\ ws.root = root
    <2>1. <<>> \in Seq(Windows)
      OBVIOUS
    <2> HIDE DEF id
    <2> QED  BY <1>3, <2>1 DEF Workspaces
  <1>5. /\ Opens(shell, ws, r) /\ r.closed = shell.closed /\ r.made.workspaces = id
        /\ (Whole(shell) => Whole(r))
        /\ Planted(shell) /\ id \notin OpenIds(shell)
             => Grafted(shell, ws, r) /\ FitAt(r, Len(shell.open) + 1)
    BY <1>2, <1>3, NewWorkspaceOpens
  <1> HIDE DEF r, ws
  <1>6. id \notin OpenIds(shell) /\ shell.closed \ {id} = shell.closed
    <2>1. \A k \in DOMAIN shell.open : shell.open[k].id # id
      <3>1. \A k \in DOMAIN shell.open : shell.open[k].id \in Nat
        BY <1>2, OpenParts, IdsAreNumbers
      <3>2. \A k \in DOMAIN shell.open : shell.open[k].id <= shell.made.workspaces
        BY <1>2 DEF Ready
      <3> QED  BY <1>2, <3>1, <3>2
    <2>2. \A c \in shell.closed : c # id
      <3>1. \A c \in shell.closed : c <= shell.made.workspaces /\ c \in Nat
        BY <1>2 DEF Ready, IsShell
      <3> QED  BY <1>2, <3>1
    <2>3. id \notin OpenIds(shell)
      BY <1>2, <2>1, OpenIdsParts
    <2> QED  BY <2>2, <2>3
  <1>7. \A k \in DOMAIN shell.open : shell.open[k].root # ws.root
    BY <1>1, <1>2, <1>4, OpenAtIs
  <1>8. torn = 0 => Whole(r)
    BY <1>2, <1>5 DEF Ready
  <1>9. ws.id <= r.made.workspaces /\ shell.made.workspaces <= r.made.workspaces
    BY <1>3, <1>4, <1>5
  <1>10. ws.id \notin OpenIds(shell) /\ r.closed = shell.closed \ {ws.id}
    BY <1>4, <1>5, <1>6
  <1>11. Ready(r)
    BY <1>1, <1>4, <1>5, <1>7, <1>8, <1>9, <1>10, OpensIsReady
  <1>12. TreesReady(r)
    <2>1. Planted(shell)
      BY <1>1, ShellTreesReady DEF SafeNow, TreesReady, Fitting
    <2>2. Grafted(shell, ws, r) /\ FitAt(r, Len(shell.open) + 1)
      BY <1>5, <1>6, <2>1
    <2>3. ws.id \notin ClosedIn(store)
      <3>1. id \notin shell.closed
        BY <1>6
      <3> QED  BY <1>2, <1>4, <3>1 DEF Linked
    <2> QED  BY <1>1, <1>4, <1>5, <2>2, <2>3, GraftedIsReady
  <1> QED  BY <1>1, <1>11, <1>12, PersistedKeeps

\* A stored workspace comes back with the sessions that are stored for it.
LEMMA ReopenKeeps ==
  ASSUME SafeNow, NEW root \in Roots, ReopenStored(root)
  PROVE  SafeNow'
  <1>1. /\ up /\ OpenAt(root) = 0 /\ StoredFor(shell, store, root) # 0
    BY DEF ReopenStored, Handle
  <1>2. PICK works \in BOOLEAN : Handle(Reopened(shell, store, root, works))
    BY DEF ReopenStored
  <1> DEFINE n == StoredFor(shell, store, root)
             ws == store.workspaces[n]
             open == Append(shell.open, ws)
             terminals == shell.terminals \cup (store.sessions \cap SessionsIn(TabsOf(ws), "terminal"))
             a == [shell EXCEPT !.closed = @ \ {ws.id},
                                !.open = open,
                                !.active = Len(shell.open) + 1,
                                !.terminals = terminals]
             b == EnsureBrowsers(a, works)
             c == EnsurePanes(b)
  <1>3. /\ Sound(shell) /\ IsShell(shell) /\ IsStore(store) /\ Linked(shell, store) /\ Ready(shell)
        /\ shell.made.workspaces \in Nat /\ shell.open \in Seq(Workspaces)
        /\ torn = 0 => RowsWhole(store)
        /\ IdsGiven(shell, store)
    BY <1>1, UpIsSound, ShellIsReady DEF SafeNow, IsShell, Safe
  <1>4. n \in DOMAIN store.workspaces /\ ws.root = root /\ ws.id \notin OpenIds(shell)
    BY <1>1, <1>3, StoredForIs
  <1>5. ws \in Rows(store) /\ ws \in Workspaces /\ TabsOf(ws) \subseteq AllTabs(store.workspaces)
    BY <1>3, <1>4, RowsParts
  <1>6. c = Reopened(shell, store, root, works)
    BY DEF Reopened
  <1> HIDE DEF ws, n
  <1>7. open \in Seq(Workspaces) /\ terminals \in SUBSET (Nat \ {0}) /\ Len(shell.open) + 1 \in Nat
        /\ shell.closed \ {ws.id} \in SUBSET Nat
    BY <1>3, <1>5, AppendParts DEF IsStore, IsShell
  <1>8. SameIds(open, open)
    BY DEF SameIds
  <1> HIDE DEF open, terminals
  <1>9. /\ IsShell(a) /\ a.open = open /\ a.closed = shell.closed \ {ws.id} /\ a.made = shell.made
        /\ a.terminals = terminals /\ a.browsers = shell.browsers
        /\ a.layouts = shell.layouts /\ a.nextSplit = shell.nextSplit
        /\ a.active = Len(shell.open) + 1
    <2> DEFINE closed == shell.closed \ {ws.id}
               last == Len(shell.open) + 1
    <2>0. a = [shell EXCEPT !.closed = closed, !.open = open, !.active = last,
                            !.terminals = terminals]
      OBVIOUS
    <2> HIDE DEF a, closed, last
    <2>1. a = ShellOf(open, last, closed, terminals,
                      shell.browsers, shell.layouts, shell.nextSplit, shell.made)
      BY <1>3, <2>0 DEF IsShell, ShellOf
    <2> USE DEF closed, last
    <2>2. shell.browsers \in SUBSET (Nat \ {0}) /\ shell.made \in [workspaces: Nat, windows: Nat]
      BY <1>3 DEF IsShell
    <2> HIDE DEF a
    <2> QED  BY <1>7, <2>1, <2>2, ShellOfParts
  <1> HIDE DEF a, b, c
  <1>10. Sound(a) /\ (Whole(shell) /\ Fits(shell, ws) => Whole(a))
    BY <1>3, <1>5, <1>9, AppendOpens DEF open, terminals
  <1>11. torn = 0 => Whole(a)
    <2>1. torn = 0 => Whole(shell) /\ Apart(shell) /\ RowsWhole(store)
      BY <1>3 DEF Ready, Whole
    <2>2. torn = 0 => Fits(shell, ws)
      BY <1>3, <1>4, <1>5, <2>1, StoredFits
    <2> QED  BY <1>10, <2>1, <2>2
  <1>o. Opens(shell, ws, a)
    BY <1>8, <1>9, <1>10 DEF Opens, open
  <1>12. Ready(a)
    <2>1. shell.made.workspaces <= a.made.workspaces /\ ws.id <= a.made.workspaces
      BY <1>3, <1>5, <1>9 DEF IdsGiven
    <2>2. \A k \in DOMAIN shell.open : shell.open[k].root # ws.root
      BY <1>1, <1>3, <1>4, OpenAtIs
    <2> QED  BY <1>1, <1>4, <1>5, <1>9, <1>11, <1>o, <2>1, <2>2, OpensIsReady
  <1>13. TreesReady(a)
    <2>1. Planted(shell) /\ FitsIn(shell.layouts[ws.id], ws)
      BY <1>1, <1>4, <1>5, ShellTreesReady DEF SafeNow, TreesReady, Fitting
    <2>2. \A w \in WindowIds(ws) : w <= shell.made.windows
      BY <1>5 DEF SafeNow, Grounded, WindowsGiven
    <2>3. Grafted(shell, ws, a) /\ FitAt(a, Len(shell.open) + 1)
      BY <1>3, <1>4, <1>5, <1>9, <2>1, <2>2, AppendGrafts DEF open
    <2>4. a.open[Len(shell.open) + 1] = ws
      BY <1>3, <1>5, <1>9, AppendParts DEF open
    <2>5. store.control # NoControlState /\ ws.id \in ClosedIn(store)
            => FitsIn(StoredLayouts(store)[ws.id], a.open[Len(shell.open) + 1])
      BY <1>5, <2>4 DEF SafeNow, Grounded, StoredTrees
    <2> QED  BY <1>1, <1>5, <1>o, <2>3, <2>5, GraftedIsReady
  <1>14. Ready(b) /\ TreesReady(b)
    <2>1. Carries(a, b) /\ Grows(a, b)
      BY <1>10, EnsureBrowsersCarries DEF b
    <2> QED  BY <1>3, <1>12, <1>13, <2>1, ReadyGrows
  <1>15. Ready(c) /\ TreesReady(c)
    <2>1. Carries(b, c) /\ Grows(b, c)
      BY <1>3, <1>14, EnsurePanesCarries DEF c, Ready
    <2> QED  BY <1>3, <1>14, <2>1, ReadyGrows
  <1> QED  BY <1>2, <1>6, <1>15, PersistedKeeps DEF Handle
------------------------------------------------------------------------------
(* Closing a workspace. *)

\* Where the elements of rest are in open: everywhere but at k.
Skips(open, k, rest, at) ==
  /\ at \in [DOMAIN rest -> DOMAIN open \ {k}]
  /\ \A j \in DOMAIN rest : rest[j] = open[at[j]]
  /\ \A i, j \in DOMAIN rest : at[i] = at[j] => i = j
  /\ \A i \in DOMAIN open \ {k} : \E j \in DOMAIN rest : at[j] = i

\* A workspace removed: the others, in their order,
LEMMA RemovedParts ==
  ASSUME NEW open \in Seq(Workspaces), NEW k \in DOMAIN open, NEW rest, rest = RemoveAt(open, k)
  PROVE  /\ rest \in Seq(Workspaces) /\ Len(rest) \in Nat
         /\ \E at : Skips(open, k, rest, at)
  <1> DEFINE len == Len(open)
             at == [j \in 1 .. len - 1 |-> IF j < k THEN j ELSE j + 1]
  <1>1. len \in Nat /\ DOMAIN open = 1 .. len /\ k \in 1 .. len
    OBVIOUS
  <1>2. /\ rest \in Seq(Workspaces) /\ Len(rest) = len - 1
        /\ \A j \in 1 .. len - 1 : rest[j] = IF j < k THEN open[j] ELSE open[j + 1]
    BY <1>1, RemoveAtParts
  <1> HIDE DEF len
  <1>3. DOMAIN rest = 1 .. len - 1 /\ Len(rest) \in Nat
    BY <1>2
  <1>4. at \in [1 .. len - 1 -> (1 .. len) \ {k}]
    BY <1>1
  <1>5. \A j \in 1 .. len - 1 : rest[j] = open[at[j]]
    BY <1>2
  <1>6. \A i, j \in 1 .. len - 1 : at[i] = at[j] => i = j
    BY <1>1
  <1>7. ASSUME NEW i \in (1 .. len) \ {k} PROVE \E j \in 1 .. len - 1 : at[j] = i
    <2>1. CASE i < k
      <3>1. i \in 1 .. len - 1 /\ at[i] = i
        BY <1>1, <2>1
      <3> QED  BY <3>1
    <2>2. CASE i > k
      <3>1. i - 1 \in 1 .. len - 1 /\ at[i - 1] = i
        BY <1>1, <2>2
      <3> QED  BY <3>1
    <2> QED  BY <1>1, <2>1, <2>2
  <1> HIDE DEF at
  <1>8. Skips(open, k, rest, at)
    BY <1>1, <1>3, <1>4, <1>5, <1>6, <1>7 DEF Skips
  <1> QED  BY <1>2, <1>3, <1>8

\* and the tabs that go with it.
LEMMA RemovedTabs ==
  ASSUME NEW open \in Seq(Workspaces), NEW k \in DOMAIN open, NEW rest, rest = RemoveAt(open, k)
  PROVE  /\ AllTabs(rest) \subseteq AllTabs(open)
         /\ AllTabs(open) \subseteq AllTabs(rest) \cup TabsOf(open[k])
         /\ Disjoint(open) => AllTabs(rest) \cap TabsOf(open[k]) = {} /\ Disjoint(rest)
  <1>0. PICK at : Skips(open, k, rest, at)
    BY RemovedParts
  <1>1. /\ at \in [DOMAIN rest -> DOMAIN open \ {k}]
        /\ \A j \in DOMAIN rest : rest[j] = open[at[j]]
        /\ \A i, j \in DOMAIN rest : at[i] = at[j] => i = j
        /\ \A i \in DOMAIN open \ {k} : \E j \in DOMAIN rest : at[j] = i
    BY <1>0 DEF Skips
  <1>2. ASSUME NEW t \in AllTabs(rest) PROVE t \in AllTabs(open)
    <2>1. PICK j \in DOMAIN rest : t \in TabsOf(rest[j])
      BY DEF AllTabs
    <2>2. at[j] \in DOMAIN open /\ t \in TabsOf(open[at[j]])
      BY <1>1, <2>1
    <2> QED  BY <2>2 DEF AllTabs
  <1>3. ASSUME NEW t \in AllTabs(open) PROVE t \in AllTabs(rest) \cup TabsOf(open[k])
    <2>1. PICK i \in DOMAIN open : t \in TabsOf(open[i])
      BY DEF AllTabs
    <2>2. CASE i # k
      <3>1. PICK j \in DOMAIN rest : at[j] = i
        BY <1>1, <2>2
      <3>2. t \in TabsOf(rest[j])
        BY <1>1, <2>1, <3>1
      <3> QED  BY <3>2 DEF AllTabs
    <2> QED  BY <2>1, <2>2
  <1>4. ASSUME Disjoint(open), NEW t, t \in AllTabs(rest), t \in TabsOf(open[k]) PROVE FALSE
    <2>1. PICK j \in DOMAIN rest : t \in TabsOf(rest[j])
      BY <1>4 DEF AllTabs
    <2>2. at[j] \in DOMAIN open /\ at[j] # k /\ t \in TabsOf(open[at[j]])
      BY <1>1, <2>1
    <2>3. PICK a \in DOMAIN open[k].windows : t \in open[k].windows[a].tabs
      BY <1>4 DEF TabsOf
    <2>4. PICK b \in DOMAIN open[at[j]].windows : t \in open[at[j]].windows[b].tabs
      BY <2>2 DEF TabsOf
    <2> QED  BY <1>4, <2>2, <2>3, <2>4 DEF Disjoint
  <1>5. ASSUME Disjoint(open) PROVE Disjoint(rest)
    <2>1. ASSUME NEW i \in DOMAIN rest, NEW j \in DOMAIN rest, NEW a \in DOMAIN rest[i].windows,
                 NEW b \in DOMAIN rest[j].windows, NEW t,
                 t \in rest[i].windows[a].tabs, t \in rest[j].windows[b].tabs
          PROVE  i = j /\ a = b
      <3>1. /\ at[i] \in DOMAIN open /\ at[j] \in DOMAIN open
            /\ rest[i] = open[at[i]] /\ rest[j] = open[at[j]]
        BY <1>1
      <3>2. at[i] = at[j] /\ a = b
        BY <1>5, <2>1, <3>1 DEF Disjoint
      <3> QED  BY <1>1, <3>2
    <2> QED  BY <2>1 DEF Disjoint
  <1> QED  BY <1>2, <1>3, <1>4, <1>5

\* What closing a workspace leaves, before the panes that are left are ensured.
Closed(s, k) ==
  [StopSessions(s, TabsOf(s.open[k])) EXCEPT
     !.open = RemoveAt(s.open, k),
     !.closed = @ \cup {s.open[k].id},
     !.active = ActiveAfterClose(s.active, k, Len(RemoveAt(s.open, k)))]

\* What is closed, field by field.
LEMMA ClosedEffect ==
  ASSUME NEW s, Sound(s), NEW k \in DOMAIN s.open, NEW c, c = Closed(s, k)
  PROVE  /\ IsShell(c) /\ c.open = RemoveAt(s.open, k) /\ c.closed = s.closed \cup {s.open[k].id}
         /\ c.made = s.made /\ c.layouts = s.layouts /\ c.nextSplit = s.nextSplit
         /\ c.active = ActiveAfterClose(s.active, k, Len(c.open))
         /\ Drops(s, c, TabsOf(s.open[k]))
  <1> DEFINE ws == s.open[k]
             rest == RemoveAt(s.open, k)
             active == ActiveAfterClose(s.active, k, Len(rest))
             closed == s.closed \cup {ws.id}
             p == StopSessions(s, TabsOf(ws))
  <1>1. /\ IsShell(s) /\ s.open \in Seq(Workspaces) /\ s.active \in Nat /\ s.closed \in SUBSET Nat
        /\ k \in Nat
    BY DEF Sound, IsShell
  <1>2. ws \in Workspaces /\ ws.id \in Nat /\ rest \in Seq(Workspaces) /\ Len(rest) \in Nat
    BY <1>1, OpenParts, RemovedParts, IdsAreNumbers
  <1>3. /\ IsShell(p) /\ p.open = s.open /\ p.closed = s.closed /\ p.made = s.made
        /\ p.layouts = s.layouts /\ p.nextSplit = s.nextSplit
        /\ p.terminals = s.terminals \ SessionsIn(TabsOf(ws), "terminal")
        /\ p.browsers = s.browsers \ SessionsIn(TabsOf(ws), "web")
    BY <1>1, StopSessionsEffect
  <1>4. /\ AllTabs(rest) \subseteq AllTabs(s.open)
        /\ AllTabs(s.open) \subseteq AllTabs(rest) \cup TabsOf(ws)
        /\ Disjoint(s.open) => AllTabs(rest) \cap TabsOf(ws) = {} /\ Disjoint(rest)
    BY <1>1, RemovedTabs
  <1> HIDE DEF rest, ws
  <1>5. active \in Nat
    BY <1>1, <1>2 DEF ActiveAfterClose
  <1>6. closed \in SUBSET Nat
    BY <1>1, <1>2
  <1>7. c = [p EXCEPT !.open = rest, !.closed = closed, !.active = active]
    BY <1>3 DEF Closed, rest, ws
  <1> HIDE DEF active, closed, p
  <1>8. c = ShellOf(rest, active, closed, p.terminals, p.browsers, p.layouts, p.nextSplit, p.made)
    BY <1>3, <1>7 DEF IsShell, ShellOf
  <1>9. /\ p.terminals \in SUBSET (Nat \ {0}) /\ p.browsers \in SUBSET (Nat \ {0})
        /\ p.made \in [workspaces: Nat, windows: Nat]
    BY <1>3 DEF IsShell
  <1>10. /\ IsShell(c) /\ c.open = rest /\ c.closed = closed /\ c.made = p.made
         /\ c.terminals = p.terminals /\ c.browsers = p.browsers
         /\ c.active = active /\ c.layouts = p.layouts /\ c.nextSplit = p.nextSplit
    BY <1>2, <1>5, <1>6, <1>8, <1>9, ShellOfParts
  <1>11. Drops(s, c, TabsOf(ws))
    BY <1>3, <1>4, <1>10 DEF Drops
  <1> QED  BY <1>3, <1>10, <1>11 DEF rest, active, closed, ws

\* The closed workspace stays stored, whole, and apart from what is open.
LEMMA ClosedIsReady ==
  ASSUME SafeNow, up, NEW s, Ready(s), s.open = shell.open, NEW k \in DOMAIN s.open,
         NEW c, c = Closed(s, k)
  PROVE  Ready(c) /\ OpenIds(c) = OpenIds(s) \ {s.open[k].id}
  <1> DEFINE ws == s.open[k]
  <1>1. /\ Sound(s) /\ IsShell(s) /\ IsStore(store) /\ Linked(shell, store)
        /\ s.open \in Seq(Workspaces)
    BY UpIsSound DEF Ready, Sound, IsShell
  <1>2. /\ IsShell(c) /\ c.open = RemoveAt(s.open, k) /\ c.closed = s.closed \cup {ws.id}
        /\ c.made = s.made /\ Drops(s, c, TabsOf(ws)) /\ c.open \in Seq(Workspaces)
    BY <1>1, ClosedEffect DEF IsShell
  <1>3. PICK at : Skips(s.open, k, c.open, at)
    BY <1>1, <1>2, RemovedParts
  <1>4. /\ at \in [DOMAIN c.open -> DOMAIN s.open \ {k}]
        /\ \A j \in DOMAIN c.open : at[j] \in DOMAIN s.open /\ at[j] # k /\ c.open[j] = s.open[at[j]]
        /\ \A i, j \in DOMAIN c.open : at[i] = at[j] => i = j
        /\ \A i \in DOMAIN s.open \ {k} : \E j \in DOMAIN c.open : at[j] = i
    BY <1>3 DEF Skips
  <1>5. ws \in Rows(store) /\ ws \in Workspaces /\ ws.id \in OpenIds(s) /\ TabsOf(ws) \in SUBSET Tabs
    <2>1. ws \in Workspaces
      BY <1>1, OpenParts
    <2>2. ws \in Rows(store) /\ ws.id \in OpenIds(s)
      BY <1>1, OpenIdsParts DEF Linked
    <2> QED  BY <2>1, <2>2, TabsOfParts
  <1> HIDE DEF ws
  <1>6. /\ Sound(c)
        /\ AllRun(s) /\ Disjoint(s.open) => AllRun(c) /\ Disjoint(c.open)
    BY <1>1, <1>2, <1>5, DropsKeeps
  <1>7. Unique(s.open) /\ Unique(c.open)
    <2>1. Unique(s.open)
      BY DEF Ready
    <2> QED  BY <1>4, <2>1 DEF Unique
  <1>8. OpenIds(c) = OpenIds(s) \ {ws.id}
    <2>1. ASSUME NEW id \in OpenIds(c) PROVE id \in OpenIds(s) /\ id # ws.id
      <3>1. PICK j \in DOMAIN c.open : id = c.open[j].id
        BY <1>2, <2>1, OpenIdsParts
      <3>2. at[j] \in DOMAIN s.open /\ at[j] # k /\ id = s.open[at[j]].id
        BY <1>4, <3>1
      <3> QED  BY <1>1, <1>7, <3>2, OpenIdsParts DEF Unique, ws
    <2>2. ASSUME NEW id \in OpenIds(s), id # ws.id PROVE id \in OpenIds(c)
      <3>1. PICK i \in DOMAIN s.open : id = s.open[i].id
        BY <1>1, <2>2, OpenIdsParts
      <3>2. i # k
        BY <2>2, <3>1 DEF ws
      <3>3. PICK j \in DOMAIN c.open : at[j] = i
        BY <1>4, <3>2
      <3>4. id = c.open[j].id
        BY <1>4, <3>1, <3>3
      <3> QED  BY <1>2, <3>4, OpenIdsParts
    <2> QED  BY <2>1, <2>2
  <1>9. /\ \A j \in DOMAIN c.open : c.open[j].id <= c.made.workspaces
        /\ \A x \in c.closed : x <= c.made.workspaces
        /\ shell.made.workspaces <= c.made.workspaces
    <2>1. /\ \A i \in DOMAIN s.open : s.open[i].id <= s.made.workspaces
          /\ \A x \in s.closed : x <= s.made.workspaces
          /\ shell.made.workspaces <= s.made.workspaces
      BY DEF Ready
    <2>2. ws.id <= s.made.workspaces
      BY <2>1 DEF ws
    <2> QED  BY <1>2, <1>4, <2>1, <2>2
  <1>10. \A i, j \in DOMAIN c.open : c.open[i].root = c.open[j].root => i = j
    <2>1. \A i, j \in DOMAIN s.open : s.open[i].root = s.open[j].root => i = j
      BY DEF Ready
    <2> QED  BY <1>4, <2>1
  <1>11. /\ OpenIds(c) \cap c.closed = {}
         /\ \A row \in Rows(store) : row.id \in OpenIds(c) \cup c.closed
    <2>1. /\ OpenIds(s) \cap s.closed = {}
          /\ \A row \in Rows(store) : row.id \in OpenIds(s) \cup s.closed
      BY DEF Ready
    <2> QED  BY <1>2, <1>8, <2>1
  <1>12. ASSUME NEW j \in DOMAIN c.open, NEW row \in Rows(store), row.root = c.open[j].root,
                row.id \notin ClosedIn(store), c.open[j].id \notin ClosedIn(store)
         PROVE  row.id = c.open[j].id
    <2>1. at[j] \in DOMAIN s.open /\ c.open[j] = s.open[at[j]]
      BY <1>4
    <2> QED  BY <1>12, <2>1 DEF Ready
  <1>13. ASSUME torn = 0 PROVE Whole(c)
    <2>1. Whole(s) /\ AllRun(s) /\ Disjoint(s.open) /\ Apart(s)
      BY <1>13 DEF Ready, Whole
    <2>2. AllTabs(c.open) \cap TabsOf(ws) = {} /\ AllTabs(c.open) \subseteq AllTabs(s.open)
      BY <1>2, <2>1 DEF Drops
    <2>3. ASSUME NEW x \in DOMAIN store.workspaces, store.workspaces[x].id \notin OpenIds(c)
          PROVE  TabsOf(store.workspaces[x]) \cap AllTabs(c.open) = {}
      <3>1. CASE store.workspaces[x].id \notin OpenIds(s)
        BY <2>1, <2>2, <3>1 DEF Apart
      <3>2. CASE store.workspaces[x].id = ws.id
        <4>1. store.workspaces[x] = ws
          BY <1>1, <1>5, <3>2, RowsParts
        <4> QED  BY <2>2, <4>1
      <3> QED  BY <1>8, <2>3, <3>1, <3>2
    <2> QED  BY <1>6, <2>1, <2>3 DEF Whole, Apart
  <1>14. Ready(c)
    BY <1>6, <1>7, <1>9, <1>10, <1>11, <1>12, <1>13 DEF Ready
  <1> QED  BY <1>8, <1>14 DEF ws

\* Its tree, kept beside those of what is open, still fits it.
LEMMA ClosedTreesReady ==
  ASSUME SafeNow, up, NEW s, Ready(s), TreesReady(s), s.open = shell.open, NEW k \in DOMAIN s.open,
         NEW c, c = Closed(s, k)
  PROVE  TreesReady(c)
  <1> DEFINE ws == s.open[k]
  <1>1. /\ Sound(s) /\ IsShell(s) /\ IsStore(store) /\ Linked(shell, store)
        /\ s.open \in Seq(Workspaces) /\ s.active \in Nat
    BY UpIsSound DEF Ready, Sound, IsShell
  <1>2. /\ c.open = RemoveAt(s.open, k) /\ c.made = s.made
        /\ c.layouts = s.layouts /\ c.nextSplit = s.nextSplit
        /\ c.active = ActiveAfterClose(s.active, k, Len(c.open))
    BY <1>1, ClosedEffect
  <1>3. PICK at : Skips(s.open, k, c.open, at)
    BY <1>1, <1>2, RemovedParts
  <1>4. \A j \in DOMAIN c.open : at[j] \in DOMAIN s.open /\ c.open[j] = s.open[at[j]]
    BY <1>3 DEF Skips
  <1>5. Ready(c) /\ OpenIds(c) = OpenIds(s) \ {ws.id}
    BY ClosedIsReady
  <1>6. ws \in Rows(store) /\ ws.id \in OpenIds(s) /\ FitsIn(s.layouts[ws.id], ws)
    BY <1>1, OpenIdsParts DEF Linked, TreesReady, Fitting, FitAt
  <1> HIDE DEF ws
  <1>7. c.active = 1 \/ c.active \in DOMAIN c.open
    <2> DEFINE n == Len(c.open)
    <2>1. n \in Nat /\ Len(s.open) = n + 1 /\ DOMAIN s.open = 1 .. n + 1 /\ DOMAIN c.open = 1 .. n
          /\ k \in 1 .. n + 1
      <3>1. k \in 1 .. Len(s.open) /\ Len(s.open) \in Nat /\ DOMAIN s.open = 1 .. Len(s.open)
        BY <1>1
      <3>2. c.open \in Seq(Workspaces) /\ Len(c.open) = Len(s.open) - 1
        BY <1>1, <1>2, <3>1, RemoveAtParts
      <3> QED  BY <3>1, <3>2
    <2>2. s.active \in 1 .. n + 1
      BY <1>1, <2>1 DEF TreesReady, Fitting, Planted
    <2>3. c.active = ActiveAfterClose(s.active, k, n)
      BY <1>2
    <2> HIDE DEF n
    <2>4. CASE n = 0
      <3>1. k = 1 /\ s.active = 1 /\ ~(s.active > k)
        BY <2>1, <2>2, <2>4
      <3> QED  BY <2>3, <2>4, <3>1 DEF ActiveAfterClose
    <2>5. CASE n # 0 /\ s.active > k
      BY <2>1, <2>2, <2>3, <2>5 DEF ActiveAfterClose
    <2>6. CASE n # 0 /\ ~(s.active > k)
      BY <2>1, <2>2, <2>3, <2>6 DEF ActiveAfterClose
    <2> QED  BY <2>4, <2>5, <2>6
  <1>8. Planted(c)
    <2>1. \A j \in DOMAIN c.open : \A w \in WindowIds(c.open[j]) : w <= c.made.windows
      BY <1>2, <1>4 DEF TreesReady, Fitting, Planted
    <2>2. Trees(c.layouts, c.nextSplit)
      BY <1>2 DEF TreesReady, Fitting, Planted
    <2> QED  BY <1>5, <1>7, <2>1, <2>2 DEF Planted, Ready
  <1>9. \A j \in DOMAIN c.open : FitAt(c, j)
    BY <1>2, <1>4 DEF TreesReady, Fitting, FitAt
  <1>10. ASSUME NEW row \in Rows(store), row.id \notin OpenIds(c) PROVE FitsIn(c.layouts[row.id], row)
    <2>1. CASE row.id \notin OpenIds(s)
      BY <1>2, <2>1 DEF TreesReady, Fitting
    <2>2. CASE row.id = ws.id
      <3>1. row = ws
        BY <1>1, <1>6, <2>2, RowsParts
      <3> QED  BY <1>2, <1>6, <3>1
    <2> QED  BY <1>5, <1>10, <2>1, <2>2
  <1>11. KeepsClosed(c, store) /\ shell.made.windows <= c.made.windows
    BY <1>2, <1>4 DEF TreesReady, KeepsClosed
  <1> QED  BY <1>8, <1>9, <1>10, <1>11 DEF TreesReady, Fitting

\* What is written before a workspace is removed changes no row: all that is open
\* is stored as it is.
LEMMA PersistTwice ==
  ASSUME SafeNow, up, NEW b, Ready(b), TreesReady(b), Leaves(shell, b),
         NEW s, Ready(s), OpenIds(s) \subseteq OpenIds(b)
  PROVE  LET W == PersistWrites(b) \o PersistWrites(s)
         IN  /\ Done(s, Written(store, W)[Len(W)])
             /\ \A d : Remains(store, W, d) => Left(s, d) /\ StoredTrees(d)
  <1> DEFINE A == PersistWrites(b)
             B == PersistWrites(s)
             W == A \o B
             S == RowWrites \cup {SessionsWrite(b), ControlWrite(b), SessionsWrite(s), ControlWrite(s)}
             d1 == Written(store, A)[Len(A)]
             d == Written(d1, B)[Len(B)]
  <1>1. /\ IsShell(s) /\ Unique(s.open) /\ IsShell(b) /\ Unique(b.open) /\ IsStore(store)
        /\ Linked(shell, store)
    BY UpIsSound DEF Ready, Sound
  <1>2. b.open = shell.open /\ b.closed = shell.closed /\ b.terminals = shell.terminals
    BY DEF Leaves
  <1>3. A \in Seq(S) /\ Len(A) \in Nat /\ B \in Seq(S) /\ Len(B) \in Nat
    <2>1. /\ A \in Seq(RowWrites \cup {SessionsWrite(b), ControlWrite(b)}) /\ Len(A) \in Nat
          /\ B \in Seq(RowWrites \cup {SessionsWrite(s), ControlWrite(s)}) /\ Len(B) \in Nat
      BY <1>1, PersistWritesParts
    <2>2. /\ RowWrites \cup {SessionsWrite(b), ControlWrite(b)} \subseteq S
          /\ RowWrites \cup {SessionsWrite(s), ControlWrite(s)} \subseteq S
      OBVIOUS
    <2> HIDE DEF S, A, B
    <2> QED  BY <2>1, <2>2, SeqMonotonic
  <1> HIDE DEF S, A, B
  <1>4. Persisted(store, b, d1)
    BY <1>1, PersistDone DEF A
  <1>t. StoredTrees(d1)
    <2>1. Done(b, Written(store, A)[Len(A)])
      BY PersistKeeps DEF A, SafeNow, Grounded, TreesReady
    <2> QED  BY <2>1, DoneGrounds DEF SafeNow, Grounded
  <1> HIDE DEF d1
  <1>5. /\ IsStore(d1) /\ Rows(d1) = Rows(store)
        /\ d1.sessions = store.sessions \cup shell.terminals
        /\ ClosedIn(d1) = ClosedIn(store) /\ ClosedIn(d1) = b.closed
    <2>1. ToSet(b.open) \subseteq Rows(store)
      BY <1>1, <1>2 DEF Linked
    <2>2. Rows(d1) = {r \in Rows(store) : r.id \notin OpenIds(b)} \cup ToSet(b.open)
      BY <1>4 DEF Persisted
    <2>3. ASSUME NEW r \in Rows(store), r.id \in OpenIds(b) PROVE r \in ToSet(b.open)
      <3>1. b.open \in Seq(Workspaces)
        BY <1>1 DEF IsShell
      <3>2. PICK k \in DOMAIN b.open : r.id = b.open[k].id
        BY <2>3, <3>1, OpenIdsParts
      <3>3. b.open[k] \in ToSet(b.open)
        BY <3>1, OpenIdsParts
      <3>4. r = b.open[k]
        BY <1>1, <2>1, <3>2, <3>3, RowsParts
      <3> QED  BY <3>3, <3>4
    <2>4. Rows(d1) = Rows(store)
      BY <2>1, <2>2, <2>3
    <2>5. d1.control = <<ControlState(b)>>
      BY <1>4 DEF Persisted
    <2>6. ClosedIn(d1) = b.closed
      BY <2>5 DEF ClosedIn, ControlState, NoControlState
    <2>7. ClosedIn(store) = shell.closed
      BY <1>1 DEF Linked
    <2> QED  BY <1>2, <1>4, <2>4, <2>6, <2>7 DEF Persisted
  <1>6. Written(store, W)[Len(W)] = d
    <2>1. Len(B) \in 0 .. Len(B)
      BY <1>3
    <2>2. \A n \in 0 .. Len(B) :
            Written(store, A \o B)[Len(A) + n] = Written(Written(store, A)[Len(A)], B)[n]
      BY <1>3, WrittenJoined
    <2>3. Len(A \o B) = Len(A) + Len(B)
      BY <1>3, ConcatProperties
    <2> QED  BY <2>1, <2>2, <2>3 DEF d1
  <1>7. Persisted(d1, s, d)
    BY <1>1, <1>5, PersistDone DEF B
  <1> HIDE DEF d
  <1>8. torn = 0 => \A r \in Rows(store) : SessionsIn(TabsOf(r), "terminal") \subseteq store.sessions
    BY DEF SafeNow, Safe, RowsWhole
  <1>9. Done(s, d)
    BY <1>5, <1>7, <1>8 DEF Persisted, Done
  <1>10. ASSUME NEW e, Remains(store, W, e) PROVE Left(s, e) /\ StoredTrees(e)
    <2>1. Remains(store, A, e) \/ Remains(d1, B, e)
      BY <1>3, <1>10, RemainsJoined DEF d1
    <2>2. CASE Remains(store, A, e)
      <3>1. Partly(store, b, e)
        BY <1>1, <2>2, PersistTorn DEF A
      <3>2. ToSet(b.open) \subseteq Rows(store)
        BY <1>1, <1>2 DEF Linked
      <3>3. StoredTrees(e)
        <4>1. StoredTrees(store) /\ KeepsClosed(b, store) /\ b.open \in Seq(Workspaces)
          BY <1>1 DEF SafeNow, Grounded, TreesReady, IsShell
        <4> QED  BY <3>1, <4>1, PartlyFits
      <3> QED  BY <1>2, <3>1, <3>2, <3>3 DEF Partly, Left, ClosedIn
    <2>3. CASE Remains(d1, B, e)
      <3>1. Partly(d1, s, e)
        BY <1>1, <1>5, <2>3, PersistTorn DEF B
      <3>2. ClosedIn(e) = ClosedIn(d1)
        BY <3>1 DEF Partly, ClosedIn
      <3>3. StoredTrees(e)
        <4>1. s.open \in Seq(Workspaces)
          BY <1>1 DEF IsShell
        <4>2. \A k \in DOMAIN s.open : s.open[k].id \notin ClosedIn(d1)
          BY <1>5, <4>1, OpenIdsParts DEF Ready
        <4>3. KeepsClosed(s, d1)
          BY <4>2 DEF KeepsClosed
        <4> QED  BY <1>t, <3>1, <4>1, <4>3, PartlyFits
      <3> QED  BY <1>5, <3>1, <3>2, <3>3 DEF Partly, Left
    <2> QED  BY <2>1, <2>2, <2>3
  <1> QED  BY <1>6, <1>9, <1>10 DEF A, B

\* close_workspace_from_ui
LEMMA CloseWorkspaceKeeps ==
  ASSUME SafeNow, NEW k \in DOMAIN shell.open, CloseWorkspaceFromUi(k)
  PROVE  SafeNow'
  <1> DEFINE b == Reconcile(shell, k)
             s == CloseWorkspace(b, k)
             W == PersistWrites(b) \o PersistWrites(s)
             c == Closed(b, k)
             e == EnsurePanes(c)
  <1>1. up /\ Handled(s, W)
    BY DEF CloseWorkspaceFromUi
  <1>2. Leaves(shell, b) /\ b.open = shell.open /\ Ready(b) /\ TreesReady(b)
    <2>1. Leaves(shell, b) /\ Grows(shell, b)
      BY UpIsSound, ReconcileLeaves, ReconcileGrows
    <2> HIDE DEF b
    <2>2. CanFollow(b)
      BY <2>1, UpIsSound, LeavesCarries DEF CanFollow, Grows
    <2> QED  BY <1>1, <2>1, <2>2, FollowsIsReady DEF Leaves
  <1>3. s = IF RemoveAt(b.open, k) = <<>> THEN e ELSE Reconcile(e, e.active)
    BY DEF CloseWorkspace, Closed
  <1>4. c.open = RemoveAt(b.open, k)
    BY <1>2, ClosedEffect DEF Ready
  <1> HIDE DEF b, s
  <1>5. Ready(c) /\ TreesReady(c) /\ OpenIds(c) \subseteq OpenIds(b)
    BY <1>1, <1>2, ClosedIsReady, ClosedTreesReady
  <1> HIDE DEF c
  <1>6. Carries(c, e) /\ Grows(c, e)
    BY <1>5, UpIsSound, EnsurePanesCarries DEF Ready
  <1> HIDE DEF e
  <1>7. /\ Ready(e) /\ TreesReady(e) /\ Sound(e) /\ IsShell(e)
        /\ e.open \in Seq(Workspaces) /\ c.open \in Seq(Workspaces)
    <2>1. Ready(e) /\ TreesReady(e)
      BY <1>5, <1>6, UpIsSound, ReadyGrows
    <2>2. Sound(e) /\ Sound(c)
      BY <1>5, <2>1 DEF Ready
    <2> QED  BY <2>1, <2>2, ShellParts DEF Sound
  <1>8. OpenIds(e) = OpenIds(c) /\ DOMAIN e.open = DOMAIN c.open
    BY <1>6, <1>7, SameOpenIds DEF Carries
  <1> DEFINE r == Reconcile(e, e.active)
  <1>9. ASSUME c.open # <<>> PROVE Ready(r) /\ TreesReady(r) /\ OpenIds(r) = OpenIds(e)
    <2>1. e.active \in DOMAIN e.open
      <3>1. 1 \in DOMAIN c.open
        <4>1. Len(c.open) \in Nat /\ Len(c.open) # 0
          BY <1>7, <1>9
        <4> QED  BY <1>7, <4>1
      <3> QED  BY <1>7, <1>8, <3>1 DEF TreesReady, Fitting, Planted
    <2>2. Leaves(e, r) /\ Grows(e, r)
      BY <1>7, <2>1, ReconcileLeaves, ReconcileGrows
    <2> HIDE DEF r
    <2>3. Carries(e, r)
      BY <1>7, <2>2, LeavesCarries
    <2>4. OpenIds(r) = OpenIds(e)
      BY <2>2 DEF Leaves, OpenIds
    <2> QED  BY <1>7, <2>2, <2>3, <2>4, UpIsSound, ReadyGrows
  <1> HIDE DEF r
  <1>10. Ready(s) /\ TreesReady(s) /\ OpenIds(s) \subseteq OpenIds(b)
    BY <1>3, <1>4, <1>5, <1>7, <1>8, <1>9 DEF r
  <1>11. /\ Done(s, Written(store, W)[Len(W)])
         /\ \A d : Remains(store, W, d) => Left(s, d) /\ StoredTrees(d)
    BY <1>1, <1>2, <1>10, PersistTwice
  <1> HIDE DEF W
  <1> QED  BY <1>1, <1>10, <1>11, HandledKeeps
------------------------------------------------------------------------------
(* Starting. *)

\* load_workspaces without the closed ones.
LEMMA RestoredRowsAre ==
  ASSUME NEW db, IsStore(db), NEW rows, rows = RestoredRows(db)
  PROVE  /\ rows \in Seq(Workspaces) /\ Unique(rows)
         /\ ToSet(rows) = {r \in Rows(db) : r.id \notin ClosedIn(db)}
  <1>1. CASE db.control = <<>>
    BY <1>1 DEF RestoredRows, ClosedIn, NoControlState, Rows, IsStore
  <1>2. CASE db.control # <<>>
    <2> DEFINE closed == db.control[1].closed
               all == db.workspaces
    <2>1. rows = WithoutIds(all, closed) /\ ClosedIn(db) = closed
      BY <1>2 DEF RestoredRows, ClosedIn, NoControlState
    <2>2. all \in Seq(Workspaces) /\ Unique(all) /\ DOMAIN all = 1 .. Len(all)
      BY DEF IsStore
    <2> HIDE DEF all, closed
    <2>3. IsKept(all, closed, Len(all), rows)
      BY <2>1, <2>2, WithoutIdsKeeps
    <2>4. /\ rows \in Seq(Workspaces) /\ Unique(rows)
          /\ \A i \in DOMAIN rows : \E j \in DOMAIN all : rows[i] = all[j] /\ all[j].id \notin closed
          /\ \A j \in DOMAIN all : all[j].id \notin closed => \E i \in DOMAIN rows : rows[i] = all[j]
      BY <2>2, <2>3 DEF IsKept
    <2>5. ToSet(rows) = {r \in ToSet(all) : r.id \notin closed}
      BY <2>4 DEF ToSet
    <2> QED  BY <2>1, <2>4, <2>5 DEF Rows, all
  <1> QED  BY <1>1, <1>2

\* A tree that is read is the stored one or none; the ids of its splits count.
LEMMA RestoredLayoutIs ==
  ASSUME NEW tree, NEW id, NEW rows, NEW closed, NEW r, r = RestoredLayout(tree, id, rows, closed)
  PROVE  /\ r = tree \/ r = NoTree
         /\ r # NoTree => SplitIds(r) \subseteq SplitsRead(tree, id, rows, closed)
         /\ PositionOf(rows, id) # 0 => FitsIn(r, rows[PositionOf(rows, id)])
  <1> DEFINE k == PositionOf(rows, id)
             valid == CASE k # 0 -> ToSet(Ids(rows[k].windows))
                        [] k = 0 /\ id \in closed -> WindowsShown(tree)
                        [] OTHER -> {}
  <1>1. r = IF (k # 0 /\ WindowsShown(tree) \subseteq WindowIds(rows[k])) \/ (k = 0 /\ id \in closed)
            THEN tree ELSE NoTree
    BY DEF RestoredLayout, WindowIds
  <1>2. SplitsRead(tree, id, rows, closed)
          = {tree[p].id : p \in {q \in SplitPaths(tree) :
               \A l \in LeafPaths(tree) : IsPrefix(q, l) => tree[l].id \in valid}}
    BY DEF SplitsRead
  <1>3. k # 0 => valid = WindowIds(rows[k])
    BY DEF WindowIds
  <1> HIDE DEF k
  <1>4. k = 0 /\ id \in closed => valid = WindowsShown(tree)
    OBVIOUS
  <1>5. WindowsShown(NoTree) = {}
    BY DEF WindowsShown, LeafPaths, NoTree
  <1> HIDE DEF valid
  <1>6. ASSUME r # NoTree PROVE SplitIds(r) \subseteq SplitsRead(tree, id, rows, closed)
    <2>1. r = tree /\ \A w \in WindowsShown(tree) : w \in valid
      BY <1>1, <1>3, <1>4, <1>6
    <2>2. \A l \in LeafPaths(tree) : tree[l].id \in valid
      BY <2>1 DEF WindowsShown
    <2> QED  BY <1>2, <2>1, <2>2 DEF SplitIds
  <1>7. k # 0 => FitsIn(r, rows[k])
    BY <1>1, <1>5 DEF FitsIn
  <1> QED  BY <1>1, <1>6, <1>7 DEF k

\* The next split comes after all that are read.
LEMMA NextSplitAfterAll ==
  ASSUME NEW control, NEW rows, NEW n, Trees(control.layouts, n),
         NEW next, next = NextSplitAfter(control, rows)
  PROVE  /\ next \in Nat
         /\ \A id \in WorkspaceIds :
              \A m \in SplitsRead(control.layouts[id], id, rows, control.closed) : m < next
  <1> DEFINE read(id) == SplitsRead(control.layouts[id], id, rows, control.closed)
             T == {1} \cup UNION {read(id) : id \in WorkspaceIds}
  <1>1. ASSUME NEW id \in WorkspaceIds, NEW m \in read(id) PROVE m \in Nat /\ m <= n
    <2> DEFINE tree == control.layouts[id]
    <2>1. n \in Nat /\ IsTree(tree) /\ \A x \in SplitIds(tree) : x < n
      BY DEF Trees
    <2>2. m \in SplitIds(tree) /\ \E p \in SplitPaths(tree) : m = tree[p].id
      BY <1>1 DEF SplitsRead, SplitIds
    <2> HIDE DEF tree
    <2>3. m \in Nat
      BY <2>1, <2>2 DEF IsTree, SplitPaths, Nodes
    <2> QED  BY <2>1, <2>2, <2>3
  <1>2. next = 1 + Max(T)
    BY DEF NextSplitAfter
  <1>3. /\ 1 \in T /\ n \in Nat
        /\ \A m \in T : m = 1 \/ \E id \in WorkspaceIds : m \in read(id)
        /\ \A id \in WorkspaceIds : \A m \in read(id) : m \in T
    BY DEF Trees
  <1> HIDE DEF T
  <1>4. T \in SUBSET Nat /\ \A m \in T : m <= n + 1
    <2> HIDE DEF read
    <2> QED  BY <1>1, <1>3
  <1> HIDE DEF read
  <1>5. PICK x \in T : \A y \in T : y <= x
    <2>1. n + 1 \in Nat /\ T # {}
      BY <1>3
    <2> QED  BY <1>4, <2>1, Greatest
  <1>6. Max(T) \in T /\ \A y \in T : y <= Max(T)
    <2>1. x \in T /\ \A y \in T : x >= y
      BY <1>4, <1>5
    <2>2. Max(T) \in T /\ \A y \in T : Max(T) >= y
      BY <2>1 DEF Max
    <2> QED  BY <1>4, <2>2
  <1>7. Max(T) \in Nat
    BY <1>4, <1>6
  <1>8. \A m \in T : m < next
    BY <1>2, <1>4, <1>6, <1>7
  <1>9. \A id \in WorkspaceIds : \A m \in read(id) : m < next
    BY <1>3, <1>8
  <1> QED  BY <1>2, <1>7, <1>9 DEF read

\* What is read makes trees again.
LEMMA RestoredTrees ==
  ASSUME NEW control, NEW rows, NEW n, Trees(control.layouts, n), NEW layouts,
         layouts = [id \in WorkspaceIds |->
                      RestoredLayout(control.layouts[id], id, rows, control.closed)]
  PROVE  Trees(layouts, NextSplitAfter(control, rows))
  <1> DEFINE next == NextSplitAfter(control, rows)
             stored == control.layouts
  <1>1. /\ DOMAIN layouts = WorkspaceIds
        /\ \A id \in WorkspaceIds :
             layouts[id] = RestoredLayout(stored[id], id, rows, control.closed)
    OBVIOUS
  <1>2. \A id \in WorkspaceIds :
          /\ layouts[id] = stored[id] \/ layouts[id] = NoTree
          /\ layouts[id] # NoTree => SplitIds(layouts[id]) \subseteq SplitsRead(stored[id], id, rows, control.closed)
    BY <1>1, RestoredLayoutIs
  <1>3. /\ next \in Nat
        /\ \A id \in WorkspaceIds : \A m \in SplitsRead(stored[id], id, rows, control.closed) : m < next
    BY NextSplitAfterAll
  <1>4. SplitIds(NoTree) = {}
    BY DEF SplitIds, SplitPaths, NoTree
  <1> HIDE DEF next, stored
  <1>5. Trees(stored, n)
    BY DEF stored
  <1>6. Trees(layouts, n)
    BY <1>1, <1>2, <1>5, SomeTrees
  <1>7. \A id \in WorkspaceIds : \A m \in SplitIds(layouts[id]) : m < next
    BY <1>2, <1>3, <1>4
  <1>8. Trees(layouts, next)
    BY <1>3, <1>6, <1>7 DEF Trees
  <1> QED  BY <1>8 DEF next

\* The trees as they are read from the store.
TreesRead(s, rows) ==
  LET control == store.control[1]
  IN  IF store.control = NoControlState
      THEN s.layouts = [id \in WorkspaceIds |-> NoTree] /\ s.nextSplit = 1 /\ s.active = 1
      ELSE /\ s.layouts = [id \in WorkspaceIds |->
                             RestoredLayout(control.layouts[id], id, rows, control.closed)]
           /\ s.nextSplit = NextSplitAfter(control, rows)
           /\ s.active = ActiveRestored(rows, control.active)

\* The shell as it is read from the store, before its panes and browsers are ensured.
IsRead(s, rows) ==
  /\ IsShell(s) /\ s.open = rows /\ s.closed = ClosedIn(store) /\ s.browsers = {}
  /\ s.terminals = store.sessions \cap SessionsIn(AllTabs(rows), "terminal")
  /\ s.made = shell.made
  /\ TreesRead(s, rows)

\* restore_from_store, then the panes and the browsers.
LEMMA RestoredIs ==
  ASSUME SafeNow, NEW works, NEW rows, rows = RestoredRows(store)
  PROVE  \E s : /\ IsRead(s, rows)
                /\ Restored(store, shell.made, works)
                     = IF rows = <<>> THEN s ELSE EnsureBrowsers(EnsurePanes(s), works)
  <1> DEFINE sessions == store.sessions \cap SessionsIn(AllTabs(rows), "terminal")
             none == [id \in WorkspaceIds |-> NoTree]
             blank == [open |-> rows, active |-> 1, closed |-> {}, terminals |-> sessions,
                       browsers |-> {}, layouts |-> none, nextSplit |-> 1, made |-> shell.made]
             control == store.control[1]
             layouts == [id \in WorkspaceIds |->
                           RestoredLayout(control.layouts[id], id, rows, control.closed)]
             next == NextSplitAfter(control, rows)
             active == ActiveRestored(rows, control.active)
             applied == [blank EXCEPT !.closed = control.closed, !.layouts = layouts,
                                      !.nextSplit = next, !.active = active]
             s == IF store.control = <<>> THEN blank ELSE applied
  <1>1. /\ IsStore(store) /\ shell.made \in [workspaces: Nat, windows: Nat]
        /\ store.sessions \in SUBSET (Nat \ {0})
    BY UpIsSound DEF IsShell, IsStore
  <1>2. rows \in Seq(Workspaces) /\ Len(rows) \in Nat
    BY <1>1, RestoredRowsAre
  <1>3. sessions \in SUBSET (Nat \ {0}) /\ {} \in SUBSET Nat /\ 1 \in Nat /\ {} \in SUBSET (Nat \ {0})
    BY <1>1
  <1>4. Restored(store, shell.made, works)
          = IF rows = <<>> THEN s ELSE EnsureBrowsers(EnsurePanes(s), works)
    BY DEF Restored
  <1>5. active \in Nat
    <2>1. PositionOf(rows, control.active) \in 0 .. Len(rows)
      BY <1>2, Positions
    <2> HIDE DEF control
    <2> QED  BY <1>2, <2>1 DEF ActiveRestored
  <1> HIDE DEF sessions, none, layouts, next, active
  <1>6. blank = ShellOf(rows, 1, {}, sessions, {}, none, 1, shell.made)
    BY DEF ShellOf
  <1> HIDE DEF blank
  <1>7. applied = ShellOf(rows, active, control.closed, sessions, {}, layouts, next, shell.made)
    <2> DEFINE closed == control.closed
    <2>1. /\ IsShell(blank) /\ blank.open = rows /\ blank.terminals = sessions
          /\ blank.browsers = {} /\ blank.made = shell.made
      BY <1>1, <1>2, <1>3, <1>6, ShellOfParts
    <2>2. applied = [blank EXCEPT !.closed = closed, !.layouts = layouts,
                                  !.nextSplit = next, !.active = active]
      OBVIOUS
    <2> HIDE DEF applied, closed
    <2>3. applied = ShellOf(blank.open, active, closed, blank.terminals, blank.browsers, layouts,
                            next, blank.made)
      BY <2>1, <2>2 DEF IsShell, ShellOf
    <2> QED  BY <2>1, <2>3 DEF closed
  <1> HIDE DEF control, applied
  <1>8. CASE store.control = <<>>
    <2>1. s = blank /\ ClosedIn(store) = {}
      BY <1>8 DEF ClosedIn, NoControlState
    <2>2. IsRead(blank, rows)
      <3>1. /\ IsShell(blank) /\ blank.open = rows /\ blank.closed = {} /\ blank.browsers = {}
            /\ blank.terminals = sessions /\ blank.made = shell.made
            /\ blank.layouts = none /\ blank.nextSplit = 1 /\ blank.active = 1
        BY <1>1, <1>2, <1>3, <1>6, ShellOfParts
      <3>2. TreesRead(blank, rows)
        BY <1>8, <3>1 DEF TreesRead, NoControlState, none
      <3> QED  BY <2>1, <3>1, <3>2 DEF IsRead, sessions
    <2> QED  BY <1>4, <2>1, <2>2
  <1>9. CASE store.control # <<>>
    <2>1. s = applied /\ ClosedIn(store) = control.closed
      BY <1>9 DEF ClosedIn, NoControlState, control
    <2>2. control.closed \in SUBSET Nat
      BY <1>1, <1>9 DEF IsStore, NoControlState, control
    <2>3. IsRead(applied, rows)
      <3>1. /\ IsShell(applied) /\ applied.open = rows /\ applied.closed = control.closed
            /\ applied.browsers = {} /\ applied.terminals = sessions /\ applied.made = shell.made
            /\ applied.layouts = layouts /\ applied.nextSplit = next /\ applied.active = active
        BY <1>1, <1>2, <1>3, <1>5, <1>7, <2>2, ShellOfParts
      <3>2. TreesRead(applied, rows)
        BY <1>9, <3>1 DEF TreesRead, NoControlState, layouts, next, active, control
      <3> QED  BY <2>1, <3>1, <3>2 DEF IsRead, sessions
    <2> QED  BY <1>4, <2>1, <2>3
  <1> QED  BY <1>8, <1>9

\* What is read agrees with the store it was read from.
LEMMA ReadIsReady ==
  ASSUME SafeNow, NEW rows, rows = RestoredRows(store), NEW s, IsRead(s, rows)
  PROVE  Ready(s)
  <1>1. /\ IsShell(s) /\ IsStore(store) /\ IsShell(shell) /\ s.open = rows
        /\ s.closed = ClosedIn(store) /\ s.made = shell.made
    BY UpIsSound DEF IsRead
  <1>2. /\ rows \in Seq(Workspaces) /\ Unique(rows)
        /\ ToSet(rows) = {r \in Rows(store) : r.id \notin ClosedIn(store)}
    BY <1>1, RestoredRowsAre
  <1>3. AllTabs(rows) \subseteq AllTabs(store.workspaces)
    <2>1. ASSUME NEW t \in AllTabs(rows) PROVE t \in AllTabs(store.workspaces)
      <3>1. PICK k \in DOMAIN rows : t \in TabsOf(rows[k])
        BY DEF AllTabs
      <3>2. rows[k] \in Rows(store)
        BY <1>2 DEF ToSet
      <3> QED  BY <1>1, <3>1, <3>2, RowsParts
    <2> QED  BY <2>1
  <1>4. NoStray(s)
    BY DEF IsRead, NoStray
  <1>5. BoundedIn(s, store)
    <2>1. UsedIn(s, store) \subseteq UsedIn(shell, store)
      BY <1>1, <1>3 DEF UsedIn, IsRead
    <2> QED  BY <2>1 DEF SafeNow, Safe, BoundedIn
  <1>6. Linked(s, store)
    <2>1. \A k \in DOMAIN rows : rows[k].id \notin ClosedIn(store) /\ rows[k].id \in OpenIds(s)
      BY <1>1, <1>2, OpenIdsParts DEF ToSet
    <2>2. OpenIds(s) \cap s.closed = {}
      BY <1>1, <1>2, <2>1, OpenIdsParts
    <2>3. ASSUME NEW r \in Rows(store), r.id \notin s.closed PROVE r.id \in OpenIds(s)
      <3>1. r \in ToSet(rows)
        BY <1>1, <1>2, <2>3
      <3> QED  BY <1>1, <1>2, <3>1, OpenIdsParts
    <2> QED  BY <1>1, <1>2, <2>2, <2>3 DEF Linked
  <1>7. ASSUME torn = 0 PROVE AllRun(s) /\ RowsWhole(store)
    <2>1. RowsWhole(store)
      BY <1>7 DEF SafeNow, Safe
    <2>2. ASSUME NEW n \in SessionsIn(AllTabs(rows), "terminal") PROVE n \in store.sessions
      <3>1. PICK t \in AllTabs(rows) : t.kind = "terminal" /\ n = t.id
        BY DEF SessionsIn
      <3>2. PICK r \in Rows(store) : t \in TabsOf(r)
        BY <1>1, <1>3, <3>1, RowsParts
      <3>3. n \in SessionsIn(TabsOf(r), "terminal")
        BY <3>1, <3>2 DEF SessionsIn
      <3> QED  BY <2>1, <3>3 DEF RowsWhole
    <2> QED  BY <1>1, <2>1, <2>2 DEF AllRun, IsRead
  <1>8. Safe(TRUE, s, store, torn)
    BY <1>1, <1>4, <1>5, <1>6, <1>7 DEF SafeNow, Safe, IdsGiven
  <1>9. shell.made.workspaces <= s.made.workspaces
    BY <1>1 DEF IsShell
  <1> QED  BY <1>8, <1>9, SafeIsReady

\* The trees that are read fit what is read, and what is closed.
LEMMA ReadTreesReady ==
  ASSUME SafeNow, NEW rows, rows = RestoredRows(store), NEW s, IsRead(s, rows)
  PROVE  TreesReady(s)
  <1> DEFINE control == store.control[1]
  <1>1. /\ IsStore(store) /\ IsShell(s) /\ IsShell(shell) /\ s.open = rows /\ s.made = shell.made
        /\ Len(rows) \in Nat /\ DOMAIN rows = 1 .. Len(rows)
        /\ shell.made.windows \in Nat
    <2>1. /\ IsStore(store) /\ IsShell(s) /\ IsShell(shell) /\ s.open = rows /\ s.made = shell.made
      BY UpIsSound DEF IsRead
    <2>2. rows \in Seq(Workspaces)
      BY <2>1, ShellParts
    <2> QED  BY <2>1, <2>2, ShellParts
  <1>2. /\ rows \in Seq(Workspaces) /\ Unique(rows)
        /\ \A k \in DOMAIN rows : rows[k] \in Rows(store) /\ rows[k].id \notin ClosedIn(store)
        /\ \A r \in Rows(store) : r.id \in ClosedIn(store) \/ \E k \in DOMAIN rows : rows[k] = r
    <2>1. /\ rows \in Seq(Workspaces) /\ Unique(rows)
          /\ ToSet(rows) = {r \in Rows(store) : r.id \notin ClosedIn(store)}
      BY <1>1, RestoredRowsAre
    <2> QED  BY <2>1 DEF ToSet
  <1>3. ASSUME NEW k \in DOMAIN rows PROVE rows[k].id \in WorkspaceIds /\ PositionOf(rows, rows[k].id) = k
    <2> DEFINE p == PositionOf(rows, rows[k].id)
    <2>1. p \in 0 .. Len(rows) /\ (p # 0 => rows[p].id = rows[k].id) /\ p # 0
      BY <1>1, Positions
    <2> HIDE DEF p
    <2>2. p = k
      BY <1>1, <1>2, <2>1 DEF Unique
    <2>3. rows[k].id \in WorkspaceIds
      BY <1>1, <1>2, RowIds
    <2> QED  BY <2>2, <2>3 DEF p
  <1>4. ASSUME NEW k \in DOMAIN rows, NEW w \in WindowIds(rows[k]) PROVE w <= s.made.windows
    BY <1>1, <1>2, <1>4 DEF SafeNow, Grounded, WindowsGiven
  <1>5. s.active = 1 \/ s.active \in DOMAIN rows
    <2>1. CASE store.control = NoControlState
      BY <2>1 DEF IsRead, TreesRead
    <2>2. CASE store.control # NoControlState
      <3> DEFINE p == PositionOf(rows, control.active)
      <3>1. p \in 0 .. Len(rows) /\ s.active = IF p = 0 THEN 1 ELSE p
        BY <1>1, <2>2, Positions DEF IsRead, TreesRead, ActiveRestored
      <3> HIDE DEF p
      <3> QED  BY <1>1, <3>1
    <2> QED  BY <2>1, <2>2
  <1>6. /\ Trees(s.layouts, s.nextSplit)
        /\ \A k \in DOMAIN rows : FitsIn(s.layouts[rows[k].id], rows[k])
        /\ \A r \in Rows(store) : r.id \in ClosedIn(store) => FitsIn(s.layouts[r.id], r)
    <2>1. \A ws : FitsIn(NoTree, ws)
      BY NoTreeIsTree DEF FitsIn
    <2>2. CASE store.control = NoControlState
      <3>1. s.layouts = [id \in WorkspaceIds |-> NoTree] /\ s.nextSplit = 1
        BY <2>2 DEF IsRead, TreesRead
      <3>2. DOMAIN s.layouts = WorkspaceIds /\ \A id \in WorkspaceIds : s.layouts[id] = NoTree
        BY <3>1
      <3>3. Trees(s.layouts, s.nextSplit)
        BY <3>1, <3>2, NoTreeIsTree DEF Trees
      <3>4. \A r \in Rows(store) : r.id \in WorkspaceIds
        BY <1>1, RowIds
      <3> QED  BY <1>3, <2>1, <3>2, <3>3, <3>4
    <2>3. CASE store.control # NoControlState
      <3> DEFINE stored == StoredLayouts(store)
      <3>1. /\ s.layouts = [id \in WorkspaceIds |-> RestoredLayout(control.layouts[id], id, rows, control.closed)]
            /\ s.nextSplit = NextSplitAfter(control, rows)
        BY <2>3 DEF IsRead, TreesRead
      <3>2. stored = control.layouts
        BY DEF StoredLayouts
      <3>3. /\ \E n \in Nat : Trees(stored, n)
            /\ \A r \in Rows(store) : r.id \in ClosedIn(store) => FitsIn(stored[r.id], r)
        BY <2>3 DEF SafeNow, Grounded, StoredTrees
      <3> HIDE DEF stored, control
      <3>4. Trees(s.layouts, s.nextSplit)
        BY <3>1, <3>2, <3>3, RestoredTrees
      <3>5. ASSUME NEW id \in WorkspaceIds
            PROVE  /\ s.layouts[id] = stored[id] \/ s.layouts[id] = NoTree
                   /\ PositionOf(rows, id) # 0 => FitsIn(s.layouts[id], rows[PositionOf(rows, id)])
        <4>1. s.layouts[id] = RestoredLayout(stored[id], id, rows, control.closed)
          BY <3>1, <3>2
        <4> QED  BY <4>1, RestoredLayoutIs
      <3>6. ASSUME NEW k \in DOMAIN rows PROVE FitsIn(s.layouts[rows[k].id], rows[k])
        <4>1. k # 0
          BY <1>1
        <4> QED  BY <1>3, <3>5, <4>1
      <3>7. ASSUME NEW r \in Rows(store), r.id \in ClosedIn(store) PROVE FitsIn(s.layouts[r.id], r)
        <4>1. r.id \in WorkspaceIds
          BY <1>1, RowIds
        <4> QED  BY <2>1, <3>3, <3>5, <3>7, <4>1
      <3> QED  BY <3>4, <3>6, <3>7
    <2> QED  BY <2>2, <2>3
  <1>7. ASSUME NEW r \in Rows(store), r.id \notin OpenIds(s) PROVE FitsIn(s.layouts[r.id], r)
    <2>1. r.id \in ClosedIn(store)
      BY <1>1, <1>2, <1>7, OpenIdsParts
    <2> QED  BY <1>6, <2>1
  <1>8. Fitting(s, store)
    BY <1>1, <1>2, <1>4, <1>5, <1>6, <1>7 DEF Fitting, Planted, FitAt
  <1>9. KeepsClosed(s, store) /\ shell.made.windows <= s.made.windows
    BY <1>1, <1>2 DEF KeepsClosed
  <1> QED  BY <1>8, <1>9 DEF TreesReady

\* AgentHouseShell::new
LEMMA StartKeeps ==
  ASSUME SafeNow, Start
  PROVE  SafeNow'
  <1> DEFINE rows == RestoredRows(store)
  <1>1. PICK works \in BOOLEAN :
          LET s == Restored(store, shell.made, works) IN Handled(s, PersistWrites(s))
    BY DEF Start
  <1>2. PICK s : /\ IsRead(s, rows)
                 /\ Restored(store, shell.made, works)
                      = IF rows = <<>> THEN s ELSE EnsureBrowsers(EnsurePanes(s), works)
    BY RestoredIs
  <1>3. Ready(s) /\ TreesReady(s) /\ Sound(s) /\ IsStore(store) /\ IsShell(shell)
    BY <1>2, UpIsSound, ReadIsReady, ReadTreesReady DEF Ready
  <1> DEFINE e == EnsurePanes(s)
             b == EnsureBrowsers(e, works)
  <1>4. Ready(e) /\ TreesReady(e) /\ Sound(e)
    BY <1>3, EnsurePanesCarries, ReadyGrows DEF Ready
  <1> HIDE DEF e
  <1>5. Ready(b) /\ TreesReady(b)
    BY <1>3, <1>4, EnsureBrowsersCarries, ReadyGrows
  <1> HIDE DEF b
  <1> DEFINE r == Restored(store, shell.made, works)
  <1>6. Ready(r) /\ TreesReady(r)
    BY <1>2, <1>3, <1>5 DEF b, e
  <1>7. Handled(r, PersistWrites(r))
    BY <1>1
  <1> HIDE DEF r
  <1> QED  BY <1>6, <1>7, PersistedKeeps
------------------------------------------------------------------------------
\* An empty shell and an empty store.
LEMMA SafeInit == ASSUME Init PROVE SafeNow
  <1> DEFINE layouts == [id \in WorkspaceIds |-> NoTree]
             made == [workspaces |-> 0, windows |-> 0]
  <1>1. /\ shell = ShellOf(<<>>, 1, {}, {}, {}, layouts, 1, made)
        /\ up = FALSE /\ torn = 0
    BY DEF Init, ShellOf
  <1>2. <<>> \in Seq(Workspaces) /\ made \in [workspaces: Nat, windows: Nat]
        /\ 1 \in Nat /\ {} \in SUBSET Nat /\ {} \in SUBSET (Nat \ {0})
    OBVIOUS
  <1> HIDE DEF layouts, made
  <1>3. IsShell(shell) /\ shell.open = <<>> /\ shell.terminals = {} /\ shell.browsers = {}
    <2> DEFINE open == <<>>
               one == 1
               none == {}
    <2>1. /\ open \in Seq(Workspaces) /\ one \in Nat /\ none \in SUBSET Nat
          /\ none \in SUBSET (Nat \ {0}) /\ made \in [workspaces: Nat, windows: Nat]
          /\ shell = ShellOf(open, one, none, none, none, layouts, one, made)
      BY <1>1, <1>2
    <2> HIDE DEF open, one, none
    <2>2. IsShell(shell) /\ shell.open = open /\ shell.terminals = none /\ shell.browsers = none
      BY <2>1, ShellOfParts
    <2> QED  BY <2>2 DEF open, none
  <1>4. /\ store.workspaces = <<>> /\ store.sessions = {} /\ store.control = NoControlState
        /\ DOMAIN store.workspaces = {}
    BY DEF Init
  <1>5. IsStore(store)
    BY <1>4 DEF Init, IsStore, Unique, NoControlState
  <1>6. Rows(store) = {} /\ ClosedIn(store) = {} /\ AllTabs(store.workspaces) = {}
    BY <1>4 DEF Rows, ToSet, ClosedIn, AllTabs
  <1>7. AllTabs(shell.open) = {}
    BY <1>3 DEF AllTabs
  <1>8. UsedIn(shell, store) = {}
    BY <1>3, <1>4, <1>6, <1>7 DEF UsedIn
  <1>9. BoundedIn(shell, store)
    BY <1>8 DEF BoundedIn
  <1>10. NoStray(shell) /\ RootsApart(store) /\ IdsGiven(shell, store) /\ RowsWhole(store)
    BY <1>3, <1>6 DEF NoStray, RootsApart, IdsGiven, RowsWhole, RowsApart
  <1>11. Grounded(up, shell, store)
    BY <1>1, <1>4, <1>6 DEF Grounded, StoredTrees, WindowsGiven
  <1> QED  BY <1>1, <1>3, <1>5, <1>9, <1>10, <1>11 DEF SafeNow, Safe

\* One step for each action.
LEMMA SafeStep == ASSUME SafeNow, [Next]_vars PROVE SafeNow'
  <1>1. CASE UNCHANGED vars
    BY <1>1 DEF vars, SafeNow, Safe, Rows, ClosedIn, UsedIn, BoundedIn, IsShell, IsStore, NoStray,
       RootsApart, IdsGiven, Linked, RowsWhole, RowsApart, AllRun, OpenIds
  <1>2. CASE Start
    BY <1>2, StartKeeps
  <1>3. CASE Crash
    BY <1>3, CrashKeeps
  <1>4. CASE Render \/ \E k \in DOMAIN shell.open : PointAtWorkspace(k)
    BY <1>4, ShownActionsKeep
  <1>5. CASE OtherRequest \/ CloseGoneFromUi \/ \E root \in Roots : ActivateOpen(root)
    BY <1>5, EnsuredActionsKeep
  <1>6. ASSUME NEW root \in Roots, CreateWorkspace(root) \/ CreateWorkspaceForRoot(root)
        PROVE  SafeNow'
    <2>1. ActivateOpen(root) \/ CreateNew(root) \/ ReopenStored(root)
      BY <1>6 DEF CreateWorkspace, CreateWorkspaceForRoot
    <2> QED  BY <1>5, <2>1, CreateNewKeeps, ReopenKeeps
  <1>7. ASSUME NEW k \in DOMAIN shell.open,
               \/ CloseWorkspaceFromUi(k) \/ ActivateWorkspace(k)
               \/ CreateWindow(k) \/ OpenTerminalWindow(k) \/ OpenWebWindow(k)
        PROVE  SafeNow'
    BY <1>7, CloseWorkspaceKeeps, ActivateKeeps, WindowActionsKeep
  <1>8. ASSUME NEW w \in OpenWindows(shell),
               OpenTab(w) \/ SplitWindow(w) \/ CloseWindowRequest(w) \/ CloseLastTabFromUi(w)
        PROVE  SafeNow'
    BY <1>8, TabActionsKeep, CloseWindowKeeps
  <1>9. ASSUME NEW w \in OpenWindows(shell), NEW t \in WindowOf(shell, w).tabs,
               \/ CloseTabRequest(w, t) \/ CloseTabFromUi(w, t)
               \/ \E to \in OpenWindows(shell) : MoveWindowTab(w, t, to)
        PROVE  SafeNow'
    <2>1. CASE CloseTabRequest(w, t) \/ CloseTabFromUi(w, t)
      BY <2>1, CloseTabKeeps
    <2>2. CASE \E to \in OpenWindows(shell) : MoveWindowTab(w, t, to)
      BY <2>2, TabActionsKeep
    <2> QED  BY <1>9, <2>1, <2>2
  <1>10. CASE \E root \in Roots : CreateWorkspace(root) \/ CreateWorkspaceForRoot(root)
    BY <1>6, <1>10
  <1>11. CASE \E k \in DOMAIN shell.open :
                \/ CloseWorkspaceFromUi(k) \/ ActivateWorkspace(k) \/ PointAtWorkspace(k)
                \/ CreateWindow(k) \/ OpenTerminalWindow(k) \/ OpenWebWindow(k)
    <2>1. PICK k \in DOMAIN shell.open :
                \/ CloseWorkspaceFromUi(k) \/ ActivateWorkspace(k) \/ PointAtWorkspace(k)
                \/ CreateWindow(k) \/ OpenTerminalWindow(k) \/ OpenWebWindow(k)
      BY <1>11
    <2>2. CASE PointAtWorkspace(k)
      BY <1>4, <2>2
    <2> QED  BY <1>7, <2>1, <2>2
  <1>12. CASE \E w \in OpenWindows(shell) :
                \/ OpenTab(w) \/ SplitWindow(w) \/ CloseWindowRequest(w) \/ CloseLastTabFromUi(w)
                \/ \E t \in WindowOf(shell, w).tabs :
                     \/ CloseTabRequest(w, t) \/ CloseTabFromUi(w, t)
                     \/ \E to \in OpenWindows(shell) : MoveWindowTab(w, t, to)
    BY <1>8, <1>9, <1>12
  <1> QED  BY <1>1, <1>2, <1>3, <1>4, <1>5, <1>10, <1>11, <1>12 DEF Next

\* The inductive invariant, for any folders, any number of workspaces, windows
\* and tabs, any pane limit, and any number of crashes.
THEOREM ShellAndStoreAgree == Spec => []SafeNow
  <1>1. Init => SafeNow
    BY SafeInit
  <1>2. SafeNow /\ [Next]_vars => SafeNow'
    BY SafeStep
  <1> QED  BY <1>1, <1>2, PTL DEF Spec

\* No session runs without a tab of an open workspace that shows it, whatever is
\* closed, moved, reopened or cut short by a crash: close_window, close_window_tab
\* and close_workspace_from_ui stop what they remove, and restore_from_store starts
\* only what a stored tab names.
THEOREM NoSessionStrays == Spec => []NoStrayRuntime
  <1>1. SafeNow => NoStrayRuntime
    BY DEF SafeNow, Safe, NoStray, NoStrayRuntime, TerminalTabs, WebTabs
  <1> QED  BY <1>1, ShellAndStoreAgree, PTL

\* As long as no handler was cut short, every terminal tab has its session and no
\* tab is in two windows: what is open is whole because what is stored is, closed
\* workspaces included, and their sessions stay stored.
THEOREM TabsStayWhole == Spec => []TabsAreWhole
  <1>1. ASSUME SafeNow, up, torn = 0
        PROVE  /\ TerminalTabs \subseteq shell.terminals
               /\ \A a, b \in WindowsOfAll : a # b => TabsAt(a) \cap TabsAt(b) = {}
    <2>1. AllRun(shell) /\ Disjoint(shell.open)
      BY <1>1, ShellIsReady DEF SafeNow, Ready, Whole
    <2>2. ASSUME NEW a \in WindowsOfAll, NEW b \in WindowsOfAll, NEW t,
                 t \in TabsAt(a), t \in TabsAt(b)
          PROVE  a = b
      <3>1. PICK k \in DOMAIN shell.open : \E i \in DOMAIN shell.open[k].windows : a = <<k, i>>
        BY DEF WindowsOfAll
      <3>2. PICK i \in DOMAIN shell.open[k].windows : a = <<k, i>>
        BY <3>1
      <3>3. PICK l \in DOMAIN shell.open : \E j \in DOMAIN shell.open[l].windows : b = <<l, j>>
        BY DEF WindowsOfAll
      <3>4. PICK j \in DOMAIN shell.open[l].windows : b = <<l, j>>
        BY <3>3
      <3>5. t \in shell.open[k].windows[i].tabs /\ t \in shell.open[l].windows[j].tabs
        BY <2>2, <3>2, <3>4 DEF TabsAt
      <3>6. k = l /\ i = j
        BY <2>1, <3>5 DEF Disjoint
      <3> QED  BY <3>2, <3>4, <3>6
    <2> QED  BY <2>1, <2>2 DEF AllRun, TerminalTabs
  <1>2. SafeNow => TabsAreWhole
    BY <1>1 DEF TabsAreWhole
  <1> QED  BY <1>2, ShellAndStoreAgree, PTL

\* Two workspaces of one folder are never open at once, and none is both open and
\* closed, also after a crash in the middle of persist_state: of the stored
\* workspaces of a folder all but one are in the stored list of closed ones.
THEOREM FoldersOpenOnce == Spec => []OneOpenPerFolder
  <1>1. SafeNow => OneOpenPerFolder
    BY ShellIsReady DEF SafeNow, Ready, OneOpenPerFolder
  <1> QED  BY <1>1, ShellAndStoreAgree, PTL

\* The pane trees stay trees: through appending, splitting, moving and pruning, over
\* closing and reopening a workspace, and over a restart from a store that a crash
\* left half written, no window and no split is in a tree twice, no split id is used
\* in two trees, next_pane_split_id is above all of them, and the tree of an open
\* workspace shows windows of that workspace only.
THEOREM PaneTreesStaySound == Spec => []PaneTreesAreSound
  <1>1. ASSUME SafeNow, up PROVE Planted(shell) /\ \A k \in DOMAIN shell.open : FitAt(shell, k)
    BY <1>1 DEF SafeNow, Grounded, Fitting
  <1>2. ASSUME SafeNow, up
        PROVE  \A id \in WorkspaceIds : \A p, q \in DOMAIN shell.layouts[id] :
                 shell.layouts[id][p] = shell.layouts[id][q] => p = q
    BY <1>1, <1>2 DEF Planted, Trees, IsTree
  <1>3. ASSUME SafeNow, up
        PROVE  /\ \A i, j \in WorkspaceIds :
                    i # j => SplitIds(shell.layouts[i]) \cap SplitIds(shell.layouts[j]) = {}
               /\ \A id \in WorkspaceIds : \A n \in SplitIds(shell.layouts[id]) : n < shell.nextSplit
    BY <1>1, <1>3 DEF Planted, Trees
  <1>4. ASSUME SafeNow, up
        PROVE  \A k \in DOMAIN shell.open :
                 WindowsShown(shell.layouts[shell.open[k].id]) \subseteq ToSet(Ids(shell.open[k].windows))
    BY <1>1, <1>4 DEF FitAt, FitsIn, WindowIds
  <1>5. SafeNow => PaneTreesAreSound
    BY <1>2, <1>3, <1>4 DEF PaneTreesAreSound
  <1> QED  BY <1>5, ShellAndStoreAgree, PTL
=============================================================================
