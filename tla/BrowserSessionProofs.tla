------------------------ MODULE BrowserSessionProofs ------------------------
(***************************************************************************)
(* Proofs about BrowserSession, for any pages, scripts, engines and        *)
(* bounds: the type of every variable; the tab follows the session; a      *)
(* session that is loaded has its page; once everything is answered, a     *)
(* session that is loaded is at the page asked for last; no answer is left *)
(* without a wake; no script gets the result of another one.               *)
(*                                                                         *)
(* The drained events are a recursive function of their number, so what    *)
(* draining does is proved by induction over it (NaturalInduction).  The   *)
(* page asked for last is reached because the answer that shows it is      *)
(* always still to come: it waits in the commands, is in the worker's      *)
(* hands, or will be the last to be drained (TargetIsReached).             *)
(***************************************************************************)
EXTENDS BrowserSession, NaturalInduction, SequenceTheorems

Texts == Urls \cup {NoUrl}
Statuses == {"idle", "loading", "loaded", "failed"}
Browsers == [open : BOOLEAN, url : Texts, status : Statuses, title : Texts, page : Pages]
Events == [kind : {"none", "snapshot", "error", "result", "shutdown"},
           page : Pages, value : Scripts \cup {NoUrl}]
Commands ==
  [kind : {"open", "navigate"}, arg : Urls] \cup
  [kind : {"snapshot", "resize", "shutdown"}, arg : {NoUrl}] \cup
  [kind : {"action"}, arg : History \cup Scripts] \cup
  [kind : {"input"}, arg : Inputs]
Workers == [pc : {"none", "idle", "reading", "polling", "evaluating", "sending", "waking",
                  "ended", "dead"},
            cmd : Commands \cup {Command("none", NoUrl)},
            out : Events]
Views == [url : Texts, title : Texts, loading : BOOLEAN, there : BOOLEAN]
Navs == [url : Texts, title : Texts, loaded : BOOLEAN]

TypeOK ==
  /\ engine \in {"native", "text"}
  /\ browser \in Browsers
  /\ tab \in Texts
  /\ commands \in Seq(Commands)
  /\ events \in Seq(Events)
  /\ wake \in BOOLEAN
  /\ loop \in {"waiting", "timer"}
  /\ worker \in Workers
  /\ view \in Views
  /\ nav \in Navs
  /\ scripts \in SUBSET Scripts
  /\ target \in Texts

-----------------------------------------------------------------------------
(***************************************************************************)
(* What draining the events does.                                          *)
(***************************************************************************)
LEMMA EventApplied ==
  ASSUME NEW b \in Browsers, NEW e \in Events
  PROVE  /\ ApplyEvent(b, e) \in Browsers
         /\ ApplyEvent(b, e).open = b.open
         /\ e.kind = "snapshot" => /\ ApplyEvent(b, e).url = e.page.url
                                   /\ ApplyEvent(b, e).page = e.page
                                   /\ ApplyEvent(b, e).status = "loaded"
         /\ e.kind = "error" => ApplyEvent(b, e) = [b EXCEPT !.status = "failed"]
         /\ e.kind \notin {"snapshot", "error"} => ApplyEvent(b, e) = b
  <1>1. /\ b.open \in BOOLEAN /\ b.url \in Texts /\ b.status \in Statuses /\ b.title \in Texts
        /\ b.page \in Pages
        /\ b = [open |-> b.open, url |-> b.url, status |-> b.status, title |-> b.title,
                page |-> b.page]
    BY DEF Browsers
  <1>2. e.page \in Pages /\ e.page.url \in Texts /\ e.page.title \in Texts
    BY DEF Events, Pages, Texts
  <1>3. CASE e.kind = "snapshot"
    <2>1. ApplyEvent(b, e) = [open |-> b.open, url |-> e.page.url, status |-> "loaded",
             title |-> IF e.page.title = NoUrl THEN b.title ELSE e.page.title, page |-> e.page]
      BY <1>1, <1>3 DEF ApplyEvent, ApplySnapshot
    <2> QED  BY <1>1, <1>2, <1>3, <2>1 DEF Browsers, Statuses
  <1>4. CASE e.kind = "error"
    <2>1. ApplyEvent(b, e) = [b EXCEPT !.status = "failed"]
      BY <1>4 DEF ApplyEvent, ApplyError
    <2>2. ApplyEvent(b, e) = [open |-> b.open, url |-> b.url, status |-> "failed",
                              title |-> b.title, page |-> b.page]
      BY <1>1, <2>1
    <2> QED  BY <1>1, <1>4, <2>1, <2>2 DEF Browsers, Statuses
  <1>5. CASE e.kind \notin {"snapshot", "error"}
    BY <1>5 DEF ApplyEvent
  <1> QED  BY <1>3, <1>4, <1>5

LEMMA AfterEventsStep ==
  ASSUME NEW b \in Browsers, NEW es \in Seq(Events)
  PROVE  /\ AfterEvents(b, es) \in [0..Len(es) -> Browsers]
         /\ AfterEvents(b, es)[0] = b
         /\ \A i \in 1..Len(es) :
              AfterEvents(b, es)[i] = ApplyEvent(AfterEvents(b, es)[i - 1], es[i])
  <1> DEFINE step == [i \in Nat |-> [s \in Browsers |->
                        IF i \in 1..Len(es) THEN ApplyEvent(s, es[i]) ELSE s]]
             Body(f) == [i \in 0..Len(es) |->
                           IF i = 0 THEN b ELSE ApplyEvent(f[i - 1], es[i])]
  <1>1. step \in [Nat -> [Browsers -> Browsers]]
    <2>1. ASSUME NEW i \in Nat, NEW s \in Browsers
          PROVE  (IF i \in 1..Len(es) THEN ApplyEvent(s, es[i]) ELSE s) \in Browsers
      <3>1. i \in 1..Len(es) => es[i] \in Events
        BY ElementOfSeq
      <3> QED  BY <3>1, EventApplied
    <2> QED  BY <2>1
  <1>2. PICK f \in [0..Len(es) -> Browsers] : Follows(f, b, step, Len(es))
    <2> HIDE DEF step
    <2>1. Len(es) \in Nat
      OBVIOUS
    <2> QED  BY <1>1, <2>1, FiniteRecursion
  <1>3. ASSUME NEW i \in 1..Len(es)
        PROVE  f[i] = ApplyEvent(f[i - 1], es[i])
    <2>1. f[i] = step[i][f[i - 1]] /\ f[i - 1] \in Browsers /\ i \in Nat
      <3> HIDE DEF step
      <3>1. f[i] = step[i][f[i - 1]]
        BY <1>2 DEF Follows
      <3>2. i - 1 \in 0..Len(es)
        OBVIOUS
      <3> QED  BY <3>1, <3>2
    <2> QED  BY <2>1
  <1>4. f = Body(f)
    <2>1. ASSUME NEW i \in 0..Len(es) PROVE f[i] = Body(f)[i]
      <3>1. i = 0 \/ i \in 1..Len(es)
        OBVIOUS
      <3> QED  BY <3>1, <1>2, <1>3 DEF Follows
    <2>2. f = [i \in 0..Len(es) |-> f[i]]
      OBVIOUS
    <2> QED  BY <2>1, <2>2
  <1> DEFINE g == AfterEvents(b, es)
  <1>5. g = Body(g)
    BY <1>4 DEF AfterEvents
  <1>6. \A i \in 0..Len(es) : g[i] = f[i]
    <2> DEFINE T == {i \in 0..Len(es) : g[i] = f[i]}
    <2>1. 0 \in T
      BY <1>4, <1>5
    <2>2. ASSUME NEW i \in 1..Len(es), i - 1 \in T PROVE i \in T
      <3>1. Body(g)[i] = ApplyEvent(g[i - 1], es[i])
        <4> HIDE DEF g
        <4>1. i \in 0..Len(es) /\ i # 0
          OBVIOUS
        <4> QED  BY <4>1
      <3>2. g[i - 1] = f[i - 1]
        BY <2>2
      <3>3. g[i] = f[i]
        <4> HIDE DEF g, Body
        <4> QED  BY <3>1, <3>2, <1>5, <1>3
      <3> QED  BY <3>3
    <2>3. 0..Len(es) \subseteq T
      <3>1. Len(es) \in Nat
        OBVIOUS
      <3> HIDE DEF T
      <3> QED  BY <2>1, <2>2, <3>1, BoundedInduction
    <2> QED  BY <2>3
  <1>7. g = f
    <2> HIDE DEF g
    <2>1. g = [i \in 0..Len(es) |-> g[i]]
      BY <1>5
    <2> QED  BY <2>1, <1>6
  <1> QED  BY <1>7, <1>2, <1>3 DEF Follows

\* Nothing to drain, and one event more.
LEMMA DrainedNone == ASSUME NEW b \in Browsers PROVE Drained(b, <<>>) = b
  <1>1. <<>> \in Seq(Events) /\ Len(<<>>) = 0
    OBVIOUS
  <1> QED  BY <1>1, AfterEventsStep DEF Drained

LEMMA DrainedOneMore ==
  ASSUME NEW b \in Browsers, NEW es \in Seq(Events), NEW e \in Events
  PROVE  Drained(b, Append(es, e)) = ApplyEvent(Drained(b, es), e)
  <1> DEFINE f == AfterEvents(b, es)
             es2 == Append(es, e)
             g == AfterEvents(b, es2)
             n == Len(es)
  <1>1. /\ es2 \in Seq(Events) /\ Len(es2) = n + 1 /\ n \in Nat
        /\ \A i \in 1..n : es2[i] = es[i]
        /\ es2[n + 1] = e
    OBVIOUS
  <1>2. f[0] = b /\ \A i \in 1..n : f[i] = ApplyEvent(f[i - 1], es[i])
    BY AfterEventsStep
  <1>3. g[0] = b /\ \A i \in 1..(n + 1) : g[i] = ApplyEvent(g[i - 1], es2[i])
    <2> HIDE DEF es2
    <2> QED  BY <1>1, AfterEventsStep
  <1> HIDE DEF f, es2, g, n
  <1> DEFINE T == {i \in 0..n : g[i] = f[i]}
  <1>4. 0 \in T
    BY <1>1, <1>2, <1>3
  <1>5. ASSUME NEW i \in 1..n, i - 1 \in T PROVE i \in T
    <2>1. i \in 1..(n + 1) /\ g[i - 1] = f[i - 1] /\ es2[i] = es[i] /\ i \in 0..n
      BY <1>1, <1>5
    <2>2. g[i] = f[i]
      BY <2>1, <1>2, <1>3
    <2> QED  BY <2>1, <2>2
  <1>6. 0..n \subseteq T
    <2> HIDE DEF T
    <2> QED  BY <1>1, <1>4, <1>5, BoundedInduction
  <1>7. g[n] = f[n] /\ g[n + 1] = ApplyEvent(g[n], es2[n + 1])
    <2>1. n \in 0..n /\ n + 1 \in 1..(n + 1) /\ (n + 1) - 1 = n
      BY <1>1
    <2> QED  BY <2>1, <1>3, <1>6
  <1> QED  BY <1>1, <1>7 DEF Drained, f, es2, g, n

\* What holds of the session, and is kept by every event, holds after all of them.
LEMMA DrainedKeeps ==
  ASSUME NEW S \in SUBSET Browsers, NEW b \in S, NEW es \in Seq(Events),
         \A s \in S : \A i \in 1..Len(es) : ApplyEvent(s, es[i]) \in S
  PROVE  Drained(b, es) \in S
  <1> DEFINE f == AfterEvents(b, es)
             T == {i \in 0..Len(es) : f[i] \in S}
  <1>1. f[0] = b /\ \A i \in 1..Len(es) : f[i] = ApplyEvent(f[i - 1], es[i])
    BY AfterEventsStep
  <1> HIDE DEF f
  <1>2. 0 \in T
    BY <1>1
  <1>3. ASSUME NEW i \in 1..Len(es), i - 1 \in T PROVE i \in T
    BY <1>1, <1>3
  <1>4. Len(es) \in Nat
    OBVIOUS
  <1>5. 0..Len(es) \subseteq T
    <2> HIDE DEF T
    <2> QED  BY <1>2, <1>3, <1>4, BoundedInduction
  <1> QED  BY <1>4, <1>5 DEF Drained, f

-----------------------------------------------------------------------------
(***************************************************************************)
(* The types.                                                              *)
(***************************************************************************)
LEMMA PlainEvents ==
  /\ NoPage \in Pages
  /\ NoEvent \in Events /\ Failure \in Events
  /\ Event("result", NoPage, NoUrl) \in Events
  /\ Event("shutdown", NoPage, NoUrl) \in Events
  /\ \A k \in Scripts : Event("result", NoPage, k) \in Events
  /\ \A u, t \in Texts : PageEvent(u, t) \in Events
  BY DEF NoPage, Pages, NoEvent, Failure, Event, Events, PageEvent, Texts

LEMMA PlainCommands ==
  /\ \A u \in Urls : Command("open", u) \in Commands /\ Command("navigate", u) \in Commands
  /\ Command("snapshot", NoUrl) \in Commands
  /\ Command("shutdown", NoUrl) \in Commands
  /\ Command("resize", NoUrl) \in Commands
  /\ \A a \in History \cup Scripts : Command("action", a) \in Commands
  /\ \A i \in Inputs : Command("input", i) \in Commands
  BY DEF Command, Commands

LEMMA WorkerForm ==
  ASSUME NEW w \in Workers
  PROVE  /\ w = [pc |-> w.pc, cmd |-> w.cmd, out |-> w.out]
         /\ w.cmd \in Commands \cup {Command("none", NoUrl)}
         /\ w.out \in Events
         /\ \A e \in Events : \A pc \in {"polling", "sending"} :
              [w EXCEPT !.pc = pc, !.out = e] \in Workers
         /\ \A c \in Commands : \A e \in Events :
              [w EXCEPT !.pc = "sending", !.cmd = c, !.out = e] \in Workers
         /\ \A c \in Commands : \A pc \in {"reading", "evaluating"} :
              [w EXCEPT !.pc = pc, !.cmd = c] \in Workers
         /\ \A pc \in {"sending", "waking"} : [w EXCEPT !.pc = pc] \in Workers
  BY DEF Workers

LEMMA StoppedForm ==
  ASSUME NEW pc \in {"none", "idle", "reading", "ended", "dead"}
  PROVE  [StoppedWorker EXCEPT !.pc = pc] \in Workers
  BY PlainEvents DEF StoppedWorker, Workers

LEMMA InitType == Init => TypeOK
  <1> SUFFICES ASSUME Init PROVE TypeOK
    OBVIOUS
  <1>1. browser \in Browsers
    BY PlainEvents DEF Init, Idle, Browsers, Texts, Statuses
  <1>2. worker \in Workers
    BY PlainEvents DEF Init, StoppedWorker, Workers
  <1>3. view \in Views /\ nav \in Navs
    BY DEF Init, BlankView, NewNav, Views, Navs, Texts
  <1>4. commands \in Seq(Commands) /\ events \in Seq(Events)
    BY DEF Init
  <1>5. engine \in {"native", "text"} /\ tab \in Texts /\ target \in Texts
    BY EnginesAssumption DEF Init, Texts
  <1> QED  BY <1>1, <1>2, <1>3, <1>4, <1>5 DEF Init, TypeOK

LEMMA QueueType ==
  ASSUME commands \in Seq(Commands), NEW c \in Commands, Queue(c)
  PROVE  commands' \in Seq(Commands)
  BY DEF Queue

LEMMA TakeType ==
  ASSUME commands \in Seq(Commands), Take
  PROVE  /\ commands' \in Seq(Commands) /\ Head(commands) \in Commands
         /\ Head(commands) = commands[1] /\ Len(commands) >= 1
         /\ Len(commands') = Len(commands) - 1
         /\ \A i \in 1..Len(commands') : commands'[i] = commands[i + 1]
  BY DEF Take

\* A session after an edit, field by field.
Same(b, c, open, url, status) ==
  /\ c \in Browsers
  /\ c.open = open /\ c.url = url /\ c.status = status
  /\ c.title = b.title /\ c.page = b.page

LEMMA Edited ==
  ASSUME NEW b \in Browsers
  PROVE  /\ \A x \in Statuses : Same(b, [b EXCEPT !.status = x], b.open, b.url, x)
         /\ \A x \in Texts : Same(b, [b EXCEPT !.url = x], b.open, x, b.status)
         /\ \A x \in Texts : Same(b, [b EXCEPT !.open = TRUE, !.url = x], TRUE, x, b.status)
  BY DEF Browsers, Same

LEMMA Marked ==
  ASSUME NEW b \in Browsers, NEW u \in Texts
  PROVE  /\ Same(b, MarkLoading(b), b.open, b.url, "loading")
         /\ Same(b, NavigateTo(b, u), b.open, u, "loading")
  <1>1. "loading" \in Statuses
    BY DEF Statuses
  <1>2. Same(b, MarkLoading(b), b.open, b.url, "loading")
    BY <1>1, Edited DEF MarkLoading
  <1> DEFINE c == [b EXCEPT !.url = u]
  <1>3. Same(b, c, b.open, u, b.status)
    BY Edited
  <1>4. NavigateTo(b, u) = [c EXCEPT !.status = "loading"]
    BY DEF MarkLoading, NavigateTo
  <1> HIDE DEF c
  <1>5. Same(c, NavigateTo(b, u), c.open, c.url, "loading")
    <2>1. c \in Browsers
      BY <1>3 DEF Same
    <2> QED  BY <1>1, <1>4, <2>1, Edited
  <1> QED  BY <1>2, <1>3, <1>5 DEF Same

LEMMA IdleForm == Idle \in Browsers /\ ~Idle.open /\ Idle.page = NoPage
  BY PlainEvents DEF Idle, Browsers, Statuses, Texts

LEMMA FreshForm ==
  ASSUME NEW u \in Texts
  PROVE  Same(Idle, Fresh(u), TRUE, u, "loading")
  <1> DEFINE c == [Idle EXCEPT !.open = TRUE, !.url = u]
  <1>1. Same(Idle, c, TRUE, u, Idle.status) /\ "loading" \in Statuses
    BY IdleForm, Edited DEF Statuses
  <1>2. Fresh(u) = [c EXCEPT !.status = "loading"]
    BY DEF Fresh, MarkLoading
  <1> HIDE DEF c
  <1>3. Same(c, Fresh(u), c.open, c.url, "loading")
    <2>1. c \in Browsers
      BY <1>1 DEF Same
    <2> QED  BY <1>1, <1>2, <2>1, Edited
  <1> QED  BY <1>1, <1>3 DEF Same

LEMMA UserType ==
  ASSUME TypeOK, UserStep
  PROVE  TypeOK'
  <1> USE PlainCommands
  <1>0. Urls \subseteq Texts /\ NoUrl \in Texts /\ Homes \subseteq Urls
    BY UrlsAssumption DEF Texts
  <1>1. ASSUME NEW u \in Homes, NEW more \in {<<>>, <<Command("snapshot", NoUrl)>>},
               OpenTab(u, more)
        PROVE  TypeOK'
    <2>1. u \in Urls /\ more \in Seq(Commands) /\ <<Command("open", u)>> \in Seq(Commands)
      <3>1. \A c \in Commands : <<c>> \in Seq(Commands) /\ <<>> \in Seq(Commands)
        OBVIOUS
      <3> QED  BY <1>0, <3>1
    <2>2. commands' \in Seq(Commands)
      BY <2>1, <1>1, ConcatProperties DEF OpenTab
    <2>3. browser' \in Browsers /\ tab' \in Texts /\ target' \in Texts
      BY <2>1, <1>0, <1>1, FreshForm DEF OpenTab, Same
    <2>4. worker' \in Workers
      BY <1>1, StoppedForm DEF OpenTab
    <2> QED  BY <1>1, <2>2, <2>3, <2>4 DEF OpenTab, backend, TypeOK
  <1>2. ASSUME NEW u \in Urls, Navigate(u) PROVE TypeOK'
    <2>1. commands' \in Seq(Commands)
      BY <1>2, QueueType DEF Navigate, TypeOK
    <2>2. browser' \in Browsers /\ tab' \in Texts /\ target' \in Texts
      BY <1>0, <1>2, Marked DEF Navigate, TypeOK, Same
    <2> QED  BY <1>2, <2>1, <2>2 DEF Navigate, backend, TypeOK
  <1>3. ASSUME NEW a \in History \cup Scripts, ApplyAction(a) PROVE TypeOK'
    <2>1. commands' \in Seq(Commands)
      BY <1>3, QueueType DEF ApplyAction, TypeOK
    <2>2. browser' \in Browsers /\ target' \in Texts
      BY <1>0, <1>3, Marked DEF ApplyAction, TypeOK, Same
    <2> QED  BY <1>3, <2>1, <2>2 DEF ApplyAction, backend, TypeOK
  <1>4. ASSUME NEW i \in Inputs, SendInput("input", i) PROVE TypeOK'
    <2>1. commands' \in Seq(Commands)
      BY <1>4, QueueType DEF SendInput, TypeOK
    <2> QED  BY <1>4, <2>1 DEF SendInput, ui, backend, TypeOK
  <1>5. CASE SendInput("resize", NoUrl)
    <2>1. commands' \in Seq(Commands)
      BY <1>5, QueueType DEF SendInput, TypeOK
    <2> QED  BY <1>5, <2>1 DEF SendInput, ui, backend, TypeOK
  <1>6. CASE CloseTab
    <2>1. browser' \in Browsers
      BY <1>6, IdleForm DEF CloseTab
    <2>2. commands' \in Seq(Commands) /\ events' \in Seq(Events)
      BY <1>6 DEF CloseTab, TypeOK
    <2> QED  BY <1>0, <1>6, <2>1, <2>2 DEF CloseTab, backend, TypeOK
  <1> QED  BY <1>1, <1>2, <1>3, <1>4, <1>5, <1>6 DEF UserStep

LEMMA UiType ==
  ASSUME TypeOK, UiLoop
  PROVE  TypeOK'
  <1>1. CASE WakeUp
    BY <1>1 DEF WakeUp, ui, backend, TypeOK
  <1>2. CASE Drain
    <2>1. browser' \in Browsers
      <3>1. \A s \in Browsers : \A i \in 1..Len(events) : ApplyEvent(s, events[i]) \in Browsers
        BY EventApplied, ElementOfSeq DEF TypeOK
      <3> QED  BY <1>2, <3>1, DrainedKeeps DEF Drain, TypeOK
    <2>2. tab' \in Texts
      <3>1. browser'.url \in Texts
        BY <2>1 DEF Browsers
      <3> QED  BY <1>2, <3>1 DEF Drain, SyncTab, TypeOK
    <2>3. events' \in Seq(Events)
      BY <1>2 DEF Drain
    <2> QED  BY <1>2, <2>1, <2>2, <2>3 DEF Drain, backend, TypeOK
  <1> QED  BY <1>1, <1>2 DEF UiLoop

LEMMA ViewForm ==
  ASSUME NEW v \in Views, NEW u \in Texts
  PROVE  /\ v.url \in Texts /\ v.title \in Texts
         /\ v = [url |-> v.url, title |-> v.title, loading |-> v.loading, there |-> v.there]
         /\ LoadRequest(v, u) \in Views
         /\ LoadRequest(v, u).url = u
         /\ [v EXCEPT !.url = u] \in Views
         /\ \A l \in BOOLEAN : [v EXCEPT !.loading = l] \in Views
         /\ [v EXCEPT !.loading = FALSE, !.title = v.url] \in Views
         /\ [v EXCEPT !.there = FALSE] \in Views
  BY DEF Views, LoadRequest

LEMMA OperateType ==
  ASSUME TypeOK, Operate
  PROVE  TypeOK'
  <1> DEFINE c == Head(commands)
  <1>0. Take /\ view \in Views /\ worker \in Workers /\ nav \in Navs /\ commands \in Seq(Commands)
    BY DEF Operate, TypeOK
  <1>1. c \in Commands /\ commands' \in Seq(Commands)
    BY <1>0, TakeType
  <1>2. PICK n \in {"reading", "result", "error"} :
          /\ IF engine = "native" THEN NativeStep(c, view', n) ELSE TextStep(c, view', n)
          /\ worker' = After(n)
    BY DEF Operate
  <1>3. c.kind \in {"open", "navigate"} => c.arg \in Texts
    BY <1>1 DEF Commands, Texts
  <1> HIDE DEF c
  <1>4. view' \in Views
    <2>1. Urls \subseteq Texts /\ NoUrl \in Texts
      BY DEF Texts
    <2>2. CASE LoadStep(c, view', n)
      BY <2>2, <1>0, <1>3, ViewForm DEF LoadStep
    <2>3. CASE HistoryStep(c, view', n)
      <3>1. CASE view' = [view EXCEPT !.loading = view.url # NoUrl]
        <4>1. PICK l \in BOOLEAN : l = (view.url # NoUrl)
          OBVIOUS
        <4>2. [view EXCEPT !.loading = l] \in Views
          BY <1>0, <2>1, ViewForm
        <4> QED  BY <3>1, <4>1, <4>2
      <3>2. CASE view' \in {view} \cup {LoadRequest(view, u) : u \in Urls \ BadUrls}
        <4>1. \A u \in Urls : LoadRequest(view, u) \in Views
          BY <1>0, <2>1, ViewForm
        <4> QED  BY <3>2, <4>1, <1>0
      <3> QED  BY <2>3, <3>1, <3>2 DEF HistoryStep
    <2>4. CASE view' = view
      BY <2>4, <1>0
    <2>5. CASE view' = [view EXCEPT !.url = c.arg] /\ c.kind \in {"open", "navigate"}
      BY <2>5, <1>0, <1>3, ViewForm
    <2> QED  BY <1>2, <2>2, <2>3, <2>4, <2>5 DEF NativeStep, TextStep
  <1>5. nav' \in Navs
    <2>1. nav' = nav \/ nav' = [nav EXCEPT !.loaded = FALSE]
      BY <1>2 DEF NativeStep, TextStep, LoadStep, HistoryStep
    <2> QED  BY <1>0, <2>1 DEF Navs
  <1>6. worker' \in Workers
    BY <1>0, <1>1, <1>2, WorkerForm, PlainEvents DEF After, c
  <1> QED  BY <1>1, <1>4, <1>5, <1>6 DEF Operate, ui, counts, TypeOK

LEMMA WorkerType ==
  ASSUME TypeOK, WorkerStep
  PROVE  TypeOK'
  <1>0. worker \in Workers /\ view \in Views /\ nav \in Navs /\ commands \in Seq(Commands)
        /\ events \in Seq(Events)
    BY DEF TypeOK
  <1>1. CASE Evaluate
    <2>1. /\ commands' \in Seq(Commands) /\ worker' \in Workers
          /\ scripts' \in SUBSET Scripts
      BY <1>0, <1>1, TakeType, WorkerForm DEF Evaluate, TypeOK
    <2> QED  BY <1>1, <2>1 DEF Evaluate, ui, counts, TypeOK
  <1>2. CASE Shutdown
    <2>1. commands' \in Seq(Commands) /\ worker' \in Workers
      BY <1>0, <1>2, TakeType, WorkerForm, PlainEvents DEF Shutdown
    <2> QED  BY <1>2, <2>1 DEF Shutdown, ui, backend, counts, TypeOK
  <1>3. CASE EvaluationTimesOut
    <2>1. worker' \in Workers
      BY <1>0, <1>3, WorkerForm, PlainEvents DEF EvaluationTimesOut
    <2> QED  BY <1>3, <2>1 DEF EvaluationTimesOut, ui, backend, counts, TypeOK
  <1>4. CASE ReadPage
    <2>1. view.url \in Texts /\ nav.title \in Texts /\ NoUrl \in Texts
      BY <1>0 DEF Views, Navs, Texts
    <2>2. worker' \in Workers
      <3>1. CASE ReadView
        BY <1>0, <2>1, <3>1, WorkerForm, PlainEvents DEF ReadView, Read
      <3>2. CASE FetchPage
        <4>1. PICK e \in {Failure} \cup {PageEvent(view.url, title) : title \in TitlesOf(view.url)} :
                worker' = [worker EXCEPT !.pc = "sending", !.out = e]
          BY <3>2 DEF FetchPage, Read
        <4>2. e \in Events
          BY <2>1, PlainEvents DEF TitlesOf
        <4> QED  BY <1>0, <4>1, <4>2, WorkerForm
      <3> QED  BY <1>4, <3>1, <3>2 DEF ReadPage
    <2> QED  BY <1>4, <2>2 DEF ReadPage, ui, backend, counts, TypeOK
  <1>5. CASE Poll
    <2>1. worker' \in Workers
      BY <1>0, <1>5, WorkerForm DEF Poll
    <2>2. nav' \in Navs
      BY <1>0, <1>5 DEF Poll, Finished, Started, Navs, Views, Texts
    <2> QED  BY <1>5, <2>1, <2>2 DEF Poll, ui, counts, TypeOK
  <1>6. CASE SendEvent
    <2>1. worker' \in Workers /\ worker.out \in Events
      BY <1>0, <1>6, WorkerForm DEF SendEvent
    <2>2. events' \in Seq(Events)
      BY <1>0, <1>6, <2>1 DEF SendEvent
    <2> QED  BY <1>6, <2>1, <2>2 DEF SendEvent, ui, backend, counts, TypeOK
  <1>7. CASE SendWake
    <2>1. worker' \in Workers
      BY <1>7, StoppedForm DEF SendWake, NextPc
    <2> QED  BY <1>7, <2>1 DEF SendWake, ui, backend, counts, TypeOK
  <1>8. CASE DestroyView
    BY <1>0, <1>8, ViewForm DEF DestroyView, ui, counts, TypeOK, Texts
  <1>9. CASE Operate
    BY <1>9, OperateType
  <1> QED  BY <1>1, <1>2, <1>3, <1>4, <1>5, <1>6, <1>7, <1>8, <1>9 DEF WorkerStep

LEMMA PageType ==
  ASSUME TypeOK, ViewStep \/ WorkerPanics
  PROVE  TypeOK'
  <1>0. worker \in Workers /\ view \in Views /\ Urls \subseteq Texts /\ NoUrl \in Texts
    BY DEF TypeOK, Texts
  <1>1. CASE PageFinishes
    BY <1>0, <1>1, ViewForm DEF PageFinishes, ui, counts, TypeOK
  <1>2. ASSUME NEW u \in Urls \ BadUrls, PageMoves(u) PROVE TypeOK'
    <2>1. view' \in Views /\ target' \in Texts
      BY <1>0, <1>2, ViewForm DEF PageMoves
    <2> QED  BY <1>2, <2>1 DEF PageMoves, ui, TypeOK
  <1>3. ASSUME NEW k \in Scripts, ScriptCompletes(k) PROVE TypeOK'
    <2>1. worker' \in Workers
      <3>1. CASE AnswersScript(k)
        <4>1. PICK e \in {Event("result", NoPage, k), Failure} :
                worker' = [worker EXCEPT !.pc = "sending", !.out = e]
          BY <1>3, <3>1 DEF ScriptCompletes
        <4>2. e \in Events
          BY PlainEvents
        <4> QED  BY <1>0, <4>1, <4>2, WorkerForm
      <3>2. CASE ~AnswersScript(k)
        BY <1>0, <1>3, <3>2 DEF ScriptCompletes
      <3> QED  BY <3>1, <3>2
    <2> QED  BY <1>3, <2>1 DEF ScriptCompletes, ui, counts, TypeOK
  <1>4. CASE WorkerPanics
    <2>1. worker' \in Workers /\ commands' \in Seq(Commands)
      BY <1>4, StoppedForm DEF WorkerPanics
    <2> QED  BY <1>4, <2>1 DEF WorkerPanics, ui, backend, counts, TypeOK
  <1> QED  BY <1>1, <1>2, <1>3, <1>4 DEF ViewStep

LEMMA NextType == ASSUME TypeOK, [Next]_vars PROVE TypeOK'
  <1>1. CASE UNCHANGED vars
    BY <1>1 DEF vars, TypeOK
  <1> QED  BY <1>1, UserType, UiType, WorkerType, PageType DEF Next

\* Every variable stays in its type, the sequences of any length among them.
THEOREM TypeIsKept == Spec => []TypeOK
  BY InitType, NextType, PTL DEF Spec

-----------------------------------------------------------------------------
(***************************************************************************)
(* The scripts.                                                            *)
(***************************************************************************)
\* The worker waits for a script only, the one it was asked for.
ScriptIsAsked == worker.pc = "evaluating" => worker.cmd \in [kind : {"action"}, arg : Scripts]

\* What each step does to the worker, as far as these proofs tell it apart.
WorkerStays == worker' = worker
WorkerWaits ==
  /\ worker'.pc = "evaluating"
  /\ worker'.out = worker.out
WorkerEndsWait ==
  /\ worker.pc = "evaluating"
  /\ worker'.pc = "sending"
  /\ worker'.cmd = worker.cmd
  /\ worker'.out.value \in {NoUrl, worker.cmd.arg}
WorkerWorks ==
  /\ worker'.pc # "evaluating"
  /\ worker'.out = worker.out \/ worker'.out.value = NoUrl

LEMMA NextWorker ==
  ASSUME TypeOK, ScriptIsAsked, [Next]_vars
  PROVE  /\ ScriptIsAsked'
         /\ WorkerStays \/ WorkerWaits \/ WorkerEndsWait \/ WorkerWorks
  <1> DEFINE Kept == /\ ScriptIsAsked'
                     /\ WorkerStays \/ WorkerWaits \/ WorkerEndsWait \/ WorkerWorks
  <1> SUFFICES Kept
    OBVIOUS
  <1>0. /\ worker = [pc |-> worker.pc, cmd |-> worker.cmd, out |-> worker.out]
        /\ commands \in Seq(Commands)
    BY WorkerForm DEF TypeOK
  <1> USE <1>0 DEF ScriptIsAsked
  <1>1. CASE worker' = worker
    BY <1>1 DEF WorkerStays
  <1>2. CASE UserStep
    <2>1. ASSUME NEW u \in Homes, NEW more, OpenTab(u, more)
          PROVE  Kept
      <3>1. worker' = [pc |-> "idle", cmd |-> Command("none", NoUrl), out |-> NoEvent]
        BY <2>1 DEF OpenTab, StoppedWorker
      <3> QED  BY <3>1 DEF WorkerWorks, NoEvent, Event
    <2> QED  BY <1>1, <1>2, <2>1 DEF UserStep, Navigate, ApplyAction, SendInput, CloseTab
  <1>3. CASE UiLoop
    BY <1>3, <1>1 DEF UiLoop, WakeUp, Drain
  <1>4. CASE WorkerStep
    <2>1. CASE Operate
      <3>1. PICK n \in {"reading", "result", "error"} : worker' = After(n)
        BY <2>1 DEF Operate
      <3> QED  BY <2>1, <3>1, TakeType DEF Operate, After, WorkerWorks, Failure, Event
    <2>2. CASE Evaluate
      BY <2>2, TakeType DEF Evaluate, WorkerWaits, Commands
    <2>3. CASE Shutdown
      BY <2>3, TakeType DEF Shutdown, WorkerWorks, Event
    <2>4. CASE EvaluationTimesOut
      BY <2>4 DEF EvaluationTimesOut, WorkerEndsWait, Failure, Event
    <2>5. CASE ReadPage
      <3>1. commands' = commands
        BY <2>5 DEF ReadPage
      <3>2. ASSUME NEW pc \in {"polling", "sending"}, NEW e, e.value = NoUrl, Read(e, pc)
            PROVE  Kept
        BY <3>1, <3>2 DEF Read, WorkerWorks
      <3>3. CASE ReadView
        BY <3>2, <3>3 DEF ReadView, PageEvent, Event
      <3>4. CASE FetchPage
        <4>1. PICK e \in {Failure} \cup {PageEvent(view.url, title) : title \in TitlesOf(view.url)} :
                Read(e, "sending")
          BY <3>4 DEF FetchPage
        <4>2. e.value = NoUrl
          BY DEF PageEvent, Failure, Event
        <4> QED  BY <3>2, <4>1, <4>2
      <3> QED  BY <2>5, <3>3, <3>4 DEF ReadPage
    <2>6. CASE Poll
      BY <2>6 DEF Poll, WorkerWorks
    <2>7. CASE SendEvent
      BY <2>7 DEF SendEvent, WorkerWorks
    <2>8. CASE SendWake
      BY <2>8 DEF SendWake, NextPc, StoppedWorker, NoEvent, Event, WorkerWorks
    <2>9. CASE DestroyView
      BY <2>9, <1>1 DEF DestroyView
    <2> QED  BY <1>4, <2>1, <2>2, <2>3, <2>4, <2>5, <2>6, <2>7, <2>8, <2>9 DEF WorkerStep
  <1>5. CASE ViewStep
    <2>1. ASSUME NEW k \in Scripts, ScriptCompletes(k), AnswersScript(k)
          PROVE  Kept
      <3>1. PICK e \in {Event("result", NoPage, k), Failure} :
              worker' = [worker EXCEPT !.pc = "sending", !.out = e]
        BY <2>1 DEF ScriptCompletes
      <3>2. e.value \in {NoUrl, k}
        BY DEF Failure, Event
      <3> QED  BY <2>1, <3>1, <3>2 DEF ScriptCompletes, AnswersScript, WorkerEndsWait
    <2>2. ASSUME NEW k \in Scripts, ScriptCompletes(k), ~AnswersScript(k)
          PROVE  Kept
      BY <2>2, <1>1 DEF ScriptCompletes
    <2>3. CASE PageFinishes \/ \E u \in Urls \ BadUrls : PageMoves(u)
      BY <2>3, <1>1 DEF PageFinishes, PageMoves
    <2> QED  BY <1>5, <2>1, <2>2, <2>3 DEF ViewStep
  <1>6. CASE WorkerPanics
    BY <1>6 DEF WorkerPanics, StoppedWorker, NoEvent, Event, WorkerWorks
  <1>7. CASE UNCHANGED vars
    BY <1>7, <1>1 DEF vars
  <1> QED  BY <1>2, <1>3, <1>4, <1>5, <1>6, <1>7 DEF Next

LEMMA ScriptInvariant == Spec => [](TypeOK /\ ScriptIsAsked)
  <1>1. Init => TypeOK /\ ScriptIsAsked
    BY InitType DEF Init, ScriptIsAsked, StoppedWorker
  <1>2. TypeOK /\ ScriptIsAsked /\ [Next]_vars => (TypeOK /\ ScriptIsAsked)'
    BY NextType, NextWorker
  <1> QED  BY <1>1, <1>2, PTL DEF Spec

\* The result a worker sends is that of the script it was asked for, or none.
THEOREM ResultsAreOwn == Spec => ResultIsItsOwn
  <1>1. TypeOK /\ ScriptIsAsked /\ [Next]_vars
          => [\A k \in Scripts : worker'.out.value = k /\ worker.out.value # k
                                   => worker'.cmd = Command("action", k)]_vars
    <2> SUFFICES ASSUME TypeOK, ScriptIsAsked, [Next]_vars, NEW k \in Scripts,
                        worker'.out.value = k, worker.out.value # k
                 PROVE  worker'.cmd = Command("action", k)
      OBVIOUS
    <2>1. WorkerEndsWait
      BY NextWorker, ScriptsAssumption DEF WorkerStays, WorkerWaits, WorkerWorks
    <2> QED  BY <2>1, ScriptsAssumption DEF WorkerEndsWait, ScriptIsAsked, Command
  <1> QED  BY <1>1, ScriptInvariant, PTL DEF Spec, ResultIsItsOwn

-----------------------------------------------------------------------------
LEMMA NextWakes ==
  ASSUME TypeOK, NoLostWakeup, [Next]_vars
  PROVE  NoLostWakeup'
  <1>0. worker = [pc |-> worker.pc, cmd |-> worker.cmd, out |-> worker.out]
    BY WorkerForm DEF TypeOK
  <1> USE <1>0 DEF NoLostWakeup
  <1>1. CASE SendEvent
    BY <1>1 DEF SendEvent
  <1>2. CASE SendWake \/ WakeUp \/ Drain
    BY <1>2 DEF SendWake, WakeUp, Drain
  <1>3. CASE UNCHANGED <<events, wake, loop>> /\ worker.pc # "waking"
    BY <1>3
  <1>4. CASE UNCHANGED <<events, wake, loop, worker>>
    BY <1>4
  <1>5. CASE events' = <<>>
    BY <1>5
  <1>6. CASE UserStep
    BY <1>6, <1>3, <1>4, <1>5
    DEF UserStep, OpenTab, Navigate, CloseTab, ApplyAction, SendInput
  <1>7. CASE WorkerStep
    BY <1>7, <1>1, <1>2, <1>3, <1>4
    DEF WorkerStep, Operate, Take, Evaluate, Shutdown, EvaluationTimesOut, ReadPage, Poll,
        DestroyView
  <1>8. CASE ViewStep
    BY <1>8, <1>3, <1>4 DEF ViewStep, PageFinishes, PageMoves, ScriptCompletes, AnswersScript
  <1>9. CASE WorkerPanics
    BY <1>9, <1>3 DEF WorkerPanics
  <1>10. CASE UNCHANGED vars
    BY <1>10, <1>4 DEF vars
  <1> QED  BY <1>2, <1>6, <1>7, <1>8, <1>9, <1>10 DEF Next, UiLoop

\* An answer of the worker is always drained without another one to wake the UI.
THEOREM WakeupsAreKept == Spec => []NoLostWakeup
  <1>1. Init => NoLostWakeup
    BY DEF Init, NoLostWakeup
  <1> QED  BY <1>1, TypeIsKept, NextWakes, PTL DEF Spec

-----------------------------------------------------------------------------
(***************************************************************************)
(* The session, its page and the page asked for.                           *)
(***************************************************************************)
\* A command that leaves the page where it is.
StaysOnPage(c) == c.kind \in {"snapshot", "input", "resize"} \/ (c.kind = "action" /\ c.arg = "reload")
StayFrom(i) == \A j \in i..Len(commands) : StaysOnPage(commands[j])

\* A session that is loaded is at the page u.
Shows(b, u) == b.status = "loaded" => b.url = u

\* The command that asks for u waits, and none behind it leaves the page.
Waits(u) ==
  \E i \in 1..Len(commands) :
    /\ commands[i].kind \in {"open", "navigate"} /\ commands[i].arg = u
    /\ StayFrom(i + 1)

\* The view is at u, and the worker reads it there, or has read it.
IsThere(u) ==
  /\ view.url = u
  /\ StayFrom(1)
  /\ worker.pc \in {"polling", "sending"} =>
       \/ worker.out.kind \in {"error", "result"}
       \/ worker.out.kind = "snapshot" /\ worker.out.page.url = u
  /\ worker.pc = "idle" \/ (worker.pc = "waking" /\ worker.out.kind # "result")
       => Shows(Drained(browser, events), u)

TargetIsReached ==
  \A u \in Urls \ BadUrls :
    browser.open /\ worker.pc # "dead" /\ target = u => Waits(u) \/ IsThere(u)

LEMMA DrainedMarked ==
  ASSUME NEW b \in Browsers, NEW es \in Seq(Events), NEW u \in Texts, Shows(Drained(b, es), u)
  PROVE  Shows(Drained(MarkLoading(b), es), u)
  <1> DEFINE c == MarkLoading(b)
             f == AfterEvents(b, es)
             g == AfterEvents(c, es)
             n == Len(es)
             Like(i) == g[i].status = "loaded" => f[i].status = "loaded" /\ f[i].url = g[i].url
             T == {i \in 0..n : Like(i)}
  <1>1. c \in Browsers /\ c.status = "loading" /\ n \in Nat
    BY Marked DEF Same
  <1>2. /\ f \in [0..n -> Browsers] /\ f[0] = b
        /\ \A i \in 1..n : f[i] = ApplyEvent(f[i - 1], es[i])
    BY AfterEventsStep
  <1>3. /\ g \in [0..n -> Browsers] /\ g[0] = c
        /\ \A i \in 1..n : g[i] = ApplyEvent(g[i - 1], es[i])
    <2> HIDE DEF c
    <2> QED  BY <1>1, AfterEventsStep
  <1> HIDE DEF c, f, g
  <1>4. 0 \in T
    BY <1>1, <1>3
  <1>5. ASSUME NEW i \in 1..n, i - 1 \in T PROVE i \in T
    <2>1. f[i - 1] \in Browsers /\ g[i - 1] \in Browsers /\ es[i] \in Events /\ Like(i - 1)
      <3>1. i - 1 \in 0..n
        BY <1>1
      <3> QED  BY <3>1, <1>2, <1>3, <1>5, ElementOfSeq
    <2>2. f[i] = ApplyEvent(f[i - 1], es[i]) /\ g[i] = ApplyEvent(g[i - 1], es[i])
      BY <1>2, <1>3
    <2>3. CASE es[i].kind = "snapshot"
      <3>1. \A s \in Browsers : /\ ApplyEvent(s, es[i]).status = "loaded"
                               /\ ApplyEvent(s, es[i]).url = es[i].page.url
        BY <2>1, <2>3, EventApplied
      <3> QED  BY <2>1, <2>2, <3>1
    <2>4. CASE es[i].kind = "error"
      <3>1. g[i] = [g[i - 1] EXCEPT !.status = "failed"]
        BY <2>1, <2>2, <2>4, EventApplied
      <3>2. g[i].status = "failed"
        BY <2>1, <3>1 DEF Browsers
      <3> QED  BY <3>2
    <2>5. CASE es[i].kind \notin {"snapshot", "error"}
      <3>1. f[i] = f[i - 1] /\ g[i] = g[i - 1]
        BY <2>1, <2>2, <2>5, EventApplied
      <3> QED  BY <2>1, <3>1
    <2> QED  BY <2>3, <2>4, <2>5
  <1>6. 0..n \subseteq T
    <2> HIDE DEF T, n
    <2> QED  BY <1>1, <1>4, <1>5, BoundedInduction
  <1>7. Like(n)
    BY <1>1, <1>6
  <1> QED  BY <1>7 DEF Shows, Drained, f, g, c

IInv == TypeOK /\ TabFollowsSession /\ LoadedHasItsPage /\ TargetIsReached

LEMMA InitIInv == Init => IInv
  BY InitType DEF Init, Idle, IInv, TabFollowsSession, LoadedHasItsPage, TargetIsReached

LEMMA DrainKeepsSession ==
  ASSUME TypeOK, LoadedHasItsPage, Drain
  PROVE  LoadedHasItsPage' /\ browser'.open = browser.open /\ browser' \in Browsers
  <1> DEFINE S == {b \in Browsers : b.open = browser.open
                                     /\ (b.status = "loaded" => b.url = b.page.url)}
  <1>1. browser \in S
    BY DEF TypeOK, LoadedHasItsPage
  <1>2. ASSUME NEW b \in S, NEW e \in Events PROVE ApplyEvent(b, e) \in S
    <2>1. CASE e.kind = "snapshot"
      BY <2>1, EventApplied
    <2>2. CASE e.kind = "error"
      <3>1. ApplyEvent(b, e) = [b EXCEPT !.status = "failed"]
        BY <2>2, EventApplied
      <3>2. ApplyEvent(b, e).status = "failed"
        BY <3>1 DEF Browsers
      <3> QED  BY <3>2, EventApplied
    <2>3. CASE e.kind \notin {"snapshot", "error"}
      BY <2>3, EventApplied
    <2> QED  BY <2>1, <2>2, <2>3
  <1>3. \A b \in S : \A i \in 1..Len(events) : ApplyEvent(b, events[i]) \in S
    <2> HIDE DEF S
    <2> QED  BY <1>2, ElementOfSeq DEF TypeOK
  <1>4. Drained(browser, events) \in S
    <2>1. S \in SUBSET Browsers
      OBVIOUS
    <2> HIDE DEF S
    <2> QED  BY <1>1, <1>3, <2>1, DrainedKeeps DEF TypeOK
  <1> QED  BY <1>4 DEF Drain, LoadedHasItsPage

LEMMA NextSession ==
  ASSUME IInv, [Next]_vars
  PROVE  TabFollowsSession' /\ LoadedHasItsPage'
  <1> USE DEF IInv, TabFollowsSession, LoadedHasItsPage
  <1>0. Urls \subseteq Texts /\ NoUrl \in Texts /\ Homes \subseteq Urls /\ browser \in Browsers
    BY UrlsAssumption DEF Texts, TypeOK
  <1>1. CASE UNCHANGED <<browser, tab>>
    BY <1>1
  <1>2. ASSUME NEW u \in Homes, NEW more, OpenTab(u, more)
        PROVE  TabFollowsSession' /\ LoadedHasItsPage'
    BY <1>0, <1>2, FreshForm DEF OpenTab, Same
  <1>3. ASSUME NEW u \in Urls, Navigate(u)
        PROVE  TabFollowsSession' /\ LoadedHasItsPage'
    BY <1>0, <1>3, Marked DEF Navigate, Same
  <1>4. ASSUME NEW a, ApplyAction(a)
        PROVE  TabFollowsSession' /\ LoadedHasItsPage'
    BY <1>0, <1>4, Marked DEF ApplyAction, Same
  <1>5. CASE CloseTab
    BY <1>5 DEF CloseTab, Idle
  <1>6. CASE Drain
    BY <1>6, DrainKeepsSession DEF Drain, SyncTab
  <1>7. CASE UserStep
    BY <1>1, <1>2, <1>3, <1>4, <1>5, <1>7 DEF UserStep, SendInput, ui
  <1>8. CASE WakeUp \/ WorkerStep \/ ViewStep \/ WorkerPanics \/ UNCHANGED vars
    BY <1>1, <1>8
    DEF WakeUp, WorkerStep, Operate, Evaluate, Shutdown, EvaluationTimesOut, ReadPage, Poll,
        SendEvent, SendWake, DestroyView, ViewStep, PageFinishes, PageMoves, ScriptCompletes,
        WorkerPanics, ui, vars
  <1> QED  BY <1>6, <1>7, <1>8 DEF Next, UiLoop

\* What a queued or a taken command does to the wait for the page.
LEMMA QueuedBehind ==
  ASSUME TypeOK, NEW c \in Commands, StaysOnPage(c), commands' = Append(commands, c), NEW u
  PROVE  /\ Waits(u) => Waits(u)'
         /\ StayFrom(1) => StayFrom(1)'
  <1>1. /\ commands \in Seq(Commands) /\ Len(commands) \in Nat
        /\ Len(commands') = Len(commands) + 1
        /\ \A i \in 1..Len(commands) : commands'[i] = commands[i]
        /\ commands'[Len(commands) + 1] = c
    BY DEF TypeOK
  <1>2. ASSUME NEW i \in 1..(Len(commands) + 1), StayFrom(i) PROVE StayFrom(i)'
    BY <1>1, <1>2 DEF StayFrom, StaysOnPage
  <1>3. ASSUME NEW i \in 1..Len(commands), commands[i].kind \in {"open", "navigate"},
               commands[i].arg = u, StayFrom(i + 1)
        PROVE  Waits(u)'
    <2>1. i \in 1..Len(commands') /\ i + 1 \in 1..(Len(commands) + 1)
      BY <1>1
    <2> QED  BY <2>1, <1>1, <1>2, <1>3 DEF Waits
  <1>4. 1 \in 1..(Len(commands) + 1)
    BY <1>1
  <1> QED  BY <1>2, <1>3, <1>4 DEF Waits

LEMMA TakenFirst ==
  ASSUME TypeOK, Take, NEW u
  PROVE  /\ Waits(u) => \/ Waits(u)'
                        \/ /\ Head(commands).kind \in {"open", "navigate"}
                           /\ Head(commands).arg = u
                           /\ StayFrom(1)'
         /\ StayFrom(1) => StaysOnPage(Head(commands)) /\ StayFrom(1)'
  <1>1. /\ Head(commands) = commands[1] /\ Len(commands) >= 1 /\ Len(commands) \in Nat
        /\ Len(commands') = Len(commands) - 1
        /\ \A i \in 1..Len(commands') : commands'[i] = commands[i + 1]
    BY TakeType DEF TypeOK
  <1>2. ASSUME NEW i \in 1..(Len(commands) + 1), StayFrom(i + 1) PROVE StayFrom(i)'
    <2> SUFFICES ASSUME NEW j \in i..Len(commands') PROVE StaysOnPage(commands'[j])
      BY DEF StayFrom, StaysOnPage
    <2>1. j \in 1..Len(commands') /\ j + 1 \in (i + 1)..Len(commands)
      BY <1>1
    <2> QED  BY <2>1, <1>1, <1>2 DEF StayFrom
  <1>3. ASSUME NEW i \in 1..Len(commands), commands[i].kind \in {"open", "navigate"},
               commands[i].arg = u, StayFrom(i + 1), i # 1
        PROVE  Waits(u)'
    <2>1. i - 1 \in 1..Len(commands') /\ i \in 1..(Len(commands) + 1) /\ (i - 1) + 1 = i
      BY <1>1, <1>3
    <2>2. commands'[i - 1] = commands[i]
      BY <1>1, <2>1
    <2>3. StayFrom(i)'
      BY <1>2, <1>3, <2>1
    <2> QED  BY <2>1, <2>2, <2>3, <1>3 DEF Waits
  <1>4. StayFrom(2) => StayFrom(1)'
    <2>1. 1 \in 1..(Len(commands) + 1) /\ 1 + 1 = 2
      BY <1>1
    <2> QED  BY <1>2, <2>1
  <1>5. StayFrom(1) => StaysOnPage(Head(commands)) /\ StayFrom(2)
    BY <1>1 DEF StayFrom
  <1>6. Waits(u) => \/ Waits(u)'
                    \/ /\ commands[1].kind \in {"open", "navigate"}
                       /\ commands[1].arg = u
                       /\ StayFrom(2)
    <2> SUFFICES ASSUME NEW i \in 1..Len(commands), commands[i].kind \in {"open", "navigate"},
                        commands[i].arg = u, StayFrom(i + 1)
                 PROVE  Waits(u)' \/ (/\ commands[1].kind \in {"open", "navigate"}
                                      /\ commands[1].arg = u /\ StayFrom(2))
      BY DEF Waits
    <2>1. CASE i = 1
      <3>1. i + 1 = 2
        BY <2>1
      <3> QED  BY <2>1, <3>1
    <2>2. CASE i # 1
      BY <1>3, <2>2
    <2> QED  BY <2>1, <2>2
  <1> QED  BY <1>1, <1>4, <1>5, <1>6

\* The steps that leave the commands alone, and the worker's next answer.
LEMMA CommandsStay ==
  ASSUME commands' = commands, NEW u
  PROVE  (Waits(u) => Waits(u)') /\ (StayFrom(1) => StayFrom(1)')
  BY DEF Waits, StayFrom, StaysOnPage

LEMMA StaysThere ==
  ASSUME NEW u, IsThere(u), view'.url = view.url, worker' = worker, events' = events,
         StayFrom(1)', Shows(Drained(browser, events), u) => Shows(Drained(browser, events)', u)
  PROVE  IsThere(u)'
  BY DEF IsThere

\* The commands of a new session.
LEMMA OneAndPerhapsAnother ==
  ASSUME NEW S, NEW c \in S, NEW d \in S, NEW more \in {<<>>, <<d>>}
  PROVE  /\ Len(<<c>> \o more) \in Nat /\ Len(<<c>> \o more) >= 1 /\ (<<c>> \o more)[1] = c
         /\ \A j \in 2..Len(<<c>> \o more) : (<<c>> \o more)[j] = d
  <1>1. <<c>> \in Seq(S) /\ Len(<<c>>) = 1 /\ <<c>>[1] = c
    OBVIOUS
  <1>2. more \in Seq(S) /\ Len(more) \in {0, 1} /\ (Len(more) = 1 => more[1] = d)
    <2>1. CASE more = <<>>
      BY <2>1
    <2>2. CASE more = <<d>>
      BY <2>2
    <2> QED  BY <2>1, <2>2
  <1>3. /\ Len(<<c>> \o more) = 1 + Len(more)
        /\ \A j \in 1..(1 + Len(more)) :
             (<<c>> \o more)[j] = IF j <= 1 THEN <<c>>[j] ELSE more[j - 1]
    BY <1>1, <1>2, ConcatProperties
  <1> QED  BY <1>1, <1>2, <1>3

LEMMA NextTarget ==
  ASSUME IInv, [Next]_vars
  PROVE  TargetIsReached'
  <1> SUFFICES ASSUME NEW u \in Urls \ BadUrls, browser'.open, worker'.pc # "dead", target' = u
               PROVE  Waits(u)' \/ IsThere(u)'
    BY DEF TargetIsReached
  <1> DEFINE Goal == Waits(u)' \/ IsThere(u)'
  <1> SUFFICES Goal
    OBVIOUS
  <1>0. /\ TypeOK /\ worker \in Workers /\ view \in Views /\ browser \in Browsers
        /\ events \in Seq(Events) /\ commands \in Seq(Commands)
        /\ u \in Urls /\ u \in Texts /\ u \notin BadUrls /\ u # NoUrl
    BY UrlsAssumption DEF IInv, TypeOK, Texts
  <1>b. /\ browser.open /\ worker.pc # "dead" /\ target = u => Waits(u) \/ IsThere(u)
    BY <1>0 DEF IInv, TargetIsReached
  <1>1. ASSUME NEW v \in Homes, NEW more \in {<<>>, <<Command("snapshot", NoUrl)>>},
               OpenTab(v, more)
        PROVE  Goal
    <2> DEFINE c == Command("open", v)
    <2>1. commands' = <<c>> \o more /\ u = v
      BY <1>1 DEF OpenTab
    <2>2. /\ Len(commands') \in Nat /\ Len(commands') >= 1 /\ commands'[1] = c
          /\ \A j \in 2..Len(commands') : commands'[j] = Command("snapshot", NoUrl)
      <3>1. c \in Commands /\ Command("snapshot", NoUrl) \in Commands
        BY <1>0, <1>1, UrlsAssumption, PlainCommands
      <3> HIDE DEF c
      <3> QED  BY <2>1, <3>1, <1>1, OneAndPerhapsAnother
    <2>3. StayFrom(2)'
      BY <2>2 DEF StayFrom, StaysOnPage, Command
    <2>4. 1 \in 1..Len(commands') /\ c.kind = "open" /\ c.arg = u
      BY <2>1, <2>2 DEF Command
    <2>5. 1 + 1 = 2
      OBVIOUS
    <2> QED  BY <2>2, <2>3, <2>4, <2>5 DEF Waits
  <1>2. ASSUME NEW v \in Urls, Navigate(v)
        PROVE  Goal
    <2> DEFINE c == Command("navigate", v)
    <2>1. commands' = Append(commands, c) /\ u = v
      BY <1>2 DEF Navigate, Queue, WorkerRuns
    <2>2. PICK k : k = Len(commands) + 1 /\ k \in Nat
      BY <1>0
    <2>3. Len(commands') = k /\ k \in 1..k /\ commands'[k] = c
      BY <1>0, <2>1, <2>2
    <2>4. StayFrom(k + 1)'
      BY <2>2, <2>3 DEF StayFrom
    <2>5. c.kind = "navigate" /\ c.arg = u
      BY <2>1 DEF Command
    <2> HIDE DEF c
    <2> QED  BY <2>3, <2>4, <2>5 DEF Waits
  <1>3. ASSUME NEW c \in Commands, StaysOnPage(c), commands' = Append(commands, c),
               UNCHANGED <<worker, view, events>>, target = u, browser.open,
               browser' \in {browser, MarkLoading(browser)}
        PROVE  Goal
    <2>1. (Waits(u) => Waits(u)') /\ (StayFrom(1) => StayFrom(1)')
      BY <1>0, <1>3, QueuedBehind
    <2>2. Shows(Drained(browser, events), u) => Shows(Drained(browser, events)', u)
      BY <1>0, <1>3, DrainedMarked
    <2>3. IsThere(u) => IsThere(u)'
      BY <2>1, <2>2, <1>3, StaysThere DEF IsThere
    <2> QED  BY <2>1, <2>3, <1>b, <1>3
  <1>4. ASSUME NEW a \in History \cup Scripts, ApplyAction(a)
        PROVE  Goal
    <2>1. a = "reload" /\ target = u /\ commands' = Append(commands, Command("action", a))
      BY <1>0, <1>4 DEF ApplyAction, Queue, WorkerRuns
    <2> QED  BY <1>3, <1>4, <2>1, PlainCommands DEF ApplyAction, backend, StaysOnPage, Command
  <1>5. ASSUME NEW i \in Inputs, SendInput("input", i)
        PROVE  Goal
    BY <1>3, <1>5, PlainCommands
    DEF SendInput, Queue, WorkerRuns, ui, backend, StaysOnPage, Command
  <1>6. CASE SendInput("resize", NoUrl)
    BY <1>3, <1>6, PlainCommands
    DEF SendInput, Queue, WorkerRuns, ui, backend, StaysOnPage, Command
  <1>7. CASE UserStep
    BY <1>7, <1>1, <1>2, <1>4, <1>5, <1>6 DEF UserStep, CloseTab, Idle
  <1>8. CASE WakeUp
    <2>1. IsThere(u) => IsThere(u)'
      BY <1>8, CommandsStay, StaysThere DEF WakeUp, ui, backend, IsThere
    <2> QED  BY <1>8, <1>b, <2>1, CommandsStay DEF WakeUp, ui
  <1>9. CASE Drain
    <2>1. browser'.open = browser.open /\ browser' \in Browsers
      BY <1>0, <1>9, DrainKeepsSession DEF IInv
    <2>2. Drained(browser, events)' = Drained(browser, events)
      BY <1>9, <2>1, DrainedNone DEF Drain
    <2>3. IsThere(u) => IsThere(u)'
      BY <1>9, <2>2, CommandsStay DEF Drain, backend, IsThere, Shows
    <2> QED  BY <1>9, <1>b, <2>1, <2>3, CommandsStay DEF Drain
  \* The steps of the worker and of the page leave the session and what is asked for alone.
  <1> DEFINE Quiet == browser' = browser /\ target' = target /\ worker.pc # "dead"
  <1>10. ASSUME Quiet PROVE Waits(u) \/ IsThere(u)
    BY <1>10, <1>b
  <1> DEFINE c == Head(commands)
  <1>11. CASE Operate
    <2>1. PICK n \in {"reading", "result", "error"} :
            /\ IF engine = "native" THEN NativeStep(c, view', n) ELSE TextStep(c, view', n)
            /\ worker' = After(n)
      BY <1>11 DEF Operate
    <2>2. Take /\ Quiet
      BY <1>11 DEF Operate, Take, ui
    <2>3. /\ worker'.pc \in {"reading", "sending"}
          /\ worker'.pc = "sending" => worker'.out.kind \in {"error", "result"}
      BY <2>1, <1>0 DEF After, Failure, Event, Workers
    <2>4. CASE c.kind \in {"open", "navigate"} /\ c.arg = u /\ StayFrom(1)'
      <3>1. view'.url = u
        <4>1. CASE engine = "native"
          <5>1. LoadStep(c, view', n)
            BY <2>1, <2>4, <4>1 DEF NativeStep, HistoryStep
          <5>2. view' = LoadRequest(view, u)
            BY <2>4, <5>1, <1>0 DEF LoadStep
          <5> QED  BY <5>2, <1>0, ViewForm
        <4>2. CASE engine # "native"
          <5>1. view' = [view EXCEPT !.url = c.arg]
            BY <2>1, <2>4, <4>2, <1>0 DEF TextStep
          <5> QED  BY <5>1, <2>4, <1>0 DEF Views
        <4> QED  BY <4>1, <4>2
      <3> QED  BY <2>3, <2>4, <3>1 DEF IsThere
    <2>5. CASE IsThere(u)
      <3>1. StaysOnPage(c) /\ StayFrom(1)' /\ view.url = u
        BY <2>2, <2>5, <1>0, TakenFirst DEF IsThere
      <3>2. view'.url = view.url
        <4>1. CASE view' = view
          BY <4>1
        <4>2. CASE view' = [view EXCEPT !.loading = view.url # NoUrl]
          BY <4>2, <1>0 DEF Views
        <4> QED  BY <2>1, <3>1, <4>1, <4>2
                 DEF NativeStep, TextStep, LoadStep, HistoryStep, StaysOnPage
      <3> QED  BY <2>3, <3>1, <3>2 DEF IsThere
    <2> QED  BY <2>2, <2>4, <2>5, <1>0, <1>10, TakenFirst
  <1>12. CASE Evaluate \/ Shutdown
    <2>1. Take /\ Quiet /\ view' = view
      BY <1>12 DEF Evaluate, Shutdown, Take, ui, backend
    <2>2. c.kind \in {"action", "shutdown"}
      BY <1>12 DEF Evaluate, Shutdown
    <2>3. IsThere(u) => IsThere(u)'
      <3> SUFFICES ASSUME IsThere(u) PROVE IsThere(u)'
        OBVIOUS
      <3>1. StaysOnPage(c) /\ StayFrom(1)' /\ view'.url = u
        BY <2>1, <1>0, TakenFirst DEF IsThere
      <3>2. worker'.pc = "evaluating"
        BY <1>12, <2>2, <3>1, <1>0 DEF Evaluate, Shutdown, StaysOnPage, Workers
      <3> QED  BY <3>1, <3>2 DEF IsThere
    <2> QED  BY <2>1, <2>2, <2>3, <1>0, <1>10, TakenFirst
  <1>13. ASSUME Quiet, commands' = commands, view' = view, worker'.pc \in {"polling", "sending"},
                \/ worker'.out.kind \in {"error", "result"}
                \/ worker'.out.kind = "snapshot" /\ worker'.out.page.url = view.url
                \/ worker.pc = "polling" /\ worker'.out = worker.out
         PROVE  Goal
    <2>1. IsThere(u) => IsThere(u)'
      BY <1>13, CommandsStay DEF IsThere
    <2> QED  BY <1>13, <1>10, <2>1, CommandsStay
  <1>14. CASE EvaluationTimesOut
    BY <1>14, <1>13, <1>0 DEF EvaluationTimesOut, ui, backend, Failure, Event, Workers
  <1>15. CASE ReadPage
    <2>1. Quiet /\ commands' = commands /\ view' = view
      BY <1>15 DEF ReadPage, ui, backend
    <2>2. CASE ReadView
      BY <2>1, <2>2, <1>13, <1>0 DEF ReadView, Read, PageEvent, Event, Workers
    <2>3. CASE FetchPage
      <3>1. PICK e \in {Failure} \cup {PageEvent(view.url, title) : title \in TitlesOf(view.url)} :
              worker' = [worker EXCEPT !.pc = "sending", !.out = e]
        BY <2>3 DEF FetchPage, Read
      <3>2. e.kind = "error" \/ (e.kind = "snapshot" /\ e.page.url = view.url)
        BY DEF PageEvent, Failure, Event
      <3>3. worker'.pc = "sending" /\ worker'.out = e
        BY <3>1, <1>0 DEF Workers
      <3> QED  BY <2>1, <3>2, <3>3, <1>13
    <2> QED  BY <1>15, <2>2, <2>3 DEF ReadPage
  <1>16. CASE Poll
    BY <1>16, <1>13, <1>0 DEF Poll, ui, Workers
  <1>17. CASE SendEvent
    <2>1. /\ Quiet /\ commands' = commands /\ view' = view
          /\ worker'.pc = "waking" /\ worker'.out = worker.out /\ worker.out \in Events
      BY <1>17, <1>0 DEF SendEvent, ui, backend, Workers
    <2>2. Drained(browser, events) \in Browsers
      <3>1. \A b \in Browsers : \A i \in 1..Len(events) : ApplyEvent(b, events[i]) \in Browsers
        BY <1>0, EventApplied, ElementOfSeq
      <3> QED  BY <3>1, <1>0, DrainedKeeps
    <2>3. Drained(browser, events)' = ApplyEvent(Drained(browser, events), worker.out)
      BY <1>0, <1>17, <2>1, DrainedOneMore DEF SendEvent
    <2>4. ASSUME IsThere(u), worker.out.kind # "result" PROVE Shows(Drained(browser, events)', u)
      <3>1. CASE worker.out.kind = "snapshot"
        BY <3>1, <2>1, <2>2, <2>3, <2>4, <1>17, EventApplied DEF IsThere, Shows, SendEvent
      <3>2. CASE worker.out.kind = "error"
        <4>1. Drained(browser, events)' = [Drained(browser, events) EXCEPT !.status = "failed"]
          BY <3>2, <2>1, <2>2, <2>3, EventApplied
        <4>2. Drained(browser, events)'.status = "failed"
          BY <4>1, <2>2 DEF Browsers
        <4> QED  BY <4>2 DEF Shows
      <3> QED  BY <3>1, <3>2, <2>4, <1>17 DEF IsThere, SendEvent
    <2>5. IsThere(u) => IsThere(u)'
      BY <2>1, <2>4, CommandsStay DEF IsThere, Shows
    <2> QED  BY <2>1, <2>5, <1>10, CommandsStay
  <1>18. CASE SendWake
    <2>1. /\ Quiet /\ commands' = commands /\ view' = view /\ events' = events
          /\ worker.pc = "waking" /\ worker'.pc = NextPc
      BY <1>18, <1>0 DEF SendWake, ui, backend, StoppedWorker
    <2>2. IsThere(u) => IsThere(u)'
      BY <2>1, CommandsStay DEF IsThere, Shows, NextPc
    <2> QED  BY <2>1, <2>2, <1>10, CommandsStay
  <1>19. ASSUME Quiet, UNCHANGED <<commands, events, worker>>, view'.url = view.url
         PROVE  Goal
    <2>1. IsThere(u) => IsThere(u)'
      BY <1>19, CommandsStay, StaysThere DEF IsThere
    <2> QED  BY <1>19, <2>1, <1>10, CommandsStay
  <1>20. CASE DestroyView
    BY <1>20, <1>19, <1>0 DEF DestroyView, ui, Views
  <1>21. CASE WorkerStep
    BY <1>21, <1>11, <1>12, <1>14, <1>15, <1>16, <1>17, <1>18, <1>20 DEF WorkerStep
  <1>22. CASE ViewStep
    <2>1. CASE PageFinishes
      BY <1>19, <1>0, <2>1 DEF PageFinishes, ui, Views
    <2>2. ASSUME NEW v \in Urls \ BadUrls, PageMoves(v) PROVE Goal
      BY <2>2, <1>0 DEF PageMoves
    <2>3. ASSUME NEW k \in Scripts, ScriptCompletes(k), AnswersScript(k) PROVE Goal
      <3>1. PICK e \in {Event("result", NoPage, k), Failure} :
              worker' = [worker EXCEPT !.pc = "sending", !.out = e]
        BY <2>3 DEF ScriptCompletes
      <3>2. e.kind \in {"result", "error"}
        BY DEF Failure, Event
      <3>3. worker'.pc = "sending" /\ worker'.out = e
        BY <3>1, <1>0 DEF Workers
      <3> QED  BY <2>3, <3>2, <3>3, <1>13 DEF ScriptCompletes, AnswersScript, ui
    <2>4. ASSUME NEW k \in Scripts, ScriptCompletes(k), ~AnswersScript(k) PROVE Goal
      BY <2>4, <1>19 DEF ScriptCompletes, ui
    <2> QED  BY <1>22, <2>1, <2>2, <2>3, <2>4 DEF ViewStep
  <1>23. CASE WorkerPanics
    BY <1>23 DEF WorkerPanics, StoppedWorker
  <1>24. CASE UNCHANGED vars
    BY <1>24, <1>19 DEF vars
  <1> QED  BY <1>7, <1>8, <1>9, <1>21, <1>22, <1>23, <1>24 DEF Next, UiLoop

LEMMA SessionInvariant == Spec => []IInv
  <1>1. IInv /\ [Next]_vars => IInv'
    BY NextType, NextSession, NextTarget DEF IInv
  <1> QED  BY <1>1, InitIInv, PTL DEF Spec

\* The url in the tab - what is stored and opened again - is the session's.
THEOREM TabFollows == Spec => []TabFollowsSession
  <1>1. IInv => TabFollowsSession
    BY DEF IInv
  <1> QED  BY <1>1, SessionInvariant, PTL

\* A session that says it is loaded is at the address of the page it read last.
THEOREM LoadedIsThePage == Spec => []LoadedHasItsPage
  <1>1. IInv => LoadedHasItsPage
    BY DEF IInv
  <1> QED  BY <1>1, SessionInvariant, PTL

\* Once everything asked for is answered, a session that is loaded is at the page
\* asked for last, and so is its tab.
THEOREM SettledIsTheTarget == Spec => []SettledShowsTarget
  <1>1. IInv => SettledShowsTarget
    <2> SUFFICES ASSUME IInv, Settled, browser.status = "loaded", target \in Urls \ BadUrls
                 PROVE  browser.url = target /\ tab = target
      BY DEF SettledShowsTarget
    <2>1. ~Waits(target)
      <3>1. Len(commands) = 0
        BY DEF Settled
      <3> QED  BY <3>1 DEF Waits
    <2>2. IsThere(target) /\ worker.pc = "idle"
      BY <2>1 DEF IInv, TargetIsReached, Settled
    <2>3. Drained(browser, events) = browser
      BY DrainedNone DEF IInv, TypeOK, Settled
    <2> QED  BY <2>2, <2>3 DEF IsThere, Shows, IInv, TabFollowsSession, Settled
  <1> QED  BY <1>1, SessionInvariant, PTL
=============================================================================
