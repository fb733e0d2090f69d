---------------------------- MODULE BrowserSession ----------------------------
(***************************************************************************)
(* One browser tab: the BrowserRuntime the UI thread owns, the worker      *)
(* thread that owns the backend, the two channels and the wake channel     *)
(* between them, the web view on the main thread, and the url in the tab.   *)
(*                                                                         *)
(* The UI thread changes the session's url and status when it queues a     *)
(* command and again when the answer is drained, so an answer may describe *)
(* a page that was left in the meantime.  The worker answers the commands  *)
(* in order, in hops to the main thread; between two hops the page may     *)
(* load, move or finish a script.                                          *)
(*                                                                         *)
(* A page is named by its address, and its title by the same value.        *)
(***************************************************************************)
EXTENDS Naturals, Sequences

CONSTANTS
    Urls,          \* the addresses of pages
    Homes,         \* those a tab is opened on
    BadUrls,       \* those a backend refuses: NSURL is nil, or not http(s)
    Scripts,       \* the expressions agents evaluate, each used once
    NoUrl,         \* "": no address, no title
    Engines,       \* the backends a session may have: "native", "text"
    MaxCommands,   \* most commands queued
    MaxMoves       \* most moves a page makes by itself (links, redirects)

ASSUME UrlsAssumption == BadUrls \subseteq Urls /\ Homes \subseteq Urls /\ NoUrl \notin Urls
ASSUME ScriptsAssumption == NoUrl \notin Scripts
ASSUME EnginesAssumption == Engines \subseteq {"native", "text"}

VARIABLES
    engine,    \* which backend the session has
    browser,   \* BrowserRuntime.state, and whether the runtime exists
    tab,       \* the url in the tab's WindowContent::Web, NoUrl without a tab
    commands,  \* the channel from the UI to the worker
    events,    \* the channel from the worker to the UI
    wake,      \* something is in the wake channel
    loop,      \* the UI's wake loop: "waiting", or in its 8 ms "timer"
    worker,    \* the worker thread: where it is, its command, its next event
    view,      \* the web view; its url alone for the text backend
    nav,       \* the provider's NavigationState
    scripts,   \* the scripts WebKit has not finished
    asked, moves,   \* the bounded counts
    target     \* history: the page last asked for, NoUrl once another could show

vars == <<engine, browser, tab, commands, events, wake, loop,
          worker, view, nav, scripts, asked, moves, target>>

ui == <<browser, tab>>
backend == <<view, nav, scripts>>
counts == <<asked, moves>>

NoPage == [url |-> NoUrl, title |-> NoUrl]
Pages == [url : Urls \cup {NoUrl}, title : Urls \cup {NoUrl}]
History == {"reload", "travel"}   \* travel: back or forward
Inputs == {"reload", "key"}

Command(kind, arg) == [kind |-> kind, arg |-> arg]
Event(kind, page, value) == [kind |-> kind, page |-> page, value |-> value]
NoEvent == Event("none", NoPage, NoUrl)
Failure == Event("error", NoPage, NoUrl)

-----------------------------------------------------------------------------
(* The session's state, as the UI thread changes it.                       *)

Idle == [open |-> FALSE, url |-> NoUrl, status |-> "idle", title |-> NoUrl,
         page |-> NoPage]

MarkLoading(b) == [b EXCEPT !.status = "loading"]

\* Mutant: a navigation keeps the status of the page that is left.
NavigateKeepingStatus(b, u) == [b EXCEPT !.url = u]

NavigateTo(b, u) == MarkLoading([b EXCEPT !.url = u])

\* new_with_surface: a new session is loading before its worker has begun.
Fresh(u) == MarkLoading([Idle EXCEPT !.open = TRUE, !.url = u])

ApplySnapshot(b, p) ==
    [b EXCEPT !.url = p.url, !.status = "loaded", !.page = p,
              !.title = IF p.title = NoUrl THEN @ ELSE p.title]

ApplyError(b) == [b EXCEPT !.status = "failed"]

\* One event of drain_events.  A script's result changes only the wording of
\* the event log.
ApplyEvent(b, e) ==
    CASE e.kind = "snapshot" -> ApplySnapshot(b, e.page)
      [] e.kind = "error"    -> ApplyError(b)
      [] OTHER               -> b

\* drain_events: the session after each of the events, and after all of them.
AfterEvents(b, es) ==
    LET after[i \in 0..Len(es)] ==
            IF i = 0 THEN b ELSE ApplyEvent(after[i - 1], es[i])
    IN after
Drained(b, es) == AfterEvents(b, es)[Len(es)]

-----------------------------------------------------------------------------
(* Init, and the lives of the session.                                     *)

StoppedWorker == [pc |-> "none", cmd |-> Command("none", NoUrl), out |-> NoEvent]
BlankView == [url |-> NoUrl, title |-> NoUrl, loading |-> FALSE, there |-> TRUE]
NewNav == [url |-> NoUrl, title |-> NoUrl, loaded |-> FALSE]

Init ==
    /\ engine \in Engines
    /\ browser = Idle
    /\ tab = NoUrl
    /\ commands = <<>>
    /\ events = <<>>
    /\ wake = FALSE
    /\ loop = "waiting"
    /\ worker = StoppedWorker
    /\ view = BlankView
    /\ nav = NewNav
    /\ scripts = {}
    /\ asked = 0
    /\ moves = 0
    /\ target = NoUrl

\* new_with_surface: a worker with a fresh view and the Open command queued.
\* A tab that is opened has its refresh queued behind (open_web_tab,
\* open_web_window, open_browser_in_window_from_ui); one that comes back from
\* the store has not (ensure_browser_runtimes_for_workspaces).
OpenTab(u, more) ==
    /\ worker.pc = "none"
    /\ asked' = 1 + Len(more)
    /\ asked' <= MaxCommands
    /\ browser' = Fresh(u)
    /\ tab' = u
    /\ commands' = <<Command("open", u)>> \o more
    /\ worker' = [StoppedWorker EXCEPT !.pc = "idle"]
    /\ target' = u
    /\ UNCHANGED <<engine, events, wake, loop, backend, moves>>

\* The tab is closed: the runtime is dropped, its Drop queues Shutdown behind
\* what is waiting, and nothing will read the events.
\* Mutant: the worker is not told.
CloseTabSilently ==
    /\ browser.open
    /\ browser' = Idle
    /\ tab' = NoUrl
    /\ events' = <<>>
    /\ target' = NoUrl
    /\ UNCHANGED <<engine, commands, wake, loop, worker, backend, counts>>

CloseTab ==
    /\ browser.open
    /\ browser' = Idle
    /\ tab' = NoUrl
    /\ commands' = Append(commands, Command("shutdown", NoUrl))
    /\ events' = <<>>
    /\ target' = NoUrl
    /\ UNCHANGED <<engine, wake, loop, worker, backend, counts>>

-----------------------------------------------------------------------------
(* What the user and the agents ask for, on the UI thread.                 *)

WorkerRuns == worker.pc # "dead"

\* queue: the send fails when the worker is gone.
\* Mutant: a command is put ahead of those that wait.
QueueAhead(c) ==
    /\ asked < MaxCommands
    /\ asked' = asked + 1
    /\ commands' = IF WorkerRuns THEN <<c>> \o commands ELSE commands

Queue(c) ==
    /\ asked < MaxCommands
    /\ asked' = asked + 1
    /\ commands' = IF WorkerRuns THEN Append(commands, c) ELSE commands

\* navigate_browser_from_ui, navigate_browser: the command is queued first, and
\* when that fails nothing changes.
Navigate(u) ==
    /\ browser.open
    /\ Queue(Command("navigate", u))
    /\ browser' = IF WorkerRuns THEN NavigateTo(browser, u) ELSE browser
    /\ tab' = IF WorkerRuns THEN u ELSE tab
    /\ target' = IF WorkerRuns THEN u ELSE target
    /\ UNCHANGED <<engine, events, wake, loop, worker, backend, moves>>

\* apply_browser_action_from_ui, apply_browser_action: the session is loading
\* before the command is queued, and stays so when that fails.
ScriptsAsked == {commands[i].arg : i \in DOMAIN commands} \cup {worker.cmd.arg}
                    \cup scripts

ApplyAction(a) ==
    /\ browser.open
    /\ a \in History \/ a \notin ScriptsAsked
    /\ Queue(Command("action", a))
    /\ browser' = IF a \in History THEN MarkLoading(browser) ELSE browser
    /\ target' = IF WorkerRuns /\ a # "reload" THEN NoUrl ELSE target
    /\ UNCHANGED <<engine, tab, events, wake, loop, worker, backend, moves>>

\* A key, a click or a reload on the page, which the native backend does not
\* tell apart, and for the text backend a resize.
SendInput(kind, arg) ==
    /\ browser.open
    /\ engine = "native" => kind = "input" /\ arg = "key"
    /\ Queue(Command(kind, arg))
    /\ UNCHANGED <<engine, ui, events, wake, loop, worker, backend, moves, target>>

-----------------------------------------------------------------------------
(* The UI's wake loop: it waits for a wake, sleeps 8 ms, empties the wake  *)
(* channel and drains the events.                                          *)

WakeUp ==
    /\ loop = "waiting"
    /\ wake
    /\ wake' = FALSE
    /\ loop' = "timer"
    /\ UNCHANGED <<engine, ui, commands, events, worker, backend, counts, target>>

\* drain_browser_events: the tab follows when the drained events moved the url.
\* Mutant: the tab keeps the address it was opened or navigated to.
SyncTabNever(before, after) == tab

SyncTab(before, after) == IF after.url # before.url THEN after.url ELSE tab

Drain ==
    /\ loop = "timer"
    /\ loop' = "waiting"
    /\ wake' = FALSE
    /\ browser' = Drained(browser, events)
    /\ events' = <<>>
    /\ tab' = SyncTab(browser, browser')
    /\ UNCHANGED <<engine, commands, worker, backend, counts, target>>

-----------------------------------------------------------------------------
(* The worker thread.                                                      *)

\* loadRequest: the view's url is the new one at once, its title still the old.
LoadRequest(v, u) == [v EXCEPT !.url = u, !.loading = TRUE]

\* What an operation does to the native view (v), and what the worker does
\* next (n).
LoadStep(c, v, n) ==
    /\ c.kind \in {"open", "navigate"}
    /\ nav' = [nav EXCEPT !.loaded = FALSE]
    /\ \/ c.arg \notin BadUrls /\ v = LoadRequest(view, c.arg) /\ n = "reading"
       \/ c.arg \in BadUrls /\ v = view /\ n = "error"

\* go_back, go_forward: the history decides where to, if anywhere; reload.
HistoryStep(c, v, n) ==
    /\ c.kind = "action"
    /\ n = "result"
    /\ \/ /\ c.arg = "reload"
          /\ nav' = [nav EXCEPT !.loaded = FALSE]
          /\ v = [view EXCEPT !.loading = view.url # NoUrl]
       \/ /\ c.arg = "travel"
          /\ nav' = nav
          /\ v \in {view} \cup {LoadRequest(view, u) : u \in Urls \ BadUrls}

NativeStep(c, v, n) ==
    \/ LoadStep(c, v, n)
    \/ HistoryStep(c, v, n)
    \/ c.kind \in {"snapshot", "input"} /\ v = view /\ nav' = nav /\ n = "reading"

\* The text backend keeps the url it will fetch; it has no history and takes
\* no input but reload.
TextStep(c, v, n) ==
    /\ nav' = nav
    /\ \/ /\ c.kind \in {"open", "navigate"}
          /\ \/ c.arg \notin BadUrls /\ v = [view EXCEPT !.url = c.arg] /\ n = "reading"
             \/ c.arg \in BadUrls /\ v = view /\ n = "error"
       \/ c.kind \in {"snapshot", "resize"} /\ v = view /\ n = "reading"
       \/ c.kind = "input" /\ v = view /\ n = IF c.arg = "reload" THEN "reading" ELSE "error"
       \/ c.kind = "action" /\ v = view /\ n = IF c.arg = "reload" THEN "result" ELSE "error"

\* The next event, and where the worker is, after an operation's outcome n.
After(n) ==
    CASE n = "reading" -> [worker EXCEPT !.pc = "reading", !.cmd = Head(commands)]
      [] n = "result"  -> [worker EXCEPT !.pc = "sending", !.cmd = Head(commands),
                                         !.out = Event("result", NoPage, NoUrl)]
      [] n = "error"   -> [worker EXCEPT !.pc = "sending", !.cmd = Head(commands),
                                         !.out = Failure]

Take ==
    /\ worker.pc = "idle"
    /\ commands # <<>>
    /\ commands' = Tail(commands)

\* handle_command: the backend's operation, in one hop to the main thread.
Operate ==
    /\ Take
    /\ \E n \in {"reading", "result", "error"} :
         /\ IF engine = "native" THEN NativeStep(Head(commands), view', n)
                                 ELSE TextStep(Head(commands), view', n)
         /\ worker' = After(n)
    /\ UNCHANGED <<engine, ui, events, wake, loop, scripts, counts, target>>

\* evaluate_js, click, fill and the like: the script is given to the main
\* thread with a channel of its own and the worker waits for that channel.
Evaluate ==
    /\ Take
    /\ engine = "native"
    /\ Head(commands).kind = "action" /\ Head(commands).arg \in Scripts
    /\ scripts' = scripts \cup {Head(commands).arg}
    /\ worker' = [worker EXCEPT !.pc = "evaluating", !.cmd = Head(commands)]
    /\ UNCHANGED <<engine, ui, events, wake, loop, view, nav, counts, target>>

\* The worker gives up on the script after 10 seconds; the script goes on.
\* Mutant: the worker waits for the script without a limit.
EvaluationNeverTimesOut == worker.pc = "evaluating" /\ FALSE /\ UNCHANGED vars

EvaluationTimesOut ==
    /\ worker.pc = "evaluating"
    /\ worker' = [worker EXCEPT !.pc = "sending", !.out = Failure]
    /\ UNCHANGED <<engine, ui, commands, events, wake, loop, backend, counts, target>>

\* The completion handler answers the channel of its own script.
\* Mutant: one channel for all scripts.
AnswersAnyScript(k) == worker.pc = "evaluating" /\ k \in Scripts

AnswersScript(k) == worker.pc = "evaluating" /\ worker.cmd.arg = k

ScriptCompletes(k) ==
    /\ k \in scripts
    /\ scripts' = scripts \ {k}
    /\ \/ AnswersScript(k) /\ \E e \in {Event("result", NoPage, k), Failure} :
            worker' = [worker EXCEPT !.pc = "sending", !.out = e]
       \/ ~AnswersScript(k) /\ worker' = worker
    /\ UNCHANGED <<engine, ui, commands, events, wake, loop, view, nav, counts, target>>

Read(e, pc) == worker' = [worker EXCEPT !.pc = pc, !.out = e]
PageEvent(u, title) == Event("snapshot", [url |-> u, title |-> title], NoUrl)

\* NativeWebViewBackend::snapshot reads the url from the view and the title
\* from the last poll, then polls.
ReadView ==
    /\ engine = "native"
    /\ Read(PageEvent(view.url, nav.title), "polling")

\* A page has a title or none.
TitlesOf(u) == {NoUrl, u}

\* TextPreviewBackend::snapshot fetches its url, which may fail.
FetchPage ==
    /\ engine = "text"
    /\ \E e \in {Failure} \cup {PageEvent(view.url, title) : title \in TitlesOf(view.url)} :
         Read(e, "sending")

ReadPage ==
    /\ worker.pc = "reading"
    /\ ReadView \/ FetchPage
    /\ UNCHANGED <<engine, ui, commands, events, wake, loop, backend, counts, target>>

\* drain_navigation_events
Started(n) ==
    IF view.url # NoUrl /\ view.url # n.url
    THEN [url |-> view.url, title |-> NoUrl, loaded |-> FALSE] ELSE n

Finished(n) ==
    IF ~view.loading /\ ~n.loaded /\ n.url # NoUrl
    THEN [n EXCEPT !.loaded = TRUE, !.title = IF view.title = NoUrl THEN @ ELSE view.title]
    ELSE n

Poll ==
    /\ worker.pc = "polling"
    /\ nav' = Finished(Started(nav))
    /\ worker' = [worker EXCEPT !.pc = "sending"]
    /\ UNCHANGED <<engine, ui, commands, events, wake, loop, view, scripts, counts, target>>

\* send_event: first the event, which is lost when the runtime is gone ...
\* Mutant: an error is sent without a wake.
SendErrorSilently ==
    /\ worker.pc = "sending"
    /\ events' = IF browser.open THEN Append(events, worker.out) ELSE events
    /\ worker' = IF worker.out = Failure THEN [StoppedWorker EXCEPT !.pc = "idle"]
                                         ELSE [worker EXCEPT !.pc = "waking"]
    /\ UNCHANGED <<engine, ui, commands, wake, loop, backend, counts, target>>

SendEvent ==
    /\ worker.pc = "sending"
    /\ events' = IF browser.open THEN Append(events, worker.out) ELSE events
    /\ worker' = [worker EXCEPT !.pc = "waking"]
    /\ UNCHANGED <<engine, ui, commands, wake, loop, backend, counts, target>>

\* ... then the wake.  A result is followed by a snapshot of the page.
NextPc ==
    CASE worker.out.kind = "result"   -> "reading"
      [] worker.out.kind = "shutdown" -> "ended"
      [] OTHER                        -> "idle"

SendWake ==
    /\ worker.pc = "waking"
    /\ wake' = TRUE
    /\ worker' = [StoppedWorker EXCEPT !.pc = NextPc]
    /\ UNCHANGED <<engine, ui, commands, events, loop, backend, counts, target>>

\* Shutdown ends the loop, and a last event is sent.
Shutdown ==
    /\ Take
    /\ Head(commands).kind = "shutdown"
    /\ worker' = [worker EXCEPT !.pc = "sending", !.cmd = Head(commands),
                                !.out = Event("shutdown", NoPage, NoUrl)]
    /\ UNCHANGED <<engine, ui, events, wake, loop, backend, counts, target>>

\* The thread ends and drops the provider, which takes the view away.
DestroyView ==
    /\ worker.pc \in {"ended", "dead"}
    /\ view.there
    /\ view' = [view EXCEPT !.there = FALSE]
    /\ UNCHANGED <<engine, ui, commands, events, wake, loop, worker, nav, scripts,
                   counts, target>>

\* A panic in the backend unwinds the thread: no answer, no Shutdown event.
WorkerPanics ==
    /\ worker.pc \in {"evaluating", "reading", "polling"}
    /\ worker' = [StoppedWorker EXCEPT !.pc = "dead"]
    /\ commands' = <<>>
    /\ UNCHANGED <<engine, ui, events, wake, loop, backend, counts, target>>

-----------------------------------------------------------------------------
(* The web view, which belongs to WebKit.                                  *)

PageFinishes ==
    /\ view.loading
    /\ view' = [view EXCEPT !.loading = FALSE, !.title = view.url]
    /\ UNCHANGED <<engine, ui, commands, events, wake, loop, worker, nav, scripts,
                   counts, target>>

PageMoves(u) ==
    /\ engine = "native"
    /\ moves < MaxMoves
    /\ view.there
    /\ view.url \notin {NoUrl, u}
    /\ moves' = moves + 1
    /\ view' = LoadRequest(view, u)
    /\ target' = NoUrl
    /\ UNCHANGED <<engine, ui, commands, events, wake, loop, worker, nav, scripts, asked>>

-----------------------------------------------------------------------------
UserStep ==
    \/ \E u \in Homes : OpenTab(u, <<>>) \/ OpenTab(u, <<Command("snapshot", NoUrl)>>)
    \/ \E u \in Urls : Navigate(u)
    \/ CloseTab
    \/ \E a \in History \cup Scripts : ApplyAction(a)
    \/ \E i \in Inputs : SendInput("input", i)
    \/ SendInput("resize", NoUrl)

UiLoop == WakeUp \/ Drain

WorkerStep ==
    \/ Operate \/ Evaluate \/ Shutdown \/ EvaluationTimesOut
    \/ ReadPage \/ Poll \/ SendEvent \/ SendWake \/ DestroyView

ViewStep ==
    \/ PageFinishes
    \/ \E u \in Urls \ BadUrls : PageMoves(u)
    \/ \E k \in Scripts : ScriptCompletes(k)

Next == UserStep \/ UiLoop \/ WorkerStep \/ ViewStep \/ WorkerPanics

Spec == Init /\ [][Next]_vars

\* The wake loop is a task of the executor that wakes when the channel has
\* something.  The worker is a thread that waits for its channel and for the
\* main thread: dispatch_sync has no timeout, so its fairness takes in that the
\* main thread serves its queue, and no handler of the shell waits for a worker.
\* Only the wait for a script has a limit.  WebKit and the users promise nothing.
FairSpec == Spec /\ WF_vars(WakeUp) /\ WF_vars(Drain) /\ WF_vars(WorkerStep)

-----------------------------------------------------------------------------
(* Properties.                                                             *)

\* An event that waits for the UI always has a wake behind it: one in the
\* channel, one the loop has taken and not yet acted on, or one the worker is
\* about to send.  (send_event wakes after it sends, and the loop empties the
\* wake channel before it drains; the other orders lose an answer until the
\* next one.)
NoLostWakeup ==
    events # <<>> => wake \/ loop = "timer" \/ worker.pc = "waking"

\* The url in the tab - what is stored, what a restart opens - is the url the
\* session reports, whatever handlers moved it.  (sync_web_tab_url)
TabFollowsSession == browser.open => tab = browser.url

\* A session that says it is loaded reports the address of the page it read
\* last, never that of a navigation still under way.  (navigate_to,
\* apply_snapshot)
LoadedHasItsPage == browser.status = "loaded" => browser.url = browser.page.url

\* Once everything asked for is answered, a session that is loaded is at the
\* page asked for last: the answers computed for pages left in the meantime
\* have all been overwritten.  (When the last navigation failed they have not:
\* the address goes back to the page that was left.)  (navigate, handle_command
\* and drain_browser_events)
Settled == browser.open /\ worker.pc = "idle" /\ commands = <<>> /\ events = <<>>

SettledShowsTarget ==
    Settled /\ browser.status = "loaded" /\ target \in Urls \ BadUrls
        => browser.url = target /\ tab = target

\* An agent's script is answered with its own result or with none: the result
\* of a script the worker gave up on never answers a later one.  (evaluate_js)
ResultIsItsOwn ==
    [][\A k \in Scripts : worker'.out.value = k /\ worker.out.value # k
                            => worker'.cmd = Command("action", k)]_vars

\* Loading ends, as long as the worker lives.  (mark_loading before the command
\* is queued, one answer at least for every command)
LoadingEnds ==
    (browser.open /\ browser.status = "loading")
        ~> (browser.status # "loading" \/ ~browser.open \/ worker.pc = "dead")

\* A closed tab's worker ends and takes its web view away, whatever was queued.
\* (Drop queues Shutdown, the provider's Drop destroys the view)
ClosedViewGoes == (~browser.open /\ worker.pc # "none") ~> ~view.there

=============================================================================
