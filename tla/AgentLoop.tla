------------------------------ MODULE AgentLoop ------------------------------
(***************************************************************************)
(* The loops of ah-use, the harness that drives a running shell over the   *)
(* control socket: it runs commands in terminal sessions, waits for their  *)
(* blocks, acknowledges rings and hands blocks from one agent to another.  *)
(*                                                                         *)
(* A loop is one client thread that sends one request at a time and reads  *)
(* what it needs again and again until a deadline.  Between two requests   *)
(* the commands go on, and so do the user and the other clients.  The      *)
(* server answers "timeout" when the UI thread has not come to a request   *)
(* in RESPONSE_TIMEOUT, and the UI thread still handles it later.          *)
(*                                                                         *)
(* A loop is a sequence of steps, and a session what those steps can see   *)
(* of it (module TerminalSession has the whole).  A marker is the serial   *)
(* number of the command it belongs to.  Left out: what a loop does with   *)
(* windows and web tabs, and its assertions about the wording of a block   *)
(* or a surface and about the topics in the event log.                     *)
(***************************************************************************)
EXTENDS Naturals, Sequences, SequencesExt, FiniteSetsExt

CONSTANTS
    A, B,         \* the two sessions a loop works in
    Scripts,      \* the loops that are run
    MaxMeddles    \* most requests by others (bound)

ASSUME SessionsAssumption == A # B

VARIABLES
    script,    \* the steps of the loop
    line,      \* the step that is next
    serial,    \* the marker of the last command or input
    seen,      \* what this round of a wait has read: "" nothing yet, the ring
               \* (wait_for_debate_turn), or "missing" once it has read the
               \* blocks and not found what it waits for
    late,      \* the deadline of the wait has passed
    got,       \* the block the last wait returned, counted from the oldest
    outcome,   \* "running", "done" or "failed"
    session,   \* the sessions
    shellUp,   \* the shell runs
    queued,    \* steps whose requests timed out and have not been handled
    meddles,   \* requests by others so far
    busy,      \* history: the command ran when this round of a wait began
    trouble,   \* history: something went wrong that is not the loop's doing
    intruded   \* history: somebody else put a block into a session

loopVars == <<script, line, serial, seen, late, got, outcome, busy>>
agentVars == <<loopVars, session, shellUp, queued, meddles, trouble, intruded>>

Sessions == {A, B}
-----------------------------------------------------------------------------
(* The loops.                                                              *)

Step(do, on, to) == [do |-> do, on |-> on, to |-> to]
In(s, dos) == [i \in DOMAIN dos |-> Step(dos[i], s, s)]

\* run_debate_loop: each speaker's reply goes to the other one.
Turn(s, other) ==
    In(s, <<"run", "turn", "unread">>) \o <<Step("forward", s, other)>> \o In(s, <<"ack">>)
Debate(turns) ==
    FlattenSeq([i \in 1..turns |-> IF i % 2 = 1 THEN Turn(A, B) ELSE Turn(B, A)])

\* run_stress_loop: two of its rounds, the second with the resize of every
\* fifth.
Round(s, other) ==
    In(s, <<"run", "await", "unread", "ack">>) \o <<Step("forward", s, other)>>
        \o In(other, <<"await", "ack">>)
Stress ==
    Round(B, A) \o In(B, <<"listed">>) \o Round(A, B) \o In(A, <<"resize", "listed">>)

Handoff ==
    In(A, <<"run", "await">>) \o <<Step("hand_over", A, B)>> \o In(B, <<"await", "complete">>)

Lifecycle ==
    In(A, <<"resize", "input", "tail", "run", "tail", "interrupt", "terminate",
            "refused", "restart", "run", "await">>)

\* run_interactive_stdin: what is typed goes to the program that runs.
Interactive == In(A, <<"run", "input", "input", "await">>)

\* A debate waits for the turn of the speaker it has just prompted.
ASSUME ScriptsAssumption ==
    \A steps \in Scripts :
        /\ steps \in Seq([do: STRING, on: Sessions, to: Sessions]) /\ steps # <<>>
        /\ \A i \in DOMAIN steps :
             steps[i].do = "turn"
                 => i > 1 /\ steps[i - 1].do = "run" /\ steps[i - 1].on = steps[i].on

-----------------------------------------------------------------------------
(* A session, and what the handlers of the requests do to it.  `at' is the *)
(* row of the running command's block, 0 without one; `typed' and `shown'  *)
(* are the markers in what was typed into the shell and in what it printed.*)

Fresh == [open |-> TRUE, alive |-> TRUE, at |-> 0, blocks |-> <<>>,
          ring |-> "idle", unread |-> FALSE, typed |-> {}, shown |-> {}]

RawInput == 0                     \* the marker in what a loop types itself
Foreign == Len(script) + 1        \* what has none of the loop's markers

Block(of, done, says) == [of |-> of, done |-> done, says |-> says]
Notified(x, ring) == [x EXCEPT !.ring = ring, !.unread = TRUE]

WithSystemBlock(x) ==
    [x EXCEPT !.blocks = <<Block(Foreign, TRUE, FALSE)>> \o @,
              !.at = IF @ = 0 THEN 0 ELSE @ + 1]

Closed(x, says) ==
    IF x.at = 0 THEN x
    ELSE [x EXCEPT !.blocks[x.at] = Block(x.blocks[x.at].of, TRUE, says), !.at = 0]

\* Mutant: a command is started without a word to the ring.
StartedQuietly(x, n) ==
    [x EXCEPT !.blocks = <<Block(n, FALSE, FALSE)>> \o @, !.at = 1, !.typed = @ \cup {n}]

Started(x, n) ==
    Notified([x EXCEPT !.blocks = <<Block(n, FALSE, FALSE)>> \o @, !.at = 1,
                       !.typed = @ \cup {n}], "running")

\* An answer: the session afterwards, and whether it is no error.
Response(x, ok) == [then |-> x, ok |-> ok]

\* What may go wrong in a handler: the script of a command cannot be written,
\* or the terminal refuses what it is asked (a write, a signal, a size, a spawn).
Faults == {"none", "script", "terminal"}

\* A terminal is there and takes what it is given.
Works(x, fault) == x.alive /\ fault # "terminal"

RunCommand(x, n, fault) ==
    IF x.at # 0 THEN Response(Notified(x, "running"), FALSE)
    ELSE IF fault = "script" THEN Response(Notified(x, "error"), FALSE)
    ELSE IF Works(x, fault) THEN Response(Started(x, n), TRUE)
    ELSE Response(Notified([x EXCEPT !.blocks = <<Block(n, TRUE, FALSE)>> \o @], "error"), FALSE)

WriteInput(x, n, fault) ==
    LET logged == WithSystemBlock(x)
    IN  IF Works(x, fault)
        THEN Response(Notified([logged EXCEPT !.typed = @ \cup {n}], "running"), TRUE)
        ELSE Response(Notified(logged, "error"), FALSE)

\* Only an interrupt that was sent closes the command.
Interrupt(x, fault) ==
    LET ok == Works(x, fault)
    IN  Response(Notified(WithSystemBlock(IF ok THEN Closed(x, FALSE) ELSE x), "error"), ok)

\* A shell that is gone has no command to close, and is terminated again.
Terminate(x, fault) ==
    IF x.alive /\ fault = "terminal"
    THEN Response(Notified(WithSystemBlock(x), "error"), FALSE)
    ELSE Response([Notified(WithSystemBlock(Closed(x, FALSE)), "error")
                   EXCEPT !.alive = FALSE, !.typed = {}], TRUE)

\* Mutant: the shell that is spawned is not kept.
RestartForgetting(x, fault) ==
    LET ok == fault # "terminal"
    IN  Response([Notified(WithSystemBlock(Closed(x, FALSE)), IF ok THEN "complete" ELSE "error")
                  EXCEPT !.alive = FALSE, !.typed = {}], ok)

Restart(x, fault) ==
    LET ok == fault # "terminal"
    IN  Response([Notified(WithSystemBlock(Closed(x, FALSE)), IF ok THEN "complete" ELSE "error")
                  EXCEPT !.alive = ok, !.typed = {}], ok)

Resize(x, fault) ==
    LET ok == Works(x, fault)
    IN  Response(Notified(WithSystemBlock(x), IF ok THEN "complete" ELSE "error"), ok)

Ack(x) == Response([x EXCEPT !.unread = FALSE], TRUE)

\* forward_block puts its block on top and leaves the row of a running command
\* as it is.
Forwarded(x, block) ==
    Response(Notified([x EXCEPT !.blocks = <<block>> \o @], "complete"), TRUE)

\* Blocks are counted from the oldest, so that a block keeps its number.
BlockOf(x, id) == x.blocks[Len(x.blocks) + 1 - id]
NewestOf(x, rows) == IF rows = {} THEN 0 ELSE Len(x.blocks) + 1 - Min(rows)
NewestDone(x) == NewestOf(x, {i \in DOMAIN x.blocks : x.blocks[i].done})
NewestWith(x, n) ==
    NewestOf(x, {i \in DOMAIN x.blocks :
                    x.blocks[i].done /\ x.blocks[i].says /\ x.blocks[i].of = n})

-----------------------------------------------------------------------------
(* The steps of a loop.                                                    *)

AgentInit ==
    /\ script \in Scripts
    /\ line = 1
    /\ serial = RawInput
    /\ seen = ""
    /\ late = FALSE
    /\ got = 0
    /\ outcome = "running"
    /\ busy = FALSE
    /\ session = [s \in Sessions |-> Fresh]
    /\ shellUp = TRUE
    /\ queued = <<>>
    /\ meddles = 0
    /\ trouble = FALSE
    /\ intruded = FALSE

Now == script[line]
Here == session[Now.on]
At(do) == outcome = "running" /\ Now.do = do
\* A round of a wait that has read its blocks in vain asks for nothing more.
Asking == outcome = "running" /\ seen # "missing"

\* The UI thread comes to a request of the loop, and finds its session, after
\* the requests before it.  ("listed" looks into the snapshot of everything.)
Reached == shellUp /\ queued = <<>>
Found == Here.open \/ Now.do = "listed"
Answered == Reached /\ Found

\* The next step, with the markers and blocks known then; the deadline of the
\* next wait starts anew.
Advance(n, id) ==
    /\ line' = IF line = Len(script) THEN line ELSE line + 1
    /\ outcome' = IF line = Len(script) THEN "done" ELSE outcome
    /\ serial' = n
    /\ got' = id
    /\ seen' = ""
    /\ late' = FALSE
    /\ busy' = FALSE
    /\ UNCHANGED script

Fail ==
    /\ outcome' = "failed"
    /\ UNCHANGED <<script, line, serial, seen, late, got, busy>>

World == <<session, shellUp, queued, meddles, trouble, intruded>>

\* expect_terminal_input_error is content with any answer that is an error.
ErrorComes == IF Now.do = "refused" THEN Advance(serial, got) ELSE Fail

\* The answer is session_not_found, or the connection is refused or closed.
Unanswered ==
    /\ Asking
    /\ \/ Reached /\ ~Found /\ ErrorComes
       \/ ~shellUp /\ (ErrorComes \/ Fail)
    /\ UNCHANGED World

\* What the handler of the step's request does to the session it is about.
Effect(do, x, fault) ==
    CASE do = "run" -> RunCommand(x, serial + 1, fault)
      [] do \in {"input", "refused"} -> WriteInput(x, RawInput, fault)
      [] do = "interrupt" -> Interrupt(x, fault)
      [] do = "terminate" -> Terminate(x, fault)
      [] do = "restart" -> Restart(x, fault)
      [] do = "resize" -> Resize(x, fault)
      [] do = "ack" -> Ack(x)
      [] OTHER -> Response(x, TRUE)

\* A request that changes the session, and the answer the loop counts on.
Ask(do, expected, n, id) ==
    /\ At(do)
    /\ Answered
    /\ \E fault \in Faults :
         LET answer == Effect(do, Here, fault)
         IN  /\ session' = [session EXCEPT ![Now.on] = answer.then]
             /\ IF answer.ok = expected THEN Advance(n, id) ELSE Fail
             /\ trouble' = (trouble \/ answer # Effect(do, Here, "none"))
    /\ UNCHANGED <<shellUp, queued, meddles, intruded>>

RunStep == Ask("run", TRUE, serial + 1, 0)
InputStep == Ask("input", TRUE, serial, got)
RefusedStep == Ask("refused", FALSE, serial, got)
InterruptStep == Ask("interrupt", TRUE, serial, got)
TerminateStep == Ask("terminate", TRUE, serial, got)
RestartStep == Ask("restart", TRUE, serial, got)
ResizeStep == Ask("resize", TRUE, serial, got)
AckStep == Ask("ack", TRUE, serial, got)

\* The block the last wait returned is handed to the other session.
Forwards == {"forward", "hand_over"}
HandedOver(step) == LET b == BlockOf(session[step.on], got) IN Block(b.of, TRUE, b.says)
Forwarding(step) == [session EXCEPT ![step.to] = Forwarded(@, HandedOver(step)).then]

\* run_handoff_loop looks for its marker in the block that comes back.
ForwardStep ==
    /\ \E do \in Forwards : At(do)
    /\ Answered
    /\ IF session[Now.to].open
       THEN /\ session' = Forwarding(Now)
            /\ IF Now.do = "forward" \/ HandedOver(Now).says THEN Advance(serial, got) ELSE Fail
       ELSE Fail /\ UNCHANGED session
    /\ UNCHANGED <<shellUp, queued, meddles, trouble, intruded>>

\* Any request may wait too long for the UI thread.
TimedOut ==
    /\ Asking
    /\ shellUp
    /\ ErrorComes
    /\ queued' = Append(queued, line)
    /\ trouble' = TRUE
    /\ UNCHANGED <<session, shellUp, meddles, intruded>>

\* The UI thread comes to a request nobody waits for any more.
HandledLate ==
    /\ queued # <<>>
    /\ shellUp
    /\ queued' = Tail(queued)
    /\ LET step == script[Head(queued)]
           open == session[step.on].open /\ (step.do \in Forwards => session[step.to].open)
       IN  \/ /\ open /\ step.do \notin Forwards
              /\ \E fault \in Faults :
                   session' = [session EXCEPT ![step.on] =
                                 Effect(step.do, session[step.on], fault).then]
           \/ open /\ step.do \in Forwards /\ session' = Forwarding(step)
           \/ ~open /\ UNCHANGED session
    /\ UNCHANGED <<loopVars, shellUp, meddles, trouble, intruded>>

\* The assertions between two waits.
Check(do, holds) ==
    /\ At(do)
    /\ Answered
    /\ IF holds THEN Advance(serial, got) ELSE Fail
    /\ UNCHANGED World

CheckUnread == Check("unread", Here.unread)
CheckComplete == Check("complete", Here.ring = "complete")
CheckListed == Check("listed", \A s \in Sessions : session[s].open)

\* The command is on, or what it was given to print is still on its way.
Running(x) == x.at # 0 \/ x.typed # {}

\* A wait reads the blocks, or the tail, and goes on with what it finds.
Await(do, found, id) ==
    /\ At(do)
    /\ Answered
    /\ seen = ""
    /\ \/ found /\ Advance(serial, id)
       \/ /\ ~found
          /\ seen' = "missing"
          /\ busy' = Running(Here)
          /\ UNCHANGED <<script, line, serial, late, got, outcome>>
    /\ UNCHANGED World

AwaitBlock == Await("await", NewestWith(Here, serial) # 0, NewestWith(Here, serial))
AwaitTail == Await("tail", serial \in Here.shown, got)

\* wait_for_debate_turn reads the ring first, and the blocks in a request of
\* their own.
ReadRing ==
    /\ At("turn")
    /\ Answered
    /\ seen = ""
    /\ seen' = Here.ring
    /\ busy' = Running(Here)
    /\ UNCHANGED <<script, line, serial, late, got, outcome, World>>

TurnReply ==
    IF NewestWith(Here, serial) # 0 THEN NewestWith(Here, serial)
    ELSE IF seen = "complete" THEN NewestDone(Here) ELSE 0

JudgeTurn ==
    /\ At("turn")
    /\ Answered
    /\ seen \notin {"", "missing"}
    /\ \/ TurnReply # 0 /\ Advance(serial, TurnReply)
       \/ TurnReply = 0 /\ seen = "error" /\ Fail
       \/ /\ TurnReply = 0 /\ seen # "error"
          /\ seen' = "missing"
          /\ UNCHANGED <<script, line, serial, late, got, outcome, busy>>
    /\ UNCHANGED World

\* Only then a wait looks at the clock, and gives up or begins a new round.  It
\* does not look at the session again.
JudgeDeadline ==
    /\ outcome = "running"
    /\ seen = "missing"
    /\ IF late THEN Fail
       ELSE seen' = "" /\ UNCHANGED <<script, line, serial, late, got, outcome, busy>>
    /\ UNCHANGED World

TimePasses ==
    /\ At("await") \/ At("tail") \/ At("turn")
    /\ ~late
    /\ late' = TRUE
    /\ UNCHANGED <<script, line, serial, seen, got, outcome, busy, World>>

LoopStep ==
    \/ RunStep \/ InputStep \/ RefusedStep \/ InterruptStep \/ TerminateStep
    \/ ResizeStep \/ AckStep \/ RestartStep \/ ForwardStep \/ CheckUnread
    \/ CheckComplete \/ CheckListed \/ AwaitBlock \/ AwaitTail \/ ReadRing \/ JudgeTurn
    \/ JudgeDeadline \/ Unanswered \/ TimedOut

-----------------------------------------------------------------------------
(* The shells, and everybody else.                                         *)

ByMarker == \A i \in DOMAIN script : script[i].do # "turn"

\* The command ends with exit status 0 or another, and has printed the marker
\* or not.
CommandEnds(s, ok, says) ==
    /\ shellUp
    /\ session[s].at # 0 /\ session[s].alive
    /\ session' = [session EXCEPT ![s] =
                     [Notified(Closed(@, says), IF ok THEN "complete" ELSE "error")
                        EXCEPT !.typed = {}, !.shown = session[s].shown \cup session[s].typed]]
    /\ trouble' = (trouble \/ ~ok \/ (~says /\ ByMarker))
    /\ UNCHANGED <<loopVars, shellUp, queued, meddles, intruded>>

ShellPrints(s) ==
    /\ shellUp
    /\ session[s].alive
    /\ \E n \in session[s].typed :
         session' = [session EXCEPT ![s].typed = @ \ {n}, ![s].shown = @ \cup {n}]
    /\ UNCHANGED <<loopVars, shellUp, queued, meddles, trouble, intruded>>

ShellExits(s, says) ==
    /\ shellUp
    /\ session[s].alive
    /\ session' = [session EXCEPT ![s] =
                     [Notified(Closed(@, says), "error") EXCEPT !.alive = FALSE, !.typed = {}]]
    /\ trouble' = TRUE
    /\ UNCHANGED <<loopVars, shellUp, queued, meddles, intruded>>

AppQuits ==
    /\ shellUp
    /\ shellUp' = FALSE
    /\ trouble' = TRUE
    /\ UNCHANGED <<loopVars, session, queued, meddles, intruded>>

\* The user or another client: any request, or the tab is closed.
OthersAsk(x, fault) ==
    {RunCommand(x, Foreign, fault), WriteInput(x, Foreign, fault), Interrupt(x, fault),
     Terminate(x, fault), Resize(x, fault), Restart(x, fault), Ack(x),
     Forwarded(x, Block(Foreign, TRUE, FALSE)), Response([x EXCEPT !.open = FALSE], TRUE)}

Meddle(s) ==
    /\ shellUp /\ session[s].open
    /\ meddles < MaxMeddles
    /\ meddles' = meddles + 1
    /\ \E fault \in Faults : \E a \in OthersAsk(session[s], fault) :
         /\ session' = [session EXCEPT ![s] = a.then]
         /\ intruded' = (intruded \/ a.then.blocks # session[s].blocks)
    /\ trouble' = TRUE
    /\ UNCHANGED <<loopVars, shellUp, queued>>

AgentNext ==
    \/ LoopStep
    \/ HandledLate
    \/ TimePasses
    \/ \E s \in Sessions :
         \/ \E ok \in BOOLEAN, says \in BOOLEAN : CommandEnds(s, ok, says)
         \/ \E says \in BOOLEAN : ShellExits(s, says)
         \/ ShellPrints(s)
         \/ Meddle(s)
    \/ AppQuits

AgentSpec == AgentInit /\ [][AgentNext]_agentVars

-----------------------------------------------------------------------------
(* Properties.                                                             *)

\* What a loop takes for the outcome of its command, checks, and hands to the
\* other session is the outcome of that command, as long as nobody else puts
\* blocks into the sessions: a ring that is complete from an earlier turn, and
\* the reply of the other speaker on top of the blocks, are never taken for the
\* turn's own.  (wait_for_debate_turn, wait_for_block_with_timeout)
RepliesAreOwn ==
    got # 0 /\ ~intruded
        => \E s \in Sessions :
             /\ got \in DOMAIN session[s].blocks
             /\ BlockOf(session[s], got).of = serial
             /\ BlockOf(session[s], got).done

\* A loop gives up for two reasons only.  Something went wrong that it cannot
\* help: a command, a terminal or the application failed, the UI thread was too
\* slow to answer, or somebody else used its sessions.  Or its deadline passed,
\* and its command was still on when the last round of reads began: a command
\* that ends between those reads and the look at the clock is given up, but one
\* that had ended before is not.  No assertion depends on how the threads happen
\* to interleave.  (the bail!s of the run_* loops, and of their waits)
GivesUpForACause == outcome = "failed" => trouble \/ (late /\ busy)

=============================================================================
