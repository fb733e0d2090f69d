--------------------------- MODULE TerminalSession ---------------------------
(***************************************************************************)
(* One terminal session of the shell: the TerminalRuntime of               *)
(* agenthouse/src/shell.rs, the PtySession and reader thread of            *)
(* ah-terminal/src/lib.rs behind it, and the child shell they drive.       *)
(*                                                                         *)
(* Threads.  The runtime lives on the UI thread: every operation below is  *)
(* one call on it and is atomic.  Each child shell runs by itself, and so  *)
(* does the reader thread that turns what the child prints into events;    *)
(* their steps interleave with the operations.  A restart makes a new      *)
(* child and a new event channel while the old child may still be dying.   *)
(*                                                                         *)
(* Data.  A command is its sequence number, the number in its BEGIN and    *)
(* DONE marker lines.  A chunk of output is one item: a marker or a piece  *)
(* of text (module CommandCapture takes chunks apart).  A block's text is  *)
(* the label of what the code put there.  Children are numbered in the     *)
(* order they are spawned, 0 stands for None.                              *)
(***************************************************************************)
EXTENDS Naturals, Sequences

CONSTANTS
  MaxCommands,  \* commands the run submits (bound)
  MaxChildren,  \* shells the run spawns (bound)
  MaxBlocks,    \* blocks the session shows (bound)
  MaxQueue,     \* chunks waiting in the event channel (bound)
  MaxUnread,    \* u32::MAX, where the unread counter of the ring saturates
  Sizes,        \* terminal sizes, cols x rows
  SpawnSize,    \* the size a PTY is opened with
  GridSize      \* TERMINAL_GRID_COLS x TERMINAL_GRID_ROWS

ASSUME BoundsAssumption ==
  /\ MaxCommands \in Nat \ {0}
  /\ MaxChildren \in Nat \ {0}
  /\ MaxBlocks \in Nat
  /\ MaxQueue \in Nat
  /\ MaxUnread \in Nat \ {0}
ASSUME SizesAssumption == SpawnSize \in Sizes /\ GridSize \in Sizes

VARIABLES
  open,      \* the shell still holds the runtime of this session
  terminal,  \* TerminalRuntime.terminal: the child it holds a PtySession of
  events,    \* TerminalRuntime.events: what the receiver has not handled
  feeds,     \* children whose reader thread sends into that receiver
  active,    \* TerminalRuntime.active_command
  blocks,    \* view.blocks, newest first
  next_command_sequence,
  status,    \* view.session.status
  ring,      \* view.ring
  grid,      \* grid_metrics, the size the emulator was given too
  winsize,   \* the window size of the PTY the runtime holds
  lastChild, \* the newest child spawned for the session
  child,     \* what has become of every child
  tty,       \* command lines typed into the newest child, not yet read by it
  fg,        \* the command the newest child runs
  ran        \* what became of every command inside the child

runtimeVars == <<open, terminal, feeds, active, blocks, next_command_sequence,
                 status, ring, grid, winsize, lastChild>>
shellVars == <<tty, fg, ran>>
vars == <<runtimeVars, events, child, shellVars>>

Commands == 1..MaxCommands
Children == 1..MaxChildren
NoChild == 0
NoCommand == [seq |-> 0, block_index |-> 0, began |-> FALSE]

Events == [type: {"begin", "text", "done", "exited"}, from: Children,
           seq: 0..MaxCommands, ok: BOOLEAN]
Blocks == [id: Nat \ {0}, kind: {"Command", "System", "AgentOutput"},
           seq: 0..MaxCommands, state: {"Streaming", "Complete"},
           text: {"empty", "noise", "output", "note", "write failed",
                  "not running", "interrupted", "terminated", "restarted",
                  "shell exited"}]
------------------------------------------------------------------------------
(***************************************************************************)
(* Blocks and the running command.                                         *)
(***************************************************************************)
Block(id, kind, seq, state, text) ==
  [id |-> id, kind |-> kind, seq |-> seq, state |-> state, text |-> text]

CommandBlock(bs, seq) == Block(Len(bs) + 1, "Command", seq, "Streaming", "empty")
SystemBlock(bs) == Block(Len(bs) + 1, "System", 0, "Complete", "note")

\* The row active_command points at; block_index counts from 0.
Edit(bs, a, state, text) ==
  [bs EXCEPT ![a.block_index + 1] = [@ EXCEPT !.state = state, !.text = text]]

\* finish_command_with_text: the running command's block, if there is one,
\* gets a closing text and is complete; active_command is taken.
FinishCommand(bs, a, text) ==
  IF a.seq = 0 THEN bs ELSE Edit(bs, a, "Complete", text)

\* append_system_block puts its block on top, so the block of a running
\* command moves down by one.
AppendSystemBlock(bs) == <<SystemBlock(bs)>> \o bs
StaysPut(a) == a   \* mutant: the index forgets the new block
MoveDown(a) == IF a.seq = 0 THEN a ELSE [a EXCEPT !.block_index = @ + 1]

RoomForBlock == Len(blocks) < MaxBlocks

\* NotificationRing::update; the counter saturates.  Nothing updates it to Idle.
Updated(r, state) ==
  [state |-> state, unread |-> IF r.unread < MaxUnread THEN r.unread + 1 ELSE MaxUnread]
Notify(state) == ring' = Updated(ring, state)
------------------------------------------------------------------------------
(***************************************************************************)
(* The child shell, as far as the runtime can tell: whether it lives, and  *)
(* what a system call on its PTY may answer.                               *)
(***************************************************************************)
Gone(c) == child[c] \in {"dead", "reaped"}

\* write and resize fail at most once nobody is left at the other end.
IoOk(c) == IF Gone(c) THEN BOOLEAN ELSE {TRUE}
CanIo(ok) == terminal # NoChild /\ ok \in IoOk(terminal)
IoRefused == terminal = NoChild \/ CanIo(FALSE)

\* kill fails on a child that was waited for; the reader thread waits for a
\* dead child some time before its last event.
KillOk(c) == IF child[c] = "reaped" THEN {FALSE}
             ELSE IF child[c] = "dead" THEN BOOLEAN ELSE {TRUE}

HangUp(c) == [child EXCEPT ![c] = IF @ = "running" THEN "hungup" ELSE @]
KilledTerminal == IF terminal = NoChild THEN child ELSE HangUp(terminal)

\* A Ctrl-C on the line: the shell drops the command and the typed lines,
\* or only the lines, or the program in front takes no notice.
CtrlC ==
  /\ \/ UNCHANGED <<fg, tty>>
     \/ /\ child[terminal] = "running"
        /\ fg' \in {fg, 0} /\ tty' = <<>>
  /\ UNCHANGED ran
------------------------------------------------------------------------------
(***************************************************************************)
(* Operations of the runtime, one per method of TerminalRuntime.           *)
(***************************************************************************)
RunWhileBusy ==
  /\ active.seq # 0
  /\ Notify("Running")
  /\ UNCHANGED <<open, terminal, feeds, active, blocks, next_command_sequence,
                 status, grid, winsize, lastChild, events, child, shellVars>>

TakeAnySequence ==                                                          \* mutant
  /\ next_command_sequence \in Commands
  /\ next_command_sequence' = next_command_sequence + 1
TakeSequence ==
  /\ active.seq = 0
  /\ next_command_sequence \in Commands
  /\ next_command_sequence' = next_command_sequence + 1

\* terminal_input_for_command could not write the command's script.
RunScriptFails ==
  /\ TakeSequence
  /\ Notify("Error")
  /\ UNCHANGED <<open, terminal, feeds, active, blocks, status, grid, winsize,
                 lastChild, events, child, shellVars>>

Started == [seq |-> next_command_sequence, block_index |-> 0, began |-> FALSE]
WithCommandBlock == <<CommandBlock(blocks, next_command_sequence)>> \o blocks

RunAccepted ==
  /\ CanIo(TRUE)
  /\ TakeSequence
  /\ RoomForBlock
  /\ blocks' = WithCommandBlock
  /\ active' = Started
  /\ tty' = IF child[terminal] = "running"
            THEN Append(tty, next_command_sequence) ELSE tty
  /\ Notify("Running")
  /\ UNCHANGED <<open, terminal, feeds, status, grid, winsize, lastChild,
                 events, child, fg, ran>>

RunFails(text) ==
  /\ TakeSequence
  /\ RoomForBlock
  /\ blocks' = FinishCommand(WithCommandBlock, Started, text)
  /\ active' = NoCommand
  /\ Notify("Error")
  /\ UNCHANGED <<open, terminal, feeds, status, grid, winsize, lastChild,
                 events, child, shellVars>>

RunCommand ==
  /\ open
  /\ \/ RunWhileBusy
     \/ RunScriptFails
     \/ RunAccepted
     \/ CanIo(FALSE) /\ RunFails("write failed")
     \/ terminal = NoChild /\ RunFails("not running")

\* append_system_block on a session whose command, if any, goes on.
LogSystemBlock ==
  /\ RoomForBlock
  /\ blocks' = AppendSystemBlock(blocks)
  /\ active' = MoveDown(active)

\* finish_command_with_text followed by append_system_block.
CloseCommandAndLog(text) ==
  /\ RoomForBlock
  /\ blocks' = AppendSystemBlock(FinishCommand(blocks, active, text))
  /\ active' = NoCommand

\* Input from the control socket leaves a block, input from the UI none.
WriteInput(key, audited) ==
  /\ open
  /\ IF audited THEN LogSystemBlock ELSE UNCHANGED <<blocks, active>>
  /\ \/ /\ CanIo(TRUE)
        /\ IF key = "ctrl-c" THEN CtrlC ELSE UNCHANGED shellVars
        /\ IF audited THEN Notify("Running") ELSE UNCHANGED ring
     \/ IoRefused /\ UNCHANGED shellVars /\ Notify("Error")
  /\ UNCHANGED <<open, terminal, feeds, next_command_sequence, status, grid,
                 winsize, lastChild, events, child>>

Interrupt ==
  /\ open
  /\ \/ CanIo(TRUE) /\ CtrlC /\ CloseCommandAndLog("interrupted")
     \/ IoRefused /\ LogSystemBlock /\ UNCHANGED shellVars
  /\ Notify("Error")
  /\ UNCHANGED <<open, terminal, feeds, next_command_sequence, status, grid,
                 winsize, lastChild, events, child>>

Terminate ==
  /\ open
  /\ \/ /\ terminal # NoChild /\ TRUE \in KillOk(terminal)
        /\ child' = HangUp(terminal)
        /\ CloseCommandAndLog("terminated")
        /\ status' = "Exited"
        /\ terminal' = NoChild
     \/ /\ terminal # NoChild /\ FALSE \in KillOk(terminal)
        /\ LogSystemBlock
        /\ UNCHANGED <<child, status, terminal>>
     \/ /\ terminal = NoChild
        /\ LogSystemBlock
        /\ status' = "Exited"
        /\ UNCHANGED <<child, terminal>>
  /\ Notify("Error")
  /\ UNCHANGED <<open, feeds, next_command_sequence, grid, winsize, lastChild,
                 events, shellVars>>

\* The new shell gets a channel of its own, so that the receiver hears the
\* reader thread of that shell only.
SharedChannel(c) == feeds \cup {c}                                          \* mutant
NewChannel(c) == {c}

RestartSpawns ==
  /\ lastChild < MaxChildren
  /\ lastChild' = lastChild + 1
  /\ child' = [KilledTerminal EXCEPT ![lastChild + 1] = "running"]
  /\ terminal' = lastChild + 1
  /\ feeds' = NewChannel(lastChild + 1)
  /\ winsize' \in {SpawnSize, GridSize}   \* the result of resize is ignored
  /\ grid' = GridSize
  /\ status' = "Running"
  /\ Notify("Complete")
  /\ tty' = <<>> /\ fg' = 0 /\ UNCHANGED ran

RestartFails ==
  /\ child' = KilledTerminal
  /\ terminal' = NoChild
  /\ feeds' = {}
  /\ status' = "Exited"
  /\ Notify("Error")
  /\ UNCHANGED <<lastChild, winsize, grid, shellVars>>

Restart ==
  /\ open
  /\ CloseCommandAndLog("restarted")
  /\ events' = <<>>
  /\ RestartSpawns \/ RestartFails
  /\ UNCHANGED <<open, next_command_sequence>>

\* The emulator follows the PTY: a refused resize changes neither.
Resized(size, ok) ==
  /\ winsize' = IF ok THEN size ELSE winsize
  /\ grid' = IF ok THEN size ELSE grid

Resize(size) ==
  /\ open
  /\ LogSystemBlock
  /\ \/ CanIo(TRUE) /\ Resized(size, TRUE) /\ Notify("Complete")
     \/ IoRefused /\ Resized(size, FALSE) /\ Notify("Error")
  /\ UNCHANGED <<open, terminal, feeds, next_command_sequence, status,
                 lastChild, events, child, shellVars>>

\* The layout measured another size: no block, and no ring without a PTY.
SyncMeasuredSize(size) ==
  /\ open
  /\ grid # size
  /\ terminal # NoChild
  /\ \/ CanIo(TRUE) /\ Resized(size, TRUE) /\ UNCHANGED ring
     \/ CanIo(FALSE) /\ Resized(size, FALSE) /\ Notify("Error")
  /\ UNCHANGED <<open, terminal, feeds, active, blocks, next_command_sequence,
                 status, lastChild, events, child, shellVars>>

AckSessionRing ==
  /\ open
  /\ ring' = [ring EXCEPT !.unread = 0]
  /\ UNCHANGED <<open, terminal, feeds, active, blocks, next_command_sequence,
                 status, grid, winsize, lastChild, events, child, shellVars>>

\* The tab is closed: the runtime is terminated and dropped, and with it the
\* receiver.
StopTerminalRuntime ==
  /\ open
  /\ open' = FALSE
  /\ child' = KilledTerminal
  /\ terminal' = NoChild
  /\ events' = <<>> /\ feeds' = {}
  /\ UNCHANGED <<active, blocks, next_command_sequence, status, ring, grid,
                 winsize, lastChild, shellVars>>
------------------------------------------------------------------------------
(***************************************************************************)
(* drain_events: the events the reader thread sent, in order.  The code    *)
(* handles all that wait in one go; an operation between two of them is    *)
(* the run in which the second was sent a little later.                    *)
(***************************************************************************)
AnyMarker(ev, a) == TRUE          \* mutant: markers without sequence numbers
OwnMarker(ev, a) == ev.seq = a.seq

Row(bs, a) == bs[a.block_index + 1]

\* append_active_output: up to its BEGIN line a command's block holds what
\* came before, and from there the output, up to its DONE line.
AppendActiveOutput(ev) ==
  \/ /\ active.seq = 0
     /\ UNCHANGED <<active, blocks, ring>>
  \/ /\ active.seq # 0 /\ ~active.began
     /\ ~(ev.type = "begin" /\ OwnMarker(ev, active))
     /\ blocks' = Edit(blocks, active, Row(blocks, active).state, "noise")
     /\ UNCHANGED <<active, ring>>
  \/ /\ active.seq # 0 /\ ~active.began
     /\ ev.type = "begin" /\ OwnMarker(ev, active)
     /\ blocks' = Edit(blocks, active, Row(blocks, active).state, "empty")
     /\ active' = [active EXCEPT !.began = TRUE]
     /\ UNCHANGED ring
  \/ /\ active.seq # 0 /\ active.began
     /\ ~(ev.type = "done" /\ OwnMarker(ev, active))
     /\ blocks' = Edit(blocks, active, Row(blocks, active).state, "output")
     /\ UNCHANGED <<active, ring>>
  \/ /\ active.seq # 0 /\ active.began
     /\ ev.type = "done" /\ OwnMarker(ev, active)
     /\ blocks' = Edit(blocks, active, "Complete", Row(blocks, active).text)
     /\ active' = NoCommand
     /\ Notify(IF ev.ok THEN "Complete" ELSE "Error")

HandleOutput(ev) ==
  /\ AppendActiveOutput(ev)
  /\ UNCHANGED <<terminal, status>>

\* complete_active_block, mark_exited, and the PtySession is dropped.
HandleExited ==
  /\ blocks' = FinishCommand(blocks, active, "shell exited")
  /\ active' = NoCommand
  /\ status' = "Exited"
  /\ Notify("Error")
  /\ terminal' = NoChild

HandleEvent ==
  /\ open
  /\ events # <<>>
  /\ events' = Tail(events)
  /\ IF Head(events).type = "exited" THEN HandleExited ELSE HandleOutput(Head(events))
  /\ UNCHANGED <<open, feeds, next_command_sequence, grid, winsize, lastChild,
                 child, shellVars>>
------------------------------------------------------------------------------
(***************************************************************************)
(* The newest child and the reader threads.  A shell runs the lines typed  *)
(* into it one after the other; what it prints is read and sent at once,   *)
(* for the runtime sees the moment of sending only.                        *)
(***************************************************************************)
Event(type, c, seq, ok) == [type |-> type, from |-> c, seq |-> seq, ok |-> ok]
Send(ev) == events' = IF ev.from \in feeds THEN Append(events, ev) ELSE events

ShellRuns == lastChild # NoChild /\ child[lastChild] \in {"running", "hungup"}
ShellPrints(type, seq, ok) ==
  /\ ShellRuns
  /\ Len(events) < MaxQueue
  /\ Send(Event(type, lastChild, seq, ok))
  /\ UNCHANGED <<runtimeVars, child>>

ShellBegins ==
  /\ fg = 0 /\ tty # <<>>
  /\ fg' = Head(tty) /\ tty' = Tail(tty)
  /\ ran' = [ran EXCEPT ![Head(tty)] = "begun"]
  /\ ShellPrints("begin", Head(tty), FALSE)

ShellOutputs ==
  /\ ShellPrints("text", fg, FALSE)
  /\ UNCHANGED shellVars

ShellFinishes(ok) ==
  /\ fg # 0
  /\ fg' = 0
  /\ ran' = [ran EXCEPT ![fg] = IF ok THEN "ok" ELSE "failed"]
  /\ ShellPrints("done", fg, ok)
  /\ UNCHANGED tty

\* The program in front reads the line meant for the shell.
ProgramReadsLine ==
  /\ ShellRuns
  /\ fg # 0 /\ tty # <<>>
  /\ tty' = Tail(tty)
  /\ UNCHANGED <<runtimeVars, events, child, fg, ran>>

ChildDies(c) ==
  /\ child[c] \in {"running", "hungup"}
  /\ child' = [child EXCEPT ![c] = "dead"]
  /\ UNCHANGED <<runtimeVars, events, shellVars>>

\* The reader thread meets the end of the PTY, waits for the child and sends
\* the last event.
SilentEnd(c) == events' = events                                            \* mutant
SendExited(c) == Send(Event("exited", c, 0, FALSE))
ReaderEnds(c) ==
  /\ child[c] = "dead"
  /\ child' = [child EXCEPT ![c] = "reaped"]
  /\ SendExited(c)
  /\ UNCHANGED <<runtimeVars, shellVars>>
------------------------------------------------------------------------------
(***************************************************************************)
(* TerminalRuntime::spawn: with a first shell, or without one.             *)
(***************************************************************************)
Init ==
  /\ open = TRUE
  /\ events = <<>>
  /\ active = NoCommand
  /\ blocks = <<>>
  /\ next_command_sequence = 1
  /\ ring = [state |-> "Idle", unread |-> 0]
  /\ grid = GridSize
  /\ winsize \in {SpawnSize, GridSize}
  /\ \/ /\ terminal = 1 /\ lastChild = 1 /\ feeds = {1} /\ status = "Running"
        /\ child = [c \in Children |-> IF c = 1 THEN "running" ELSE "unborn"]
     \/ /\ terminal = NoChild /\ lastChild = NoChild /\ feeds = {}
        /\ status = "Starting"
        /\ child = [c \in Children |-> "unborn"]
  /\ tty = <<>>
  /\ fg = 0
  /\ ran = [n \in Commands |-> "no"]

Operation ==
  \/ RunCommand
  \/ \E key \in {"text", "ctrl-c"}, audited \in BOOLEAN : WriteInput(key, audited)
  \/ Interrupt
  \/ Terminate
  \/ Restart
  \/ \E size \in Sizes : Resize(size) \/ SyncMeasuredSize(size)
  \/ AckSessionRing
  \/ StopTerminalRuntime
  \/ HandleEvent

Outside ==
  \/ ShellBegins
  \/ ShellOutputs
  \/ \E ok \in BOOLEAN : ShellFinishes(ok)
  \/ ProgramReadsLine
  \/ \E c \in Children : ChildDies(c) \/ ReaderEnds(c)

Next == Operation \/ Outside

Spec == Init /\ [][Next]_vars

\* The reader thread is a loop of its own and the UI thread drains whenever
\* it was woken; nobody promises that a shell or a user does anything.
Fairness == WF_vars(HandleEvent) /\ \A c \in Children : WF_vars(ReaderEnds(c))
FairSpec == Spec /\ Fairness
------------------------------------------------------------------------------
(***************************************************************************)
(* Properties.                                                             *)
(***************************************************************************)

\* Every variable has its type.  The unread counter is a u32: it stays within
\* its width however often the ring is updated (NotificationRing::update).
TypeOK ==
  /\ open \in BOOLEAN
  /\ terminal \in 0..MaxChildren
  /\ events \in Seq(Events)
  /\ feeds \in SUBSET Children
  /\ active \in [seq: 0..MaxCommands, block_index: Nat, began: BOOLEAN]
  /\ blocks \in Seq(Blocks)
  /\ next_command_sequence \in 1..(MaxCommands + 1)
  /\ status \in {"Starting", "Running", "Exited"}
  /\ ring \in [state: {"Idle", "Running", "Complete", "Error"}, unread: 0..MaxUnread]
  /\ grid \in Sizes
  /\ winsize \in Sizes
  /\ lastChild \in 0..MaxChildren
  /\ child \in [Children -> {"unborn", "running", "hungup", "dead", "reaped"}]
  /\ tty \in Seq(Commands)
  /\ fg \in 0..MaxCommands
  /\ ran \in [Commands -> {"no", "begun", "ok", "failed"}]

\* active_command always points at the block of its own command, and that is
\* the one block still streaming, whatever blocks were put on top of it while
\* the command ran (append_system_block moves the index along).
StreamingIsActive ==
  /\ active.seq # 0 =>
       /\ active.block_index < Len(blocks)
       /\ Row(blocks, active).seq = active.seq
       /\ Row(blocks, active).state = "Streaming"
  /\ \A i \in DOMAIN blocks :
       blocks[i].state = "Streaming" => active.seq # 0 /\ i = active.block_index + 1

\* A shell that runs and was not told to stop is the one the runtime holds: no
\* restart, no closed tab and no late Exited event of an older shell makes the
\* runtime let go of a shell that goes on running.
NoOrphanShell ==
  \A c \in Children : child[c] = "running" => open /\ terminal = c

Numbered(bs, k) == bs[Len(bs) - k + 1]

\* A block that is complete is a record: no later output, event or operation
\* changes it or takes it away (BlockError::NotEditable of ah-block says as
\* much, and clients read blocks by id at any later time).
CompletedBlocksFrozen ==
  [][\A k \in 1..Len(blocks) :
       Numbered(blocks, k).state = "Complete" =>
         k <= Len(blocks') /\ Numbered(blocks', k) = Numbered(blocks, k)]_blocks

\* The command of block k is closed in this step by what the shell printed.
ClosedByOutput(k) ==
  /\ Numbered(blocks, k).state = "Streaming"
  /\ Numbered(blocks', k).state = "Complete"
  /\ Numbered(blocks', k).text \in {"empty", "output"}

\* When the output closes a command, the shell has finished that very command,
\* and the ring shows its exit status: no output of an earlier command that was
\* interrupted, and no earlier shell, can close it (the markers carry the
\* command's sequence number, which a restart does not reset).
ReportedExitIsReal ==
  [][\A k \in 1..Len(blocks) : ClosedByOutput(k) =>
       LET n == Numbered(blocks, k).seq
       IN  /\ ran[n] \in {"ok", "failed"}
           /\ ring'.state = IF ran[n] = "ok" THEN "Complete" ELSE "Error"]_vars

\* A command whose shell died is closed: the reader thread's last event gets to
\* the runtime, or a restart or the closing of the tab came first.
DeadShellClosesCommand ==
  \A n \in Commands :
    (open /\ active.seq = n /\ \E c \in Children : terminal = c /\ Gone(c))
      ~> (~open \/ active.seq # n)

\* The blocks of a session, read as a ledger of its commands.
LedgerOf(bs) ==
  [n \in Commands |->
     IF \E i \in DOMAIN bs : bs[i].seq = n /\ bs[i].state = "Streaming" THEN "streaming"
     ELSE IF \E i \in DOMAIN bs : bs[i].seq = n THEN "complete" ELSE "absent"]
Ledger == INSTANCE CommandLedger WITH ledger <- LedgerOf(blocks)

\* The session keeps the promises of CommandLedger: commands one at a time, in
\* order, each with one block that is closed once.
ImplementsLedger == Ledger!LedgerSpec
==============================================================================
