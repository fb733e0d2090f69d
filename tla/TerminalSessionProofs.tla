------------------------ MODULE TerminalSessionProofs ------------------------
(***************************************************************************)
(* Proofs about TerminalSession and BlockForwarding, for any number of     *)
(* commands, shells, blocks and sizes, in five parts: the types and the    *)
(* streaming block; the shells; the refinement of CommandLedger; the exit  *)
(* status that is reported; blocks that other sessions forward.            *)
(***************************************************************************)
EXTENDS BlockForwarding, TLAPS

Actives == [seq: 0..MaxCommands, block_index: Nat, began: BOOLEAN]
Rings == [state: {"Idle", "Running", "Complete", "Error"}, unread: 0..MaxUnread]
Texts == {"empty", "noise", "output", "note", "write failed", "not running",
          "interrupted", "terminated", "restarted", "shell exited"}
------------------------------------------------------------------------------
(***************************************************************************)
(* The operators on blocks.                                                *)
(***************************************************************************)

\* A new block on top: the others keep their order, one place further down.
LEMMA OnTop ==
  ASSUME NEW S, NEW x \in S, NEW bs \in Seq(S)
  PROVE  /\ <<x>> \o bs \in Seq(S)
         /\ Len(<<x>> \o bs) = Len(bs) + 1
         /\ DOMAIN (<<x>> \o bs) = 1..(Len(bs) + 1)
         /\ (<<x>> \o bs)[1] = x
         /\ \A i \in 1..Len(bs) : (<<x>> \o bs)[i + 1] = bs[i]
  OBVIOUS

\* Replacing an element of a sequence, or one that it does not have.
LEMMA ReplaceFacts ==
  ASSUME NEW S, NEW s \in Seq(S), NEW k \in Nat, NEW x,
         x \in S \/ k \notin 1..Len(s)
  PROVE  /\ [s EXCEPT ![k] = x] \in Seq(S)
         /\ Len([s EXCEPT ![k] = x]) = Len(s)
         /\ \A i \in 1..Len(s) : [s EXCEPT ![k] = x][i] = IF i = k THEN x ELSE s[i]
<1>1. CASE k \in 1..Len(s)
  BY <1>1
<1>2. CASE k \notin 1..Len(s)
  <2>1. [s EXCEPT ![k] = x] = s
    BY <1>2
  <2> QED BY <1>2, <2>1
<1> QED BY <1>1, <1>2

\* append_system_block adds one complete block.
LEMMA AppendSystemBlockFacts ==
  ASSUME NEW bs \in Seq(Blocks)
  PROVE  /\ SystemBlock(bs) \in Blocks
         /\ SystemBlock(bs).state = "Complete"
         /\ AppendSystemBlock(bs) \in Seq(Blocks)
         /\ Len(AppendSystemBlock(bs)) = Len(bs) + 1
         /\ AppendSystemBlock(bs)[1] = SystemBlock(bs)
         /\ \A i \in 1..Len(bs) : AppendSystemBlock(bs)[i + 1] = bs[i]
<1>1. SystemBlock(bs) \in Blocks /\ SystemBlock(bs).state = "Complete"
  <2>1. Len(bs) + 1 \in Nat \ {0} /\ 0 \in 0..MaxCommands
    BY BoundsAssumption
  <2> QED BY <2>1 DEF SystemBlock, Block, Blocks
<1> QED BY <1>1, OnTop DEF AppendSystemBlock

\* run_command adds the block of its command, which streams.
LEMMA CommandBlockFacts ==
  ASSUME NEW bs \in Seq(Blocks), NEW n \in 0..MaxCommands
  PROVE  /\ CommandBlock(bs, n) \in Blocks
         /\ CommandBlock(bs, n).state = "Streaming"
         /\ CommandBlock(bs, n).seq = n
         /\ <<CommandBlock(bs, n)>> \o bs \in Seq(Blocks)
         /\ Len(<<CommandBlock(bs, n)>> \o bs) = Len(bs) + 1
         /\ (<<CommandBlock(bs, n)>> \o bs)[1] = CommandBlock(bs, n)
         /\ \A i \in 1..Len(bs) : (<<CommandBlock(bs, n)>> \o bs)[i + 1] = bs[i]
<1>1. /\ CommandBlock(bs, n) \in Blocks
      /\ CommandBlock(bs, n).state = "Streaming"
      /\ CommandBlock(bs, n).seq = n
  <2>1. Len(bs) + 1 \in Nat \ {0}
    OBVIOUS
  <2> QED BY <2>1 DEF CommandBlock, Block, Blocks
<1> QED BY <1>1, OnTop

\* Edit changes the state and the text of one block and nothing else.
LEMMA EditFacts ==
  ASSUME NEW bs \in Seq(Blocks), NEW a \in Actives, NEW state, NEW text,
         a.block_index + 1 \in 1..Len(bs) =>
           state \in {"Streaming", "Complete"} /\ text \in Texts
  PROVE  /\ Edit(bs, a, state, text) \in Seq(Blocks)
         /\ Len(Edit(bs, a, state, text)) = Len(bs)
         /\ \A i \in 1..Len(bs) :
              /\ i # a.block_index + 1 => Edit(bs, a, state, text)[i] = bs[i]
              /\ i = a.block_index + 1 =>
                   /\ Edit(bs, a, state, text)[i].state = state
                   /\ Edit(bs, a, state, text)[i].seq = bs[i].seq
<1> DEFINE k == a.block_index + 1
           row == [bs[k] EXCEPT !.state = state, !.text = text]
<1>1. k \in Nat
  BY DEF Actives
<1>2. Edit(bs, a, state, text) = [bs EXCEPT ![k] = row]
  BY DEF Edit
<1>3. CASE k \in 1..Len(bs)
  <2>1. bs[k] \in Blocks
    BY <1>3
  <2>2. row \in Blocks /\ row.state = state /\ row.seq = bs[k].seq
    BY <1>3, <2>1 DEF Blocks, Texts
  <2> HIDE DEF k, row
  <2> QED BY <1>1, <1>2, <1>3, <2>2, ReplaceFacts DEF k
<1>4. CASE k \notin 1..Len(bs)
  <2> HIDE DEF k, row
  <2> QED BY <1>1, <1>2, <1>4, ReplaceFacts DEF k
<1> QED BY <1>3, <1>4
------------------------------------------------------------------------------
(***************************************************************************)
(* The parts that actions share, and the types they leave.                 *)
(***************************************************************************)

\* The unread counter saturates (NotificationRing::update).
LEMMA NotifyType ==
  ASSUME ring \in Rings, NEW state \in {"Idle", "Running", "Complete", "Error"},
         Notify(state)
  PROVE  ring' \in Rings
<1>1. ring.unread \in 0..MaxUnread
  BY DEF Rings
<1>2. CASE ring.unread < MaxUnread
  BY <1>1, <1>2, BoundsAssumption DEF Notify, Updated, Rings
<1>3. CASE ~(ring.unread < MaxUnread)
  BY <1>1, <1>3, BoundsAssumption DEF Notify, Updated, Rings
<1> QED BY <1>2, <1>3

LEMMA FinishCommandFacts ==
  ASSUME NEW bs \in Seq(Blocks), NEW a \in Actives, NEW text \in Texts
  PROVE  /\ FinishCommand(bs, a, text) \in Seq(Blocks)
         /\ Len(FinishCommand(bs, a, text)) = Len(bs)
         /\ \A i \in 1..Len(bs) :
              /\ (a.seq = 0 \/ i # a.block_index + 1)
                   => FinishCommand(bs, a, text)[i] = bs[i]
              /\ (a.seq # 0 /\ i = a.block_index + 1)
                   => /\ FinishCommand(bs, a, text)[i].state = "Complete"
                      /\ FinishCommand(bs, a, text)[i].seq = bs[i].seq
<1>1. CASE a.seq = 0
  BY <1>1 DEF FinishCommand
<1>2. CASE a.seq # 0
  <2>1. FinishCommand(bs, a, text) = Edit(bs, a, "Complete", text)
    BY <1>2 DEF FinishCommand
  <2>2. "Complete" \in {"Streaming", "Complete"}
    OBVIOUS
  <2> QED BY <1>2, <2>1, <2>2, EditFacts
<1> QED BY <1>1, <1>2

LEMMA NoCommandType == NoCommand \in Actives
BY BoundsAssumption DEF NoCommand, Actives

LEMMA LogSystemBlockType ==
  ASSUME blocks \in Seq(Blocks), active \in Actives, LogSystemBlock
  PROVE  blocks' \in Seq(Blocks) /\ active' \in Actives
<1>1. MoveDown(active) \in Actives
  BY DEF MoveDown, Actives
<1> QED BY <1>1, AppendSystemBlockFacts DEF LogSystemBlock

LEMMA CloseCommandAndLogType ==
  ASSUME blocks \in Seq(Blocks), active \in Actives, NEW text \in Texts,
         CloseCommandAndLog(text)
  PROVE  blocks' \in Seq(Blocks) /\ active' \in Actives
BY FinishCommandFacts, AppendSystemBlockFacts, NoCommandType DEF CloseCommandAndLog

LEMMA SendType ==
  ASSUME events \in Seq(Events), NEW ev \in Events, Send(ev)
  PROVE  events' \in Seq(Events)
BY DEF Send

\* append_active_output edits the running command's block at most.
LEMMA OutputKeepsBlocks ==
  ASSUME blocks \in Seq(Blocks), active \in Actives, NEW ev, AppendActiveOutput(ev)
  PROVE  /\ blocks' \in Seq(Blocks)
         /\ Len(blocks') = Len(blocks)
         /\ \A i \in 1..Len(blocks) :
              i # active.block_index + 1 => blocks'[i] = blocks[i]
<1>1. \A i \in 1..Len(blocks) :
        blocks[i].state \in {"Streaming", "Complete"} /\ blocks[i].text \in Texts
  <2>1. \A i \in 1..Len(blocks) : blocks[i] \in Blocks
    OBVIOUS
  <2> QED BY <2>1 DEF Blocks, Texts
<1>2. {"noise", "output", "empty"} \subseteq Texts
  BY DEF Texts
<1>3. CASE UNCHANGED blocks
  BY <1>3
<1>4. ASSUME NEW text \in {"noise", "output", "empty"},
             blocks' = Edit(blocks, active, Row(blocks, active).state, text)
      PROVE  /\ blocks' \in Seq(Blocks)
             /\ Len(blocks') = Len(blocks)
             /\ \A i \in 1..Len(blocks) :
                  i # active.block_index + 1 => blocks'[i] = blocks[i]
  BY <1>1, <1>2, <1>4, EditFacts DEF Row
<1>5. CASE blocks' = Edit(blocks, active, "Complete", Row(blocks, active).text)
  BY <1>1, <1>5, EditFacts DEF Row
<1>6. \/ UNCHANGED blocks
      \/ blocks' = Edit(blocks, active, "Complete", Row(blocks, active).text)
      \/ \E text \in {"noise", "output", "empty"} :
           blocks' = Edit(blocks, active, Row(blocks, active).state, text)
  BY DEF AppendActiveOutput
<1> QED BY <1>3, <1>4, <1>5, <1>6

ChildStates == {"unborn", "running", "hungup", "dead", "reaped"}

LEMMA HangUpType ==
  ASSUME child \in [Children -> ChildStates], NEW c
  PROVE  HangUp(c) \in [Children -> ChildStates]
BY DEF HangUp, ChildStates

LEMMA KilledTerminalType ==
  ASSUME child \in [Children -> ChildStates]
  PROVE  KilledTerminal \in [Children -> ChildStates]
BY HangUpType DEF KilledTerminal

LEMMA CtrlCType ==
  ASSUME fg \in 0..MaxCommands, tty \in Seq(Commands), CtrlC
  PROVE  fg' \in 0..MaxCommands /\ tty' \in Seq(Commands) /\ ran' = ran
<1>1. 0 \in 0..MaxCommands /\ <<>> \in Seq(Commands)
  BY BoundsAssumption
<1> QED BY <1>1 DEF CtrlC
------------------------------------------------------------------------------
(***************************************************************************)
(* Type correctness.                                                       *)
(***************************************************************************)
LEMMA TypeInit == Init => TypeOK
<1>1. 0 \in 0..MaxCommands /\ 1 \in Children /\ 0 \in 0..MaxChildren /\ 0 \in 0..MaxUnread
      /\ 1 \in 0..MaxChildren /\ 1 \in 1..(MaxCommands + 1)
  BY BoundsAssumption DEF Children
<1> QED BY <1>1, SizesAssumption DEF Init, TypeOK, NoCommand, NoChild

LEMMA TypeStep == TypeOK /\ [Next]_vars => TypeOK'
<1> SUFFICES ASSUME TypeOK, [Next]_vars PROVE TypeOK'
  OBVIOUS
<1>types. /\ active \in Actives /\ ring \in Rings
          /\ blocks \in Seq(Blocks) /\ events \in Seq(Events)
          /\ child \in [Children -> ChildStates]
          /\ fg \in 0..MaxCommands /\ tty \in Seq(Commands)
  BY DEF TypeOK, Actives, Rings, ChildStates
<1>zero. 0 \in 0..MaxCommands /\ 0 \in 0..MaxChildren
  BY BoundsAssumption
<1>1. CASE RunCommand
  <2>seq. ASSUME TakeSequence
          PROVE  /\ next_command_sequence \in 0..MaxCommands
                 /\ next_command_sequence' \in 1..(MaxCommands + 1)
    BY <2>seq, BoundsAssumption DEF TakeSequence, TypeOK, Commands
  <2>1. CASE RunWhileBusy
    BY <2>1, <1>types, NotifyType DEF RunWhileBusy, TypeOK, Rings, shellVars
  <2>2. CASE RunScriptFails
    BY <2>2, <2>seq, <1>types, NotifyType DEF RunScriptFails, TypeOK, Rings, shellVars
  <2>3. CASE RunAccepted
    <3>1. WithCommandBlock \in Seq(Blocks) /\ Started \in Actives
      BY <2>3, <2>seq, <1>types, CommandBlockFacts
         DEF RunAccepted, WithCommandBlock, Started, Actives
    <3>2. tty' \in Seq(Commands)
      BY <2>3, <1>types DEF RunAccepted, TakeSequence
    <3> QED BY <2>3, <2>seq, <3>1, <3>2, <1>types, NotifyType
            DEF RunAccepted, TypeOK, Rings, Actives
  <2>4. ASSUME NEW text \in Texts, RunFails(text) PROVE TypeOK'
    <3>1. WithCommandBlock \in Seq(Blocks) /\ Started \in Actives
      BY <2>4, <2>seq, <1>types, CommandBlockFacts
         DEF RunFails, WithCommandBlock, Started, Actives
    <3>2. blocks' \in Seq(Blocks) /\ active' \in Actives
      BY <2>4, <3>1, FinishCommandFacts, NoCommandType DEF RunFails
    <3> QED BY <2>4, <2>seq, <3>2, <1>types, NotifyType
            DEF RunFails, TypeOK, Rings, Actives, shellVars
  <2>5. "write failed" \in Texts /\ "not running" \in Texts
    BY DEF Texts
  <2> QED BY <1>1, <2>1, <2>2, <2>3, <2>4, <2>5 DEF RunCommand
<1>2. ASSUME NEW key \in {"text", "ctrl-c"}, NEW audited \in BOOLEAN, WriteInput(key, audited)
      PROVE  TypeOK'
  <2>1. blocks' \in Seq(Blocks) /\ active' \in Actives
    BY <1>2, <1>types, LogSystemBlockType DEF WriteInput
  <2>2. fg' \in 0..MaxCommands /\ tty' \in Seq(Commands) /\ ran' = ran
    BY <1>2, <1>types, CtrlCType DEF WriteInput, shellVars
  <2>3. ring' \in Rings
    BY <1>2, <1>types, NotifyType DEF WriteInput
  <2> QED BY <1>2, <2>1, <2>2, <2>3 DEF WriteInput, TypeOK, Rings, Actives
<1>3. CASE Interrupt
  <2>1. blocks' \in Seq(Blocks) /\ active' \in Actives
    <3>1. "interrupted" \in Texts
      BY DEF Texts
    <3> QED BY <1>3, <3>1, <1>types, LogSystemBlockType, CloseCommandAndLogType DEF Interrupt
  <2>2. fg' \in 0..MaxCommands /\ tty' \in Seq(Commands) /\ ran' = ran
    BY <1>3, <1>types, CtrlCType DEF Interrupt, shellVars
  <2>3. ring' \in Rings
    BY <1>3, <1>types, NotifyType DEF Interrupt
  <2> QED BY <1>3, <2>1, <2>2, <2>3 DEF Interrupt, TypeOK, Rings, Actives
<1>4. CASE Terminate
  <2>1. blocks' \in Seq(Blocks) /\ active' \in Actives
    <3>1. "terminated" \in Texts
      BY DEF Texts
    <3> QED BY <1>4, <3>1, <1>types, LogSystemBlockType, CloseCommandAndLogType DEF Terminate
  <2>2. child' \in [Children -> ChildStates]
    BY <1>4, <1>types, HangUpType DEF Terminate
  <2>3. ring' \in Rings
    BY <1>4, <1>types, NotifyType DEF Terminate
  <2>4. terminal' \in 0..MaxChildren /\ status' \in {"Starting", "Running", "Exited"}
    BY <1>4, <1>zero DEF Terminate, TypeOK, NoChild
  <2> QED BY <1>4, <2>1, <2>2, <2>3, <2>4
          DEF Terminate, TypeOK, Rings, Actives, ChildStates, shellVars
<1>5. CASE Restart
  <2>1. blocks' \in Seq(Blocks) /\ active' \in Actives
    <3>1. "restarted" \in Texts
      BY DEF Texts
    <3> QED BY <1>5, <3>1, <1>types, CloseCommandAndLogType DEF Restart
  <2>2. ring' \in Rings
    BY <1>5, <1>types, NotifyType DEF Restart, RestartSpawns, RestartFails
  <2>3. events' \in Seq(Events)
    BY <1>5 DEF Restart
  <2>4. CASE RestartSpawns
    <3>1. lastChild + 1 \in Children
      BY <2>4, BoundsAssumption DEF RestartSpawns, TypeOK, Children
    <3>2. lastChild' \in 0..MaxChildren /\ terminal' \in 0..MaxChildren
      BY <2>4, <3>1 DEF RestartSpawns, Children
    <3>3. child' \in [Children -> ChildStates]
      BY <2>4, <3>1, <1>types, KilledTerminalType DEF RestartSpawns, ChildStates
    <3>4. feeds' \in SUBSET Children
      BY <2>4, <3>1 DEF RestartSpawns, NewChannel
    <3>5. grid' \in Sizes /\ winsize' \in Sizes
      BY <2>4, SizesAssumption DEF RestartSpawns
    <3>6. tty' \in Seq(Commands) /\ fg' \in 0..MaxCommands
      BY <2>4, <1>zero DEF RestartSpawns
    <3> QED BY <1>5, <2>1, <2>2, <2>3, <2>4, <3>2, <3>3, <3>4, <3>5, <3>6
            DEF Restart, RestartSpawns, TypeOK, Rings, Actives, ChildStates
  <2>5. CASE RestartFails
    <3>1. child' \in [Children -> ChildStates]
      BY <2>5, <1>types, KilledTerminalType DEF RestartFails
    <3> QED BY <1>5, <2>1, <2>2, <2>3, <2>5, <3>1, <1>zero
            DEF Restart, RestartFails, TypeOK, Rings, Actives, ChildStates, NoChild, shellVars
  <2> QED BY <1>5, <2>4, <2>5 DEF Restart
<1>6. ASSUME NEW size \in Sizes, Resize(size) PROVE TypeOK'
  <2>1. blocks' \in Seq(Blocks) /\ active' \in Actives
    BY <1>6, <1>types, LogSystemBlockType DEF Resize
  <2>2. ring' \in Rings
    BY <1>6, <1>types, NotifyType DEF Resize
  <2>3. grid' \in Sizes /\ winsize' \in Sizes
    BY <1>6 DEF Resize, Resized, TypeOK
  <2> QED BY <1>6, <2>1, <2>2, <2>3 DEF Resize, TypeOK, Rings, Actives, shellVars
<1>7. ASSUME NEW size \in Sizes, SyncMeasuredSize(size) PROVE TypeOK'
  <2>1. ring' \in Rings
    BY <1>7, <1>types, NotifyType DEF SyncMeasuredSize
  <2>2. grid' \in Sizes /\ winsize' \in Sizes
    BY <1>7 DEF SyncMeasuredSize, Resized, TypeOK
  <2> QED BY <1>7, <2>1, <2>2 DEF SyncMeasuredSize, TypeOK, Rings, shellVars
<1>8. CASE AckSessionRing
  <2>1. ring' \in Rings
    BY <1>8, <1>types, BoundsAssumption DEF AckSessionRing, Rings
  <2> QED BY <1>8, <2>1 DEF AckSessionRing, TypeOK, Rings, shellVars
<1>9. CASE StopTerminalRuntime
  <2>1. child' \in [Children -> ChildStates]
    BY <1>9, <1>types, KilledTerminalType DEF StopTerminalRuntime
  <2>2. open' \in BOOLEAN /\ terminal' \in 0..MaxChildren
    BY <1>9, <1>zero DEF StopTerminalRuntime, NoChild
  <2>3. events' \in Seq(Events) /\ feeds' \in SUBSET Children
    BY <1>9 DEF StopTerminalRuntime
  <2>4. UNCHANGED <<active, blocks, next_command_sequence, status, ring, grid,
                    winsize, lastChild, tty, fg, ran>>
    BY <1>9 DEF StopTerminalRuntime, shellVars
  <2> QED BY <2>1, <2>2, <2>3, <2>4 DEF TypeOK, ChildStates
<1>10. CASE HandleEvent
  <2> DEFINE ev == Head(events)
  <2>1. events' \in Seq(Events)
    BY <1>10, <1>types DEF HandleEvent
  <2>2. CASE HandleExited
    <3>1. blocks' \in Seq(Blocks)
      <4>1. "shell exited" \in Texts
        BY DEF Texts
      <4> QED BY <2>2, <4>1, <1>types, FinishCommandFacts DEF HandleExited
    <3>2. ring' \in Rings
      BY <2>2, <1>types, NotifyType DEF HandleExited
    <3>3. active' \in Actives /\ terminal' \in 0..MaxChildren
      BY <2>2, <1>zero, NoCommandType DEF HandleExited, NoChild
    <3>4. status' \in {"Starting", "Running", "Exited"}
      BY <2>2 DEF HandleExited
    <3>5. UNCHANGED <<open, feeds, next_command_sequence, grid, winsize, lastChild,
                      child, tty, fg, ran>>
      BY <1>10 DEF HandleEvent, shellVars
    <3> QED BY <2>1, <3>1, <3>2, <3>3, <3>4, <3>5 DEF TypeOK, Rings, Actives
  <2>3. CASE HandleOutput(ev)
    <3>1. blocks' \in Seq(Blocks)
      BY <2>3, OutputKeepsBlocks, <1>types DEF HandleOutput
    <3>2. active' \in Actives
      BY <2>3, <1>types, NoCommandType DEF HandleOutput, AppendActiveOutput, Actives
    <3>3. ring' \in Rings
      BY <2>3, <1>types, NotifyType DEF HandleOutput, AppendActiveOutput
    <3> QED BY <1>10, <2>1, <2>3, <3>1, <3>2, <3>3
            DEF HandleEvent, HandleOutput, TypeOK, Rings, Actives, shellVars
  <2> QED BY <1>10, <2>2, <2>3 DEF HandleEvent
<1>11. CASE ShellBegins
  <2>1. Head(tty) \in Commands /\ Tail(tty) \in Seq(Commands)
    BY <1>11, <1>types DEF ShellBegins
  <2>2. lastChild \in Children
    BY <1>11 DEF ShellBegins, ShellPrints, ShellRuns, TypeOK, NoChild, Children
  <2>3. Event("begin", lastChild, Head(tty), FALSE) \in Events
    BY <2>1, <2>2 DEF Event, Events, Commands
  <2>4. events' \in Seq(Events)
    BY <1>11, <1>types, <2>3, SendType DEF ShellBegins, ShellPrints
  <2>5. ran' \in [Commands -> {"no", "begun", "ok", "failed"}]
    BY <1>11, <2>1 DEF ShellBegins, TypeOK
  <2> QED BY <1>11, <2>1, <2>4, <2>5
          DEF ShellBegins, ShellPrints, TypeOK, runtimeVars, Commands
<1>12. CASE ShellOutputs
  <2>1. lastChild \in Children
    BY <1>12 DEF ShellOutputs, ShellPrints, ShellRuns, TypeOK, NoChild, Children
  <2>2. Event("text", lastChild, fg, FALSE) \in Events
    BY <2>1, <1>types DEF Event, Events
  <2>3. events' \in Seq(Events)
    BY <1>12, <1>types, <2>2, SendType DEF ShellOutputs, ShellPrints
  <2> QED BY <1>12, <2>3 DEF ShellOutputs, ShellPrints, TypeOK, runtimeVars, shellVars
<1>13. ASSUME NEW ok \in BOOLEAN, ShellFinishes(ok) PROVE TypeOK'
  <2>1. lastChild \in Children
    BY <1>13 DEF ShellFinishes, ShellPrints, ShellRuns, TypeOK, NoChild, Children
  <2>2. Event("done", lastChild, fg, ok) \in Events
    BY <2>1, <1>types DEF Event, Events
  <2>3. events' \in Seq(Events)
    BY <1>13, <1>types, <2>2, SendType DEF ShellFinishes, ShellPrints
  <2>4. ran' \in [Commands -> {"no", "begun", "ok", "failed"}]
    BY <1>13 DEF ShellFinishes, TypeOK
  <2> QED BY <1>13, <2>3, <2>4, <1>zero DEF ShellFinishes, ShellPrints, TypeOK, runtimeVars
<1>14. CASE ProgramReadsLine
  <2>1. Tail(tty) \in Seq(Commands)
    BY <1>14, <1>types DEF ProgramReadsLine
  <2> QED BY <1>14, <2>1 DEF ProgramReadsLine, TypeOK, runtimeVars
<1>15. ASSUME NEW c \in Children, ChildDies(c) PROVE TypeOK'
  BY <1>15 DEF ChildDies, TypeOK, runtimeVars, shellVars
<1>16. ASSUME NEW c \in Children, ReaderEnds(c) PROVE TypeOK'
  <2>1. Event("exited", c, 0, FALSE) \in Events
    BY <1>zero DEF Event, Events
  <2>2. events' \in Seq(Events)
    BY <1>16, <1>types, <2>1, SendType DEF ReaderEnds, SendExited
  <2> QED BY <1>16, <2>2 DEF ReaderEnds, TypeOK, runtimeVars, shellVars
<1>17. CASE UNCHANGED vars
  BY <1>17 DEF vars, runtimeVars, shellVars, TypeOK
<1> QED
  BY <1>1, <1>2, <1>3, <1>4, <1>5, <1>6, <1>7, <1>8, <1>9, <1>10, <1>11, <1>12,
     <1>13, <1>14, <1>15, <1>16, <1>17 DEF Next, Operation, Outside

\* Every reachable state is well typed; in particular the unread counter of the
\* ring never leaves the range of its u32 (NotificationRing::update).
THEOREM TypeCorrect == Spec => []TypeOK
BY TypeInit, TypeStep, PTL DEF Spec
------------------------------------------------------------------------------
(***************************************************************************)
(* Blocks and the running command.  Whatever an action is, to the blocks   *)
(* it does one of seven things.                                            *)
(***************************************************************************)
BlockStep ==
  \/ UNCHANGED <<blocks, active>>
  \/ LogSystemBlock
  \/ \E text \in Texts : CloseCommandAndLog(text)
  \/ /\ TakeSequence
     /\ blocks' = WithCommandBlock
     /\ active' = Started
  \/ /\ TakeSequence
     /\ \E text \in Texts : blocks' = FinishCommand(WithCommandBlock, Started, text)
     /\ active' = NoCommand
  \/ \E ev \in Events : AppendActiveOutput(ev)
  \/ /\ \E text \in Texts : blocks' = FinishCommand(blocks, active, text)
     /\ active' = NoCommand

LEMMA EveryStepIsABlockStep == TypeOK /\ [Next]_vars => BlockStep
<1> SUFFICES ASSUME TypeOK, [Next]_vars PROVE BlockStep
  OBVIOUS
<1>texts. {"write failed", "not running", "interrupted", "terminated", "restarted",
           "shell exited"} \subseteq Texts
  BY DEF Texts
<1>1. CASE RunCommand
  <2>1. CASE RunWhileBusy
    BY <2>1 DEF RunWhileBusy, BlockStep
  <2>2. CASE RunScriptFails
    BY <2>2 DEF RunScriptFails, BlockStep
  <2>3. CASE RunAccepted
    BY <2>3 DEF RunAccepted, BlockStep
  <2>4. ASSUME NEW text \in Texts, RunFails(text) PROVE BlockStep
    BY <2>4 DEF RunFails, BlockStep
  <2> QED BY <1>1, <2>1, <2>2, <2>3, <2>4, <1>texts DEF RunCommand
<1>2. ASSUME NEW key, NEW audited, WriteInput(key, audited) PROVE BlockStep
  BY <1>2 DEF WriteInput, BlockStep
<1>3. CASE Interrupt
  BY <1>3, <1>texts DEF Interrupt, BlockStep
<1>4. CASE Terminate
  BY <1>4, <1>texts DEF Terminate, BlockStep
<1>5. CASE Restart
  BY <1>5, <1>texts DEF Restart, BlockStep
<1>6. ASSUME NEW size, Resize(size) \/ SyncMeasuredSize(size) PROVE BlockStep
  BY <1>6 DEF Resize, SyncMeasuredSize, BlockStep
<1>7. CASE AckSessionRing \/ StopTerminalRuntime
  BY <1>7 DEF AckSessionRing, StopTerminalRuntime, BlockStep
<1>8. CASE HandleEvent
  <2>1. CASE HandleExited
    BY <2>1, <1>texts DEF HandleExited, BlockStep
  <2>2. CASE HandleOutput(Head(events))
    <3>1. Head(events) \in Events
      BY <1>8 DEF HandleEvent, TypeOK
    <3> QED BY <2>2, <3>1 DEF HandleOutput, BlockStep
  <2> QED BY <1>8, <2>1, <2>2 DEF HandleEvent
<1>9. CASE Outside
  BY <1>9 DEF Outside, ShellBegins, ShellOutputs, ShellFinishes, ShellPrints,
              ProgramReadsLine, ChildDies, ReaderEnds, runtimeVars, BlockStep
<1>10. CASE UNCHANGED vars
  BY <1>10 DEF vars, runtimeVars, BlockStep
<1> QED BY <1>1, <1>2, <1>3, <1>4, <1>5, <1>6, <1>7, <1>8, <1>9, <1>10
        DEF Next, Operation
------------------------------------------------------------------------------
(***************************************************************************)
(* The one block that streams.                                             *)
(***************************************************************************)

\* StreamingIsActive of any blocks bs and command a.
Streams(bs, a) ==
  /\ a.seq # 0 => /\ a.block_index < Len(bs)
                  /\ bs[a.block_index + 1].seq = a.seq
                  /\ bs[a.block_index + 1].state = "Streaming"
  /\ \A i \in 1..Len(bs) :
       bs[i].state = "Streaming" => a.seq # 0 /\ i = a.block_index + 1

LEMMA StreamsIsTheInvariant ==
  ASSUME blocks \in Seq(Blocks)
  PROVE  StreamingIsActive <=> Streams(blocks, active)
BY DEF StreamingIsActive, Streams, Row

\* finish_command_with_text leaves no block streaming.
LEMMA FinishKeepsStreams ==
  ASSUME NEW bs \in Seq(Blocks), NEW a \in Actives, NEW text \in Texts, Streams(bs, a)
  PROVE  Streams(FinishCommand(bs, a, text), NoCommand)
<1> DEFINE fs == FinishCommand(bs, a, text)
<1>1. Len(fs) = Len(bs)
  BY FinishCommandFacts
<1>2. ASSUME NEW i \in 1..Len(bs) PROVE fs[i].state # "Streaming"
  <2>1. CASE a.seq # 0 /\ i = a.block_index + 1
    BY <2>1, FinishCommandFacts
  <2>2. CASE a.seq = 0 \/ i # a.block_index + 1
    <3>1. fs[i] = bs[i]
      BY <2>2, FinishCommandFacts
    <3> QED BY <2>2, <3>1 DEF Streams
  <2> QED BY <2>1, <2>2
<1> QED BY <1>1, <1>2 DEF Streams, NoCommand

\* append_system_block moves the index along with the block.
LEMMA SystemBlockKeepsStreams ==
  ASSUME NEW bs \in Seq(Blocks), NEW a \in Actives, Streams(bs, a)
  PROVE  Streams(AppendSystemBlock(bs), MoveDown(a))
<1> DEFINE as == AppendSystemBlock(bs)
<1>1. /\ Len(as) = Len(bs) + 1
      /\ as[1].state = "Complete"
      /\ \A i \in 1..Len(bs) : as[i + 1] = bs[i]
  BY AppendSystemBlockFacts
<1>2. \A j \in 1..Len(as) : j = 1 \/ (j - 1 \in 1..Len(bs) /\ as[j] = bs[j - 1])
  <2> SUFFICES ASSUME NEW j \in 1..Len(as), j # 1
               PROVE  j - 1 \in 1..Len(bs) /\ as[j] = bs[j - 1]
    OBVIOUS
  <2>1. j - 1 \in 1..Len(bs) /\ (j - 1) + 1 = j
    BY <1>1
  <2> HIDE DEF as
  <2> QED BY <1>1, <2>1
<1>3. CASE a.seq = 0
  <2>1. MoveDown(a) = a
    BY <1>3 DEF MoveDown
  <2>2. \A j \in 1..Len(as) : as[j].state # "Streaming"
    BY <1>1, <1>2, <1>3 DEF Streams
  <2> QED BY <1>3, <2>1, <2>2 DEF Streams
<1>4. CASE a.seq # 0
  <2> DEFINE b == MoveDown(a)
  <2>1. b.seq = a.seq /\ b.block_index = a.block_index + 1 /\ a.block_index \in Nat
    BY <1>4 DEF MoveDown, Actives
  <2>2. a.block_index + 1 \in 1..Len(bs)
    BY <1>4, <2>1 DEF Streams
  <2>3. b.block_index < Len(as) /\ as[b.block_index + 1] = bs[a.block_index + 1]
    BY <1>1, <2>1, <2>2
  <2>4. ASSUME NEW j \in 1..Len(as), as[j].state = "Streaming"
        PROVE  j = b.block_index + 1
    <3> HIDE DEF as, b
    <3>1. j - 1 \in 1..Len(bs) /\ as[j] = bs[j - 1]
      BY <1>1, <1>2, <2>4
    <3>2. j - 1 = a.block_index + 1
      BY <2>4, <3>1 DEF Streams
    <3> QED BY <2>1, <3>2
  <2> HIDE DEF b, as
  <2> QED BY <1>4, <2>1, <2>3, <2>4 DEF Streams, b, as
<1> QED BY <1>3, <1>4

\* run_command puts the block of its command on top when no other runs.
LEMMA CommandBlockStreams ==
  ASSUME NEW bs \in Seq(Blocks), NEW a, a.seq = 0, Streams(bs, a), NEW n \in Commands
  PROVE  Streams(<<CommandBlock(bs, n)>> \o bs,
                 [seq |-> n, block_index |-> 0, began |-> FALSE])
<1> DEFINE cs == <<CommandBlock(bs, n)>> \o bs
<1>0. n \in 0..MaxCommands /\ n # 0
  BY BoundsAssumption DEF Commands
<1>1. /\ Len(cs) = Len(bs) + 1
      /\ cs[1].state = "Streaming" /\ cs[1].seq = n
      /\ \A i \in 1..Len(bs) : cs[i + 1] = bs[i]
  BY <1>0, CommandBlockFacts
<1>2. ASSUME NEW j \in 1..Len(cs), j # 1 PROVE cs[j].state # "Streaming"
  <2>1. j - 1 \in 1..Len(bs) /\ (j - 1) + 1 = j
    BY <1>1, <1>2
  <2>2. cs[j] = bs[j - 1]
    <3> HIDE DEF cs
    <3> QED BY <1>1, <2>1
  <2> QED BY <2>1, <2>2 DEF Streams
<1> HIDE DEF cs
<1> QED BY <1>0, <1>1, <1>2 DEF Streams, cs

\* Output edits the block of the running command, or closes it.
LEMMA OutputKeepsStreams ==
  ASSUME blocks \in Seq(Blocks), active \in Actives, NEW ev \in Events,
         AppendActiveOutput(ev), Streams(blocks, active)
  PROVE  Streams(blocks', active')
<1> DEFINE k == active.block_index + 1
<1>1. CASE active.seq = 0
  <2>1. blocks' = blocks /\ active' = active
    BY <1>1 DEF AppendActiveOutput
  <2> QED BY <2>1
<1>2. CASE active.seq # 0
  <2>1. k \in 1..Len(blocks) /\ blocks[k].state = "Streaming" /\ blocks[k].seq = active.seq
    BY <1>2 DEF Streams, Actives
  <2>texts. blocks[k].text \in Texts /\ {"noise", "output", "empty"} \subseteq Texts
    <3>1. blocks[k] \in Blocks
      BY <2>1
    <3> QED BY <3>1 DEF Blocks, Texts
  <2>2. ASSUME NEW text \in Texts, blocks' = Edit(blocks, active, "Streaming", text),
               active'.seq = active.seq, active'.block_index = active.block_index
        PROVE  Streams(blocks', active')
    <3>1. /\ Len(blocks') = Len(blocks)
          /\ blocks'[k].state = "Streaming" /\ blocks'[k].seq = active.seq
          /\ \A i \in 1..Len(blocks) : i # k => blocks'[i] = blocks[i]
      BY <2>1, <2>2, EditFacts
    <3> QED BY <1>2, <2>1, <2>2, <3>1 DEF Streams
  <2>3. ASSUME NEW text \in Texts, blocks' = Edit(blocks, active, "Complete", text),
               active' = NoCommand
        PROVE  Streams(blocks', active')
    <3>1. FinishCommand(blocks, active, text) = blocks'
      BY <1>2, <2>3 DEF FinishCommand
    <3> QED BY <2>3, <3>1, FinishKeepsStreams
  <2>4. Row(blocks, active) = blocks[k]
    BY DEF Row
  <2>5. CASE ~active.began
    <3>1. \E text \in {"noise", "empty"} : blocks' = Edit(blocks, active, "Streaming", text)
      BY <1>2, <2>1, <2>4, <2>5 DEF AppendActiveOutput
    <3>2. active'.seq = active.seq /\ active'.block_index = active.block_index
      BY <1>2, <2>5 DEF AppendActiveOutput, Actives
    <3> QED BY <2>2, <2>texts, <3>1, <3>2
  <2>6. CASE active.began
    <3>1. \/ /\ blocks' = Edit(blocks, active, "Streaming", "output")
             /\ active' = active
          \/ /\ blocks' = Edit(blocks, active, "Complete", blocks[k].text)
             /\ active' = NoCommand
      BY <1>2, <2>1, <2>4, <2>6 DEF AppendActiveOutput
    <3> QED BY <2>2, <2>3, <2>texts, <3>1
  <2> QED BY <2>5, <2>6
<1> QED BY <1>1, <1>2

LEMMA StreamsStep ==
  ASSUME TypeOK, StreamingIsActive, BlockStep, TypeOK'
  PROVE  StreamingIsActive'
<1>1. /\ blocks \in Seq(Blocks) /\ active \in Actives
      /\ blocks' \in Seq(Blocks)
      /\ Streams(blocks, active)
  BY StreamsIsTheInvariant DEF TypeOK, Actives
<1>2. SUFFICES Streams(blocks', active')
  BY <1>1 DEF StreamingIsActive, Streams, Row
<1>nc. NoCommand \in Actives /\ MoveDown(NoCommand) = NoCommand
  BY NoCommandType DEF NoCommand, MoveDown
<1>3. CASE UNCHANGED <<blocks, active>>
  BY <1>1, <1>3
<1>4. CASE LogSystemBlock
  BY <1>1, <1>4, SystemBlockKeepsStreams DEF LogSystemBlock
<1>5. ASSUME NEW text \in Texts, CloseCommandAndLog(text) PROVE Streams(blocks', active')
  <2>1. /\ FinishCommand(blocks, active, text) \in Seq(Blocks)
        /\ Streams(FinishCommand(blocks, active, text), NoCommand)
    BY <1>1, FinishCommandFacts, FinishKeepsStreams
  <2> QED BY <1>5, <1>nc, <2>1, SystemBlockKeepsStreams DEF CloseCommandAndLog
<1>6. ASSUME active.seq = 0, next_command_sequence \in Commands
      PROVE  /\ WithCommandBlock \in Seq(Blocks) /\ Started \in Actives
             /\ Streams(WithCommandBlock, Started)
  <2>1. next_command_sequence \in 0..MaxCommands
    BY <1>6, BoundsAssumption DEF Commands
  <2> QED BY <1>1, <1>6, <2>1, CommandBlockFacts, CommandBlockStreams
          DEF WithCommandBlock, Started, Actives
<1>7. ASSUME NEW text \in Texts, active.seq = 0, next_command_sequence \in Commands,
             blocks' = FinishCommand(WithCommandBlock, Started, text), active' = NoCommand
      PROVE  Streams(blocks', active')
  BY <1>6, <1>7, FinishKeepsStreams
<1>8. ASSUME NEW ev \in Events, AppendActiveOutput(ev) PROVE Streams(blocks', active')
  BY <1>1, <1>8, OutputKeepsStreams
<1>9. ASSUME NEW text \in Texts, blocks' = FinishCommand(blocks, active, text),
             active' = NoCommand
      PROVE  Streams(blocks', active')
  BY <1>1, <1>9, FinishKeepsStreams
<1> QED BY <1>3, <1>4, <1>5, <1>6, <1>7, <1>8, <1>9 DEF BlockStep, TakeSequence

LEMMA StreamsInit == Init => StreamingIsActive
BY DEF Init, StreamingIsActive, NoCommand

\* The block that streams is the one active_command points at, and there is one
\* exactly while a command runs: append_system_block, run_command and every way
\* a command ends keep index and block together.
THEOREM OneBlockStreams == Spec => []StreamingIsActive
<1>1. TypeOK /\ StreamingIsActive /\ [Next]_vars => StreamingIsActive'
  BY TypeStep, EveryStepIsABlockStep, StreamsStep
<1> QED BY <1>1, TypeCorrect, StreamsInit, PTL DEF Spec
------------------------------------------------------------------------------
(***************************************************************************)
(* Complete blocks are records.                                            *)
(***************************************************************************)

\* Every complete block of bs is in cs, unchanged and with its number.
Keeps(bs, cs) ==
  \A k \in 1..Len(bs) :
    Numbered(bs, k).state = "Complete" =>
      k <= Len(cs) /\ Numbered(cs, k) = Numbered(bs, k)

LEMMA EditKeeps ==
  ASSUME NEW bs \in Seq(Blocks), NEW cs \in Seq(Blocks), Len(cs) = Len(bs),
         NEW a \in Actives, Streams(bs, a),
         \A i \in 1..Len(bs) : (a.seq = 0 \/ i # a.block_index + 1) => cs[i] = bs[i]
  PROVE  Keeps(bs, cs)
<1> SUFFICES ASSUME NEW k \in 1..Len(bs), Numbered(bs, k).state = "Complete"
             PROVE  Numbered(cs, k) = Numbered(bs, k)
  BY DEF Keeps
<1>1. Len(bs) - k + 1 \in 1..Len(bs)
  OBVIOUS
<1>2. a.seq = 0 \/ Len(bs) - k + 1 # a.block_index + 1
  BY DEF Streams, Numbered
<1> QED BY <1>1, <1>2 DEF Numbered

LEMMA OnTopKeeps ==
  ASSUME NEW bs \in Seq(Blocks), NEW cs \in Seq(Blocks), Len(cs) = Len(bs) + 1,
         \A i \in 1..Len(bs) : cs[i + 1] = bs[i]
  PROVE  Keeps(bs, cs)
<1> SUFFICES ASSUME NEW k \in 1..Len(bs)
             PROVE  k <= Len(cs) /\ Numbered(cs, k) = Numbered(bs, k)
  BY DEF Keeps
<1>1. Len(bs) - k + 1 \in 1..Len(bs) /\ Len(cs) - k + 1 = (Len(bs) - k + 1) + 1
  OBVIOUS
<1> QED BY <1>1 DEF Numbered

LEMMA KeepsTransitive ==
  ASSUME NEW bs \in Seq(Blocks), NEW cs \in Seq(Blocks), NEW ds,
         Keeps(bs, cs), Keeps(cs, ds)
  PROVE  Keeps(bs, ds)
BY DEF Keeps

LEMMA FinishKeeps ==
  ASSUME NEW bs \in Seq(Blocks), NEW a \in Actives, NEW text \in Texts, Streams(bs, a)
  PROVE  Keeps(bs, FinishCommand(bs, a, text))
<1> DEFINE cs == FinishCommand(bs, a, text)
<1>1. /\ cs \in Seq(Blocks) /\ Len(cs) = Len(bs)
      /\ \A i \in 1..Len(bs) : (a.seq = 0 \/ i # a.block_index + 1) => cs[i] = bs[i]
  BY FinishCommandFacts
<1> HIDE DEF cs
<1> QED BY <1>1, EditKeeps DEF cs

LEMMA SystemBlockKeeps ==
  ASSUME NEW bs \in Seq(Blocks)
  PROVE  Keeps(bs, AppendSystemBlock(bs))
BY AppendSystemBlockFacts, OnTopKeeps

LEMMA BlockStepKeeps ==
  ASSUME TypeOK, StreamingIsActive, BlockStep
  PROVE  Keeps(blocks, blocks')
<1>1. /\ blocks \in Seq(Blocks) /\ active \in Actives /\ Streams(blocks, active)
  BY StreamsIsTheInvariant DEF TypeOK, Actives
<1>2. CASE UNCHANGED <<blocks, active>>
  BY <1>2 DEF Keeps
<1>3. CASE LogSystemBlock
  BY <1>1, <1>3, SystemBlockKeeps DEF LogSystemBlock
<1>4. ASSUME NEW text \in Texts, CloseCommandAndLog(text) PROVE Keeps(blocks, blocks')
  <2> DEFINE cs == FinishCommand(blocks, active, text)
  <2>1. cs \in Seq(Blocks) /\ Keeps(blocks, cs)
    BY <1>1, FinishCommandFacts, FinishKeeps
  <2>2. blocks' = AppendSystemBlock(cs)
    BY <1>4 DEF CloseCommandAndLog
  <2> HIDE DEF cs
  <2>3. Keeps(cs, blocks') 
    BY <2>1, <2>2, SystemBlockKeeps
  <2> QED BY <1>1, <2>1, <2>3, KeepsTransitive
<1>5. ASSUME active.seq = 0, next_command_sequence \in Commands
      PROVE  /\ WithCommandBlock \in Seq(Blocks) /\ Started \in Actives
             /\ Streams(WithCommandBlock, Started)
             /\ Keeps(blocks, WithCommandBlock)
  <2>1. next_command_sequence \in 0..MaxCommands
    BY <1>5, BoundsAssumption DEF Commands
  <2>2. Streams(WithCommandBlock, Started)
    BY <1>1, <1>5, CommandBlockStreams DEF WithCommandBlock, Started
  <2>3. Started \in Actives
    BY <2>1 DEF Started, Actives
  <2> DEFINE n == next_command_sequence
  <2>4. /\ WithCommandBlock \in Seq(Blocks)
        /\ Len(WithCommandBlock) = Len(blocks) + 1
        /\ \A i \in 1..Len(blocks) : WithCommandBlock[i + 1] = blocks[i]
    BY <1>1, <2>1, CommandBlockFacts DEF WithCommandBlock
  <2> QED BY <1>1, <2>2, <2>3, <2>4, OnTopKeeps
<1>6. ASSUME NEW text \in Texts, active.seq = 0, next_command_sequence \in Commands,
             blocks' = FinishCommand(WithCommandBlock, Started, text)
      PROVE  Keeps(blocks, blocks')
  <2>1. Keeps(WithCommandBlock, blocks')
    BY <1>5, <1>6, FinishKeeps
  <2> QED BY <1>1, <1>5, <1>6, <2>1, KeepsTransitive
<1>7. ASSUME NEW ev \in Events, AppendActiveOutput(ev) PROVE Keeps(blocks, blocks')
  <2>1. CASE active.seq = 0
    <3>1. blocks' = blocks
      BY <1>7, <2>1 DEF AppendActiveOutput
    <3> QED BY <3>1 DEF Keeps
  <2>2. CASE active.seq # 0
    BY <1>1, <1>7, <2>2, OutputKeepsBlocks, EditKeeps
  <2> QED BY <2>1, <2>2
<1>8. ASSUME NEW text \in Texts, blocks' = FinishCommand(blocks, active, text)
      PROVE  Keeps(blocks, blocks')
  BY <1>1, <1>8, FinishKeeps
<1> QED BY <1>2, <1>3, <1>4, <1>5, <1>6, <1>7, <1>8 DEF BlockStep, TakeSequence

\* A complete block is never edited, moved to another number or dropped, by any
\* operation and any output: only the block of the running command is edited,
\* and that one streams (OneBlockStreams).
THEOREM CompletedBlocksAreRecords == Spec => CompletedBlocksFrozen
<1>1. TypeOK /\ StreamingIsActive /\ [Next]_vars =>
        [\A k \in 1..Len(blocks) :
           Numbered(blocks, k).state = "Complete" =>
             k <= Len(blocks') /\ Numbered(blocks', k) = Numbered(blocks, k)]_blocks
  BY EveryStepIsABlockStep, BlockStepKeeps DEF Keeps
<1> QED BY <1>1, TypeCorrect, OneBlockStreams, PTL DEF Spec, CompletedBlocksFrozen
------------------------------------------------------------------------------
(***************************************************************************)
(* The runtime and the shell it holds.                                     *)
(***************************************************************************)

\* The receiver hears the newest shell only, and once that shell's last event
\* was sent it was waited for.  NoOrphanShell needs it: the event that makes
\* the runtime drop its PtySession must not come from an older shell.
HearsNewest ==
  /\ terminal \in {NoChild, lastChild}
  /\ feeds \subseteq {lastChild}
  /\ \A i \in 1..Len(events) :
       /\ events[i].from = lastChild
       /\ events[i].type = "exited" => child[lastChild] = "reaped"

OrphanInv == HearsNewest /\ NoOrphanShell

\* Killing hangs up the shell that is held and leaves the others alone.
LEMMA HangUpFacts ==
  ASSUME child \in [Children -> ChildStates], NEW c \in Children
  PROVE  /\ HangUp(c) \in [Children -> ChildStates]
         /\ HangUp(c)[c] # "running"
         /\ \A d \in Children :
              /\ d # c => HangUp(c)[d] = child[d]
              /\ child[d] = "reaped" => HangUp(c)[d] = "reaped"
BY DEF HangUp, ChildStates

LEMMA KilledTerminalFacts ==
  ASSUME TypeOK, NoOrphanShell
  PROVE  /\ KilledTerminal \in [Children -> ChildStates]
         /\ \A d \in Children :
              /\ KilledTerminal[d] # "running"
              /\ child[d] = "reaped" => KilledTerminal[d] = "reaped"
<1>1. child \in [Children -> ChildStates] /\ terminal \in 0..MaxChildren
  BY DEF TypeOK, ChildStates
<1>2. CASE terminal = NoChild
  <2>1. \A d \in Children : child[d] # "running"
    BY <1>2 DEF NoOrphanShell, NoChild, Children
  <2> QED BY <1>1, <1>2, <2>1 DEF KilledTerminal
<1>3. CASE terminal # NoChild
  <2>1. terminal \in Children
    BY <1>1, <1>3 DEF NoChild, Children
  <2>2. \A d \in Children : d # terminal => child[d] # "running"
    BY DEF NoOrphanShell
  <2> QED BY <1>1, <1>3, <2>1, <2>2, HangUpFacts DEF KilledTerminal
<1> QED BY <1>2, <1>3

LEMMA OrphanInit == Init => OrphanInv
BY DEF Init, OrphanInv, HearsNewest, NoOrphanShell, NoChild

\* Sending keeps what the receiver knows about the newest shell.
LEMMA SendKeepsHearing ==
  ASSUME TypeOK, HearsNewest, NEW ev \in Events, Send(ev),
         UNCHANGED <<terminal, feeds, lastChild>>,
         child[lastChild] = "reaped" => child'[lastChild] = "reaped",
         (ev.from = lastChild /\ ev.type = "exited") => child'[lastChild] = "reaped"
  PROVE  HearsNewest'
<1>1. CASE ev.from \in feeds
  <2>1. events' = Append(events, ev) /\ ev.from = lastChild
    BY <1>1 DEF Send, HearsNewest
  <2>2. events \in Seq(Events)
    BY DEF TypeOK
  <2>3. ASSUME NEW i \in 1..Len(events')
        PROVE  /\ events'[i].from = lastChild
               /\ events'[i].type = "exited" => child'[lastChild] = "reaped"
    <3>1. CASE i \in 1..Len(events)
      <4>1. events'[i] = events[i]
        BY <2>1, <2>2, <3>1
      <4> QED BY <3>1, <4>1 DEF HearsNewest
    <3>2. CASE i \notin 1..Len(events)
      <4>1. events'[i] = ev
        BY <2>1, <2>2, <2>3, <3>2
      <4> QED BY <2>1, <4>1
    <3> QED BY <3>1, <3>2
  <2> QED BY <2>3 DEF HearsNewest
<1>2. CASE ev.from \notin feeds
  <2>1. events' = events
    BY <1>2 DEF Send
  <2> QED BY <2>1 DEF HearsNewest
<1> QED BY <1>1, <1>2

LEMMA OrphanStep == TypeOK /\ OrphanInv /\ [Next]_vars => OrphanInv'
<1> SUFFICES ASSUME TypeOK, HearsNewest, NoOrphanShell, [Next]_vars
             PROVE  HearsNewest' /\ NoOrphanShell'
  BY DEF OrphanInv
<1>types. /\ child \in [Children -> ChildStates]
          /\ terminal \in 0..MaxChildren /\ lastChild \in 0..MaxChildren
          /\ events \in Seq(Events)
  BY DEF TypeOK, ChildStates
<1>1. CASE UNCHANGED <<open, terminal, events, feeds, lastChild, child>>
  BY <1>1 DEF HearsNewest, NoOrphanShell
<1>2. CASE RunCommand
  BY <1>1, <1>2 DEF RunCommand, RunWhileBusy, RunScriptFails, RunAccepted, RunFails
<1>3. ASSUME NEW key, NEW audited, WriteInput(key, audited)
      PROVE  HearsNewest' /\ NoOrphanShell'
  BY <1>1, <1>3 DEF WriteInput
<1>4. CASE Interrupt
  BY <1>1, <1>4 DEF Interrupt
<1>5. CASE Terminate
  <2>1. CASE UNCHANGED <<child, terminal>>
    BY <1>1, <1>5, <2>1 DEF Terminate
  <2>2. CASE terminal # NoChild /\ child' = HangUp(terminal) /\ terminal' = NoChild
    <3>1. terminal \in Children /\ terminal = lastChild
      BY <1>types, <2>2 DEF NoChild, Children, HearsNewest
    <3>2. UNCHANGED <<open, events, feeds, lastChild>>
      BY <1>5 DEF Terminate
    <3>3. HearsNewest'
      BY <1>types, <2>2, <3>1, <3>2, HangUpFacts DEF HearsNewest
    <3>4. NoOrphanShell'
      BY <1>types, <2>2, <3>1, HangUpFacts DEF NoOrphanShell
    <3> QED BY <3>3, <3>4
  <2> QED BY <1>5, <2>1, <2>2 DEF Terminate
<1>6. CASE Restart
  <2>1. events' = <<>> /\ open /\ open' = open
    BY <1>6 DEF Restart
  <2>2. CASE RestartSpawns
    <3>1. lastChild + 1 \in Children
      BY <1>types, <2>2, BoundsAssumption DEF RestartSpawns, Children
    <3>2. terminal' = lastChild' /\ feeds' = {lastChild'}
      BY <2>2 DEF RestartSpawns, NewChannel
    <3>3. \A d \in Children : child'[d] = "running" => d = terminal'
      BY <2>2, <3>1, KilledTerminalFacts DEF RestartSpawns
    <3> QED BY <2>1, <3>2, <3>3 DEF HearsNewest, NoOrphanShell
  <2>3. CASE RestartFails
    <3>1. \A d \in Children : child'[d] # "running"
      BY <2>3, KilledTerminalFacts DEF RestartFails
    <3>2. terminal' = NoChild /\ feeds' = {}
      BY <2>3 DEF RestartFails
    <3> QED BY <2>1, <3>1, <3>2 DEF HearsNewest, NoOrphanShell
  <2> QED BY <1>6, <2>2, <2>3 DEF Restart
<1>7. ASSUME NEW size, Resize(size) \/ SyncMeasuredSize(size)
      PROVE  HearsNewest' /\ NoOrphanShell'
  BY <1>1, <1>7 DEF Resize, SyncMeasuredSize
<1>8. CASE AckSessionRing
  BY <1>1, <1>8 DEF AckSessionRing
<1>9. CASE StopTerminalRuntime
  <2>1. \A d \in Children : child'[d] # "running"
    BY <1>9, KilledTerminalFacts DEF StopTerminalRuntime
  <2>2. terminal' = NoChild /\ feeds' = {} /\ events' = <<>>
    BY <1>9 DEF StopTerminalRuntime
  <2> QED BY <2>1, <2>2 DEF HearsNewest, NoOrphanShell
<1>10. CASE HandleEvent
  <2>1. /\ events # <<>> /\ events' = Tail(events)
        /\ UNCHANGED <<open, feeds, lastChild, child>>
    BY <1>10 DEF HandleEvent
  <2>2. \A i \in 1..Len(events') : events'[i] = events[i + 1] /\ i + 1 \in 1..Len(events)
    BY <1>types, <2>1
  <2>3. CASE HandleExited /\ Head(events).type = "exited"
    <3>1. child[lastChild] = "reaped"
      <4>1. 1 \in 1..Len(events) /\ Head(events) = events[1]
        BY <1>types, <2>1
      <4> QED BY <2>3, <4>1 DEF HearsNewest
    <3>2. terminal' = NoChild
      BY <2>3 DEF HandleExited
    <3>3. \A d \in Children : child[d] # "running"
      BY <3>1 DEF NoOrphanShell, HearsNewest, NoChild, Children
    <3> QED BY <2>1, <2>2, <3>2, <3>3 DEF HearsNewest, NoOrphanShell
  <2>4. CASE HandleOutput(Head(events))
    <3>1. terminal' = terminal
      BY <2>4 DEF HandleOutput
    <3> QED BY <2>1, <2>2, <3>1 DEF HearsNewest, NoOrphanShell
  <2> QED BY <1>10, <2>3, <2>4 DEF HandleEvent
<1>11. ASSUME NEW type \in {"begin", "text", "done"}, NEW seq \in 0..MaxCommands,
              NEW ok \in BOOLEAN, ShellPrints(type, seq, ok)
       PROVE  HearsNewest' /\ NoOrphanShell'
  <2>1. lastChild \in Children
    BY <1>types, <1>11 DEF ShellPrints, ShellRuns, NoChild, Children
  <2>2. LET ev == Event(type, lastChild, seq, ok)
        IN  ev \in Events /\ Send(ev) /\ ev.type # "exited"
    BY <1>11, <2>1 DEF ShellPrints, Event, Events
  <2>3. UNCHANGED <<open, terminal, feeds, lastChild, child>>
    BY <1>11 DEF ShellPrints, runtimeVars
  <2>4. HearsNewest'
    BY <2>2, <2>3, SendKeepsHearing
  <2> QED BY <2>3, <2>4 DEF NoOrphanShell
<1>12. CASE ShellBegins \/ ShellOutputs \/ \E ok \in BOOLEAN : ShellFinishes(ok)
  <2>1. ASSUME tty # <<>> PROVE Head(tty) \in 0..MaxCommands
    <3>1. tty \in Seq(Commands)
      BY DEF TypeOK
    <3>2. Head(tty) \in Commands
      BY <2>1, <3>1
    <3> QED BY <3>2, BoundsAssumption DEF Commands
  <2>2. fg \in 0..MaxCommands
    BY DEF TypeOK
  <2> QED BY <1>11, <1>12, <2>1, <2>2 DEF ShellBegins, ShellOutputs, ShellFinishes
<1>13. CASE ProgramReadsLine
  BY <1>1, <1>13 DEF ProgramReadsLine, runtimeVars
<1>14. ASSUME NEW c \in Children, ChildDies(c) PROVE HearsNewest' /\ NoOrphanShell'
  <2>1. /\ UNCHANGED <<open, terminal, events, feeds, lastChild>>
        /\ \A d \in Children : /\ child'[d] = "running" => child[d] = "running"
                               /\ child[d] = "reaped" => child'[d] = "reaped"
    BY <1>14, <1>types DEF ChildDies, runtimeVars
  <2>2. ASSUME NEW i \in 1..Len(events) PROVE lastChild \in Children
    <3>1. events[i] \in Events
      BY <1>types
    <3> QED BY <3>1 DEF HearsNewest, Events
  <2> QED BY <2>1, <2>2 DEF HearsNewest, NoOrphanShell
<1>15. ASSUME NEW c \in Children, ReaderEnds(c) PROVE HearsNewest' /\ NoOrphanShell'
  <2>1. /\ UNCHANGED <<open, terminal, feeds, lastChild>>
        /\ child'[c] = "reaped"
        /\ \A d \in Children : /\ child'[d] = "running" => child[d] = "running"
                               /\ child[d] = "reaped" => child'[d] = "reaped"
    BY <1>15, <1>types DEF ReaderEnds, runtimeVars
  <2>2. Event("exited", c, 0, FALSE) \in Events /\ Send(Event("exited", c, 0, FALSE))
    BY <1>15, BoundsAssumption DEF ReaderEnds, SendExited, Event, Events
  <2>3. Event("exited", c, 0, FALSE).from = c
    BY DEF Event
  <2>4. child[lastChild] = "reaped" => child'[lastChild] = "reaped"
    <3>1. CASE lastChild \in Children
      BY <2>1, <3>1
    <3>2. CASE lastChild \notin Children
      BY <1>15, <1>types, <3>2 DEF ReaderEnds
    <3> QED BY <3>1, <3>2
  <2>5. HearsNewest'
    BY <2>1, <2>2, <2>3, <2>4, SendKeepsHearing
  <2> QED BY <2>1, <2>5 DEF NoOrphanShell
<1>16. CASE UNCHANGED vars
  BY <1>1, <1>16 DEF vars, runtimeVars
<1> QED
  BY <1>2, <1>3, <1>4, <1>5, <1>6, <1>7, <1>8, <1>9, <1>10, <1>12, <1>13, <1>14,
     <1>15, <1>16 DEF Next, Operation, Outside

\* No shell that was not told to stop is ever let go: the runtime drops its
\* PtySession only after it killed the shell or after the last event of that
\* very shell, which is sent when the shell is gone.
THEOREM NoShellIsOrphaned == Spec => []NoOrphanShell
<1>1. OrphanInv => NoOrphanShell
  BY DEF OrphanInv
<1> QED BY <1>1, OrphanInit, OrphanStep, TypeCorrect, PTL DEF Spec
------------------------------------------------------------------------------
(***************************************************************************)
(* A terminal session implements CommandLedger.                            *)
(*                                                                         *)
(* The mapping reads the ledger off the blocks.  Two facts make every step *)
(* of the session a step of the ledger or none: the one block that streams *)
(* is that of the running command (OneBlockStreams), and a number that is  *)
(* still to be given out is on no block.                                   *)
(***************************************************************************)
Mentions(bs, n) == \E i \in 1..Len(bs) : bs[i].seq = n

NumbersAreTaken ==
  \A n \in Commands : Mentions(blocks, n) => n < next_command_sequence
------------------------------------------------------------------------------
(***************************************************************************)
(* What the operators on blocks do to the numbers the blocks have.         *)
(***************************************************************************)
LEMMA FinishMentions ==
  ASSUME NEW bs \in Seq(Blocks), NEW a \in Actives, NEW text \in Texts, NEW n
  PROVE  Mentions(FinishCommand(bs, a, text), n) <=> Mentions(bs, n)
<1> DEFINE fs == FinishCommand(bs, a, text)
<1>1. Len(fs) = Len(bs) /\ \A i \in 1..Len(bs) : fs[i].seq = bs[i].seq
  BY FinishCommandFacts
<1> HIDE DEF fs
<1> QED BY <1>1 DEF Mentions, fs

LEMMA SystemBlockMentions ==
  ASSUME NEW bs \in Seq(Blocks), NEW n, n # 0
  PROVE  Mentions(AppendSystemBlock(bs), n) <=> Mentions(bs, n)
<1> DEFINE cs == AppendSystemBlock(bs)
<1>0. SystemBlock(bs).seq = 0
  BY DEF SystemBlock, Block
<1>1. /\ Len(cs) = Len(bs) + 1
      /\ cs[1].seq = 0
      /\ \A i \in 1..Len(bs) : cs[i + 1] = bs[i]
  BY <1>0, AppendSystemBlockFacts
<1> HIDE DEF cs
<1>2. ASSUME NEW i \in 1..Len(cs), cs[i].seq = n
      PROVE  Mentions(bs, n)
  <2>1. i - 1 \in 1..Len(bs) /\ (i - 1) + 1 = i
    BY <1>1, <1>2
  <2>2. bs[i - 1].seq = n
    BY <1>1, <1>2, <2>1
  <2> QED BY <2>1, <2>2 DEF Mentions
<1>3. ASSUME NEW i \in 1..Len(bs), bs[i].seq = n
      PROVE  i + 1 \in 1..Len(cs) /\ cs[i + 1].seq = n
  BY <1>1, <1>3
<1> QED BY <1>2, <1>3 DEF Mentions, cs

LEMMA CommandBlockMentions ==
  ASSUME NEW bs \in Seq(Blocks), NEW m \in 0..MaxCommands, NEW n
  PROVE  Mentions(<<CommandBlock(bs, m)>> \o bs, n) <=> n = m \/ Mentions(bs, n)
<1> DEFINE cs == <<CommandBlock(bs, m)>> \o bs
<1>1. /\ Len(cs) = Len(bs) + 1
      /\ cs[1].seq = m
      /\ \A i \in 1..Len(bs) : cs[i + 1] = bs[i]
  BY CommandBlockFacts
<1> HIDE DEF cs
<1>2. ASSUME NEW i \in 1..Len(cs), cs[i].seq = n, n # m
      PROVE  Mentions(bs, n)
  <2>1. i - 1 \in 1..Len(bs) /\ (i - 1) + 1 = i
    BY <1>1, <1>2
  <2>2. bs[i - 1].seq = n
    BY <1>1, <1>2, <2>1
  <2> QED BY <2>1, <2>2 DEF Mentions
<1>3. ASSUME NEW i \in 1..Len(bs), bs[i].seq = n
      PROVE  i + 1 \in 1..Len(cs) /\ cs[i + 1].seq = n
  BY <1>1, <1>3
<1>4. 1 \in 1..Len(cs) /\ cs[1].seq = m
  BY <1>1
<1> QED BY <1>2, <1>3, <1>4 DEF Mentions, cs

LEMMA EditMentions ==
  ASSUME NEW bs \in Seq(Blocks), NEW a \in Actives, NEW state \in {"Streaming", "Complete"},
         NEW text \in Texts, NEW n
  PROVE  Mentions(Edit(bs, a, state, text), n) <=> Mentions(bs, n)
<1> DEFINE es == Edit(bs, a, state, text)
<1>1. Len(es) = Len(bs) /\ \A i \in 1..Len(bs) : es[i].seq = bs[i].seq
  BY EditFacts DEF Actives
<1> HIDE DEF es
<1> QED BY <1>1 DEF Mentions, es

\* Output leaves the numbers alone, and ends the running command or not.
LEMMA OutputMentions ==
  ASSUME blocks \in Seq(Blocks), active \in Actives, Streams(blocks, active),
         NEW ev \in Events, AppendActiveOutput(ev)
  PROVE  /\ active'.seq \in {0, active.seq}
         /\ \A n : Mentions(blocks', n) <=> Mentions(blocks, n)
<1>1. active'.seq \in {0, active.seq}
  BY DEF AppendActiveOutput, NoCommand, Actives
<1>2. CASE active.seq = 0
  BY <1>1, <1>2 DEF AppendActiveOutput
<1>3. CASE active.seq # 0
  <2> DEFINE k == active.block_index + 1
  <2>1. k \in 1..Len(blocks) /\ blocks[k] \in Blocks /\ Row(blocks, active) = blocks[k]
    BY <1>3 DEF Streams, Actives, Row
  <2>2. blocks[k].text \in Texts /\ {"noise", "output", "empty"} \subseteq Texts
    BY <2>1 DEF Blocks, Texts
  <2>3. blocks[k].state \in {"Streaming", "Complete"}
    BY <2>1 DEF Blocks
  <2>4. \E state \in {"Streaming", "Complete"}, text \in Texts :
          blocks' = Edit(blocks, active, state, text)
    BY <1>3, <2>1, <2>2, <2>3 DEF AppendActiveOutput
  <2> QED BY <1>1, <2>4, EditMentions
<1> QED BY <1>2, <1>3
------------------------------------------------------------------------------
(***************************************************************************)
(* What a step does to the numbers on the blocks and the one that runs.    *)
(***************************************************************************)
LedgerStep ==
  \/ /\ active'.seq \in {0, active.seq}
     /\ \A n \in Commands : Mentions(blocks', n) <=> Mentions(blocks, n)
  \/ /\ TakeSequence
     /\ active'.seq \in {0, next_command_sequence}
     /\ \A n \in Commands :
          Mentions(blocks', n) <=> n = next_command_sequence \/ Mentions(blocks, n)

LEMMA EveryStepIsALedgerStep ==
  ASSUME TypeOK, StreamingIsActive, BlockStep
  PROVE  LedgerStep
<1>1. /\ blocks \in Seq(Blocks) /\ active \in Actives /\ Streams(blocks, active)
  BY StreamsIsTheInvariant DEF TypeOK, Actives
<1>nc. NoCommand \in Actives /\ NoCommand.seq = 0
  BY NoCommandType DEF NoCommand
<1>2. CASE UNCHANGED <<blocks, active>>
  BY <1>2 DEF LedgerStep
<1>3. CASE LogSystemBlock
  <2>1. active'.seq = active.seq
    BY <1>1, <1>3 DEF LogSystemBlock, MoveDown, Actives
  <2>2. \A n \in Commands : Mentions(blocks', n) <=> Mentions(blocks, n)
    BY <1>1, <1>3, SystemBlockMentions DEF LogSystemBlock, Commands
  <2> QED BY <2>1, <2>2 DEF LedgerStep
<1>4. ASSUME NEW text \in Texts, CloseCommandAndLog(text) PROVE LedgerStep
  <2> DEFINE cs == FinishCommand(blocks, active, text)
  <2>1. cs \in Seq(Blocks) /\ \A n : Mentions(cs, n) <=> Mentions(blocks, n)
    BY <1>1, FinishCommandFacts, FinishMentions
  <2>2. blocks' = AppendSystemBlock(cs) /\ active' = NoCommand
    BY <1>4 DEF CloseCommandAndLog
  <2> HIDE DEF cs
  <2>3. \A n \in Commands : Mentions(blocks', n) <=> Mentions(cs, n)
    BY <2>1, <2>2, SystemBlockMentions DEF Commands
  <2> QED BY <1>nc, <2>1, <2>2, <2>3 DEF LedgerStep
<1>5. ASSUME TakeSequence
      PROVE  /\ WithCommandBlock \in Seq(Blocks)
             /\ Started \in Actives /\ Started.seq = next_command_sequence
             /\ \A n : Mentions(WithCommandBlock, n)
                         <=> n = next_command_sequence \/ Mentions(blocks, n)
  <2>1. next_command_sequence \in 0..MaxCommands
    BY <1>5, BoundsAssumption DEF Commands, TakeSequence
  <2>2. Started \in Actives /\ Started.seq = next_command_sequence
    BY <2>1 DEF Started, Actives
  <2>3. WithCommandBlock \in Seq(Blocks)
    BY <1>1, <2>1, CommandBlockFacts DEF WithCommandBlock
  <2> QED BY <1>1, <2>1, <2>2, <2>3, CommandBlockMentions DEF WithCommandBlock
<1>6. CASE TakeSequence /\ blocks' = WithCommandBlock /\ active' = Started
  BY <1>5, <1>6 DEF LedgerStep
<1>7. ASSUME NEW text \in Texts, TakeSequence, active' = NoCommand,
             blocks' = FinishCommand(WithCommandBlock, Started, text)
      PROVE  LedgerStep
  <2>1. \A n : Mentions(blocks', n) <=> Mentions(WithCommandBlock, n)
    BY <1>5, <1>7, FinishMentions
  <2> QED BY <1>nc, <1>5, <1>7, <2>1 DEF LedgerStep
<1>8. ASSUME NEW ev \in Events, AppendActiveOutput(ev) PROVE LedgerStep
  BY <1>1, <1>8, OutputMentions DEF LedgerStep
<1>9. ASSUME NEW text \in Texts, active' = NoCommand,
             blocks' = FinishCommand(blocks, active, text)
      PROVE  LedgerStep
  BY <1>1, <1>nc, <1>9, FinishMentions DEF LedgerStep
<1> QED BY <1>2, <1>3, <1>4, <1>6, <1>7, <1>8, <1>9 DEF BlockStep
------------------------------------------------------------------------------
(***************************************************************************)
(* Numbers are given out in order.                                         *)
(***************************************************************************)
LEMMA NumbersGrow ==
  TypeOK /\ [Next]_vars =>
    next_command_sequence' \in {next_command_sequence, next_command_sequence + 1}
<1> SUFFICES ASSUME TypeOK, [Next]_vars
             PROVE  next_command_sequence' \in {next_command_sequence, next_command_sequence + 1}
  OBVIOUS
<1>1. CASE RunCommand
  BY <1>1 DEF RunCommand, RunWhileBusy, RunScriptFails, RunAccepted, RunFails, TakeSequence
<1>2. ASSUME NEW key, NEW audited, WriteInput(key, audited)
      PROVE  UNCHANGED next_command_sequence
  BY <1>2 DEF WriteInput
<1>3. CASE Interrupt \/ Terminate \/ Restart \/ AckSessionRing \/ StopTerminalRuntime
  BY <1>3 DEF Interrupt, Terminate, Restart, AckSessionRing, StopTerminalRuntime
<1>4. ASSUME NEW size, Resize(size) \/ SyncMeasuredSize(size)
      PROVE  UNCHANGED next_command_sequence
  BY <1>4 DEF Resize, SyncMeasuredSize
<1>5. CASE HandleEvent
  BY <1>5 DEF HandleEvent
<1>6. CASE Outside
  BY <1>6 DEF Outside, ShellBegins, ShellOutputs, ShellFinishes, ShellPrints,
              ProgramReadsLine, ChildDies, ReaderEnds, runtimeVars
<1>7. CASE UNCHANGED vars
  BY <1>7 DEF vars, runtimeVars
<1> QED BY <1>1, <1>2, <1>3, <1>4, <1>5, <1>6, <1>7 DEF Next, Operation

LEMMA NumbersInit == Init => NumbersAreTaken
BY DEF Init, NumbersAreTaken, Mentions

LEMMA NumbersStep ==
  TypeOK /\ StreamingIsActive /\ NumbersAreTaken /\ [Next]_vars => NumbersAreTaken'
<1> SUFFICES ASSUME TypeOK, StreamingIsActive, NumbersAreTaken, [Next]_vars,
                    NEW n \in Commands, Mentions(blocks', n)
             PROVE  n < next_command_sequence'
  BY DEF NumbersAreTaken, Mentions
<1>1. /\ next_command_sequence \in Nat /\ n \in Nat
      /\ next_command_sequence' \in {next_command_sequence, next_command_sequence + 1}
  BY NumbersGrow, BoundsAssumption DEF TypeOK, Commands
<1>2. LedgerStep
  BY EveryStepIsABlockStep, EveryStepIsALedgerStep
<1>3. CASE Mentions(blocks, n)
  BY <1>1, <1>3 DEF NumbersAreTaken
<1>4. CASE ~Mentions(blocks, n)
  <2>1. TakeSequence /\ n = next_command_sequence
    BY <1>2, <1>4 DEF LedgerStep
  <2> QED BY <1>1, <2>1 DEF TakeSequence
<1> QED BY <1>3, <1>4
------------------------------------------------------------------------------
(***************************************************************************)
(* The refinement.                                                         *)
(***************************************************************************)

\* The ledger, told by the number that runs and the numbers on the blocks.
Told(running, bs, n) ==
  IF n = running THEN "streaming" ELSE IF Mentions(bs, n) THEN "complete" ELSE "absent"

LEMMA LedgerIsTold ==
  ASSUME NEW bs \in Seq(Blocks), NEW a \in Actives, Streams(bs, a), NEW n \in Commands
  PROVE  LedgerOf(bs)[n] = Told(a.seq, bs, n)
<1>1. n # 0 /\ DOMAIN bs = 1..Len(bs)
  BY DEF Commands
<1>2. (\E i \in DOMAIN bs : bs[i].seq = n /\ bs[i].state = "Streaming") <=> n = a.seq
  <2>1. ASSUME NEW i \in 1..Len(bs), bs[i].seq = n, bs[i].state = "Streaming"
        PROVE  n = a.seq
    BY <2>1 DEF Streams
  <2>2. ASSUME n = a.seq
        PROVE  /\ a.block_index + 1 \in 1..Len(bs)
               /\ bs[a.block_index + 1].seq = n
               /\ bs[a.block_index + 1].state = "Streaming"
    BY <1>1, <2>2 DEF Streams, Actives
  <2> QED BY <1>1, <2>1, <2>2
<1>3. (\E i \in DOMAIN bs : bs[i].seq = n) <=> Mentions(bs, n)
  BY <1>1 DEF Mentions
<1> QED BY <1>2, <1>3 DEF LedgerOf, Told

LEMMA LedgerInitHolds == Init => Ledger!LedgerInit
<1> SUFFICES ASSUME Init PROVE LedgerOf(blocks) = [n \in Ledger!Commands |-> "absent"]
  BY DEF Ledger!LedgerInit
<1>1. DOMAIN blocks = {}
  BY DEF Init
<1> QED BY <1>1 DEF LedgerOf, Commands, Ledger!Commands

LEMMA LedgerNextHolds ==
  TypeOK /\ TypeOK' /\ StreamingIsActive /\ StreamingIsActive' /\ NumbersAreTaken /\ [Next]_vars
    => [Ledger!LedgerNext]_(LedgerOf(blocks))
<1> SUFFICES ASSUME TypeOK, TypeOK', StreamingIsActive, StreamingIsActive', NumbersAreTaken,
                    [Next]_vars
             PROVE  Ledger!LedgerNext \/ LedgerOf(blocks') = LedgerOf(blocks)
  OBVIOUS
<1> DEFINE L == LedgerOf(blocks)
           M == LedgerOf(blocks')
<1>1. /\ L = [n \in Commands |-> L[n]] /\ M = [n \in Commands |-> M[n]]
  BY DEF LedgerOf
<1>2. /\ \A n \in Commands : L[n] = Told(active.seq, blocks, n)
      /\ \A n \in Commands : M[n] = Told(active'.seq, blocks', n)
  <2>1. blocks \in Seq(Blocks) /\ active \in Actives /\ Streams(blocks, active)
    BY StreamsIsTheInvariant DEF TypeOK, Actives
  <2>2. blocks' \in Seq(Blocks) /\ active' \in Actives
    BY DEF TypeOK, Actives
  <2>3. Streams(blocks', active')
    BY <2>2 DEF StreamingIsActive, Streams, Row
  <2> QED BY <2>1, <2>2, <2>3, LedgerIsTold
<1>3. LedgerStep
  BY EveryStepIsABlockStep, EveryStepIsALedgerStep
<1>4. Ledger!Commands = Commands
  BY DEF Commands, Ledger!Commands
<1>5. active.seq \in Nat /\ (active.seq # 0 => active.seq \in Commands /\ Mentions(blocks, active.seq))
  <2>1. active.seq \in 0..MaxCommands
    BY DEF TypeOK
  <2>2. ASSUME active.seq # 0 PROVE Mentions(blocks, active.seq)
    <3>0. active.block_index \in Nat /\ Len(blocks) \in Nat
      BY DEF TypeOK
    <3>1. /\ active.block_index \in Nat /\ Len(blocks) \in Nat
          /\ active.block_index < Len(blocks)
          /\ blocks[active.block_index + 1].seq = active.seq
      BY <2>2, <3>0 DEF StreamingIsActive, Row
    <3>2. active.block_index + 1 \in 1..Len(blocks)
      BY <3>1
    <3> QED BY <3>1, <3>2 DEF Mentions
  <2> QED BY <2>1, <2>2, BoundsAssumption DEF Commands
<1> HIDE DEF L, M
<1>6. CASE /\ active'.seq = active.seq
           /\ \A n \in Commands : Mentions(blocks', n) <=> Mentions(blocks, n)
  <2>1. \A n \in Commands : M[n] = L[n]
    BY <1>2, <1>6 DEF Told
  <2>2. M = L
    BY <1>1, <2>1
  <2> QED BY <2>2 DEF L, M
<1>7. CASE /\ active.seq # 0 /\ active'.seq = 0
           /\ \A n \in Commands : Mentions(blocks', n) <=> Mentions(blocks, n)
  <2> DEFINE r == active.seq
  <2>1. r \in Commands /\ L[r] = "streaming"
    BY <1>2, <1>5, <1>7 DEF Told
  <2>2. \A n \in Commands : M[n] = IF n = r THEN "complete" ELSE L[n]
    BY <1>2, <1>5, <1>7 DEF Told, Commands
  <2>3. M = [L EXCEPT ![r] = "complete"]
    BY <1>1, <2>1, <2>2
  <2>4. Ledger!Settle(r)
    BY <2>1, <2>3 DEF Ledger!Settle, L, M
  <2> QED BY <1>4, <2>1, <2>4 DEF Ledger!LedgerNext
<1>8. CASE /\ TakeSequence
           /\ active'.seq \in {0, next_command_sequence}
           /\ \A n \in Commands :
                Mentions(blocks', n) <=> n = next_command_sequence \/ Mentions(blocks, n)
  <2> DEFINE r == next_command_sequence
             s == IF active'.seq = 0 THEN "complete" ELSE "streaming"
  <2>1. r \in Commands /\ active.seq = 0
    BY <1>8 DEF TakeSequence
  <2>2. \A n \in Commands : n # 0 /\ L[n] # "streaming"
    BY <1>2, <2>1 DEF Told, Commands
  <2>3. \A n \in Commands : n >= r => L[n] = "absent"
    <3> SUFFICES ASSUME NEW n \in Commands, n >= r PROVE L[n] = "absent"
      OBVIOUS
    <3>1. n \in Nat /\ r \in Nat
      BY <2>1 DEF Commands
    <3>2. ~Mentions(blocks, n)
      BY <3>1 DEF NumbersAreTaken
    <3> QED BY <1>2, <2>1, <2>2, <3>2 DEF Told
  <2>4. \A n \in Commands : M[n] = IF n = r THEN s ELSE L[n]
    BY <1>2, <1>8, <2>1, <2>2 DEF Told
  <2>5. M = [L EXCEPT ![r] = s]
    BY <1>1, <2>1, <2>4
  <2>6. Ledger!Submit(r, s)
    BY <1>4, <2>2, <2>3, <2>5 DEF Ledger!Submit, L, M
  <2> QED BY <1>4, <2>1, <2>6 DEF Ledger!LedgerNext
<1> QED BY <1>3, <1>5, <1>6, <1>7, <1>8 DEF LedgerStep

\* The session implements CommandLedger: whatever is asked of it and whatever
\* its shells do, commands are taken one at a time and in order, each has one
\* block, and that is closed once.
THEOREM SessionImplementsLedger == Spec => ImplementsLedger
<1>1. TypeOK /\ StreamingIsActive /\ NumbersAreTaken /\ [Next]_vars => NumbersAreTaken'
  BY NumbersStep
<1> QED BY <1>1, TypeCorrect, OneBlockStreams, NumbersInit, LedgerInitHolds, LedgerNextHolds, PTL
        DEF Spec, ImplementsLedger, Ledger!LedgerSpec
------------------------------------------------------------------------------
(***************************************************************************)
(* The exit status that a terminal session reports is the one with which   *)
(* the shell finished that command.                                        *)
(*                                                                         *)
(* Two arguments meet.  What waits in the event channel is true: a DONE    *)
(* marker names a command that has ended, and what has ended stays so      *)
(* (ShellInv).  And of all steps only handling such a marker closes a      *)
(* block with the text of its output (OnlyDoneCloses).                     *)
(***************************************************************************)
(***************************************************************************)
(* Commands in the shell.                                                  *)
(***************************************************************************)
Ended(n, ok) == ran[n] = (IF ok THEN "ok" ELSE "failed")

\* A typed line is in the terminal once, has a number that was given out, and
\* was not begun; the command in front has begun and not ended.
LinesWait ==
  /\ \A n \in Commands : n >= next_command_sequence => ran[n] = "no"
  /\ \A i \in 1..Len(tty) : tty[i] < next_command_sequence /\ ran[tty[i]] = "no"
  /\ \A i, j \in 1..Len(tty) : tty[i] = tty[j] => i = j
  /\ fg # 0 => fg < next_command_sequence /\ ran[fg] = "begun"

\* What a DONE marker says has happened.
MarkersAreTrue ==
  \A i \in 1..Len(events) :
    events[i].type = "done" => events[i].seq \in Commands /\ Ended(events[i].seq, events[i].ok)

ShellInv == LinesWait /\ MarkersAreTrue

LEMMA ShellInit == Init => ShellInv
<1> SUFFICES ASSUME Init PROVE ShellInv
  OBVIOUS
<1>1. Len(tty) = 0 /\ Len(events) = 0 /\ fg = 0 /\ \A n \in Commands : ran[n] = "no"
  BY DEF Init
<1> QED BY <1>1 DEF ShellInv, LinesWait, MarkersAreTrue

\* The types the proofs below need.
ShellTypes ==
  /\ events \in Seq(Events)
  /\ tty \in Seq(Commands)
  /\ fg \in 0..MaxCommands
  /\ ran \in [Commands -> {"no", "begun", "ok", "failed"}]
  /\ next_command_sequence \in 1..(MaxCommands + 1)

LEMMA TailFacts ==
  ASSUME NEW S, NEW s \in Seq(S), s # <<>>
  PROVE  /\ Tail(s) \in Seq(S) /\ Head(s) = s[1] /\ 1 \in 1..Len(s)
         /\ \A i \in 1..Len(Tail(s)) : i + 1 \in 1..Len(s) /\ Tail(s)[i] = s[i + 1]
OBVIOUS

\* Fewer typed lines, fewer events, no other command.
LEMMA LessStaysTrue ==
  ASSUME ShellTypes, ShellInv, ran' = ran, fg' \in {fg, 0},
         next_command_sequence' >= next_command_sequence, next_command_sequence' \in Nat,
         tty' \in {tty, <<>>} \/ (tty # <<>> /\ tty' = Tail(tty)),
         events' \in {events, <<>>} \/ (events # <<>> /\ events' = Tail(events))
  PROVE  ShellInv'
<1>1. /\ \A n \in Commands : n \in Nat
      /\ next_command_sequence \in Nat /\ fg \in Nat
      /\ \A i \in 1..Len(tty) : tty[i] \in Commands
  BY BoundsAssumption DEF ShellTypes, Commands
<1>2. LinesWait'
  <2>1. CASE tty' = tty
    BY <1>1, <2>1 DEF ShellInv, LinesWait
  <2>2. CASE tty' = <<>>
    BY <1>1, <2>2 DEF ShellInv, LinesWait
  <2>3. CASE tty # <<>> /\ tty' = Tail(tty)
    <3>1. /\ \A i \in 1..Len(tty') : i + 1 \in 1..Len(tty) /\ tty'[i] = tty[i + 1]
          /\ Len(tty') \in Nat /\ Len(tty) \in Nat
      BY <2>3, TailFacts DEF ShellTypes
    <3>2. /\ \A i \in 1..Len(tty) : tty[i] < next_command_sequence /\ ran[tty[i]] = "no"
          /\ \A i, j \in 1..Len(tty) : tty[i] = tty[j] => i = j
      BY DEF ShellInv, LinesWait
    <3>3. \A i \in 1..Len(tty') : tty'[i] < next_command_sequence' /\ ran'[tty'[i]] = "no"
      <4> SUFFICES ASSUME NEW i \in 1..Len(tty')
                   PROVE  tty'[i] < next_command_sequence' /\ ran'[tty'[i]] = "no"
        OBVIOUS
      <4>1. i + 1 \in 1..Len(tty) /\ tty'[i] = tty[i + 1]
        BY <3>1
      <4>2. tty[i + 1] < next_command_sequence /\ ran[tty[i + 1]] = "no" /\ tty[i + 1] \in Nat
        BY <1>1, <3>2, <4>1
      <4> QED BY <1>1, <4>1, <4>2
    <3>4. \A i, j \in 1..Len(tty') : tty'[i] = tty'[j] => i = j
      <4> SUFFICES ASSUME NEW i \in 1..Len(tty'), NEW j \in 1..Len(tty'), tty'[i] = tty'[j]
                   PROVE  i = j
        OBVIOUS
      <4>1. /\ i + 1 \in 1..Len(tty) /\ tty'[i] = tty[i + 1]
            /\ j + 1 \in 1..Len(tty) /\ tty'[j] = tty[j + 1]
        BY <3>1
      <4>2. i + 1 = j + 1
        BY <3>2, <4>1
      <4> QED BY <3>1, <4>2
    <3>5. /\ \A n \in Commands : n >= next_command_sequence' => ran'[n] = "no"
          /\ fg' # 0 => fg' < next_command_sequence' /\ ran'[fg'] = "begun"
      BY <1>1 DEF ShellInv, LinesWait
    <3> QED BY <3>3, <3>4, <3>5 DEF LinesWait
  <2> QED BY <2>1, <2>2, <2>3
<1>3. MarkersAreTrue'
  <2>1. CASE events' = events
    BY <2>1 DEF ShellInv, MarkersAreTrue, Ended
  <2>2. CASE events' = <<>>
    BY <2>2 DEF MarkersAreTrue
  <2>3. CASE events # <<>> /\ events' = Tail(events)
    <3>1. \A i \in 1..Len(events') : i + 1 \in 1..Len(events) /\ events'[i] = events[i + 1]
      BY <2>3, TailFacts DEF ShellTypes
    <3> QED BY <3>1 DEF ShellInv, MarkersAreTrue, Ended
  <2> QED BY <2>1, <2>2, <2>3
<1> QED BY <1>2, <1>3 DEF ShellInv

\* A true event joins the channel, or is lost; what has ended stays ended.
LEMMA SendStaysTrue ==
  ASSUME ShellTypes, MarkersAreTrue, NEW ev \in Events, Send(ev),
         ev.type = "done" => ev.seq \in Commands /\ Ended(ev.seq, ev.ok)',
         \A n \in Commands : ran[n] \in {"ok", "failed"} => ran'[n] = ran[n]
  PROVE  MarkersAreTrue'
<1>1. \A i \in 1..Len(events) :
        events[i].type = "done" => events[i].seq \in Commands /\ Ended(events[i].seq, events[i].ok)
  BY DEF MarkersAreTrue
<1>2. \A i \in 1..Len(events) :
        events[i].type = "done" =>
          events[i].seq \in Commands
            /\ ran'[events[i].seq] = (IF events[i].ok THEN "ok" ELSE "failed")
  BY <1>1 DEF Ended
<1>3. CASE ev.from \notin feeds
  <2>1. events' = events
    BY <1>3 DEF Send
  <2> QED BY <1>2, <2>1 DEF MarkersAreTrue, Ended
<1>4. CASE ev.from \in feeds
  <2>1. events' = Append(events, ev) /\ events \in Seq(Events)
    BY <1>4 DEF Send, ShellTypes
  <2>2. /\ Len(events') = Len(events) + 1 /\ events'[Len(events) + 1] = ev
        /\ \A i \in 1..Len(events) : events'[i] = events[i]
        /\ Len(events) \in Nat
    BY <2>1
  <2> QED BY <1>2, <2>2 DEF MarkersAreTrue, Ended
<1> QED BY <1>3, <1>4

LEMMA EventTyped ==
  ASSUME NEW type \in {"begin", "text", "done", "exited"}, NEW c \in Children,
         NEW seq \in 0..MaxCommands, NEW ok \in BOOLEAN
  PROVE  /\ Event(type, c, seq, ok) \in Events
         /\ Event(type, c, seq, ok).type = type
         /\ Event(type, c, seq, ok).seq = seq
         /\ Event(type, c, seq, ok).ok = ok
BY DEF Event, Events

\* A shell begins the line typed first.
LEMMA BeginStaysTrue ==
  ASSUME TypeOK, ShellTypes, ShellInv, ShellBegins
  PROVE  ShellInv'
<1> DEFINE h == Head(tty)
<1>1. /\ tty # <<>> /\ fg' = h /\ tty' = Tail(tty) /\ ran' = [ran EXCEPT ![h] = "begun"]
      /\ next_command_sequence' = next_command_sequence
      /\ Send(Event("begin", lastChild, h, FALSE)) /\ lastChild # NoChild
  BY DEF ShellBegins, ShellPrints, ShellRuns, runtimeVars
<1>2. /\ h = tty[1] /\ 1 \in 1..Len(tty) /\ h \in Commands
      /\ \A i \in 1..Len(tty') : i + 1 \in 1..Len(tty) /\ tty'[i] = tty[i + 1]
      /\ \A i \in 1..Len(tty) : tty[i] \in Commands
      /\ Len(tty) \in Nat /\ Len(tty') \in Nat
  BY <1>1, TailFacts DEF ShellTypes
<1>3. h \in 0..MaxCommands /\ lastChild \in Children
  BY <1>1, <1>2 DEF Commands, TypeOK, Children, NoChild
<1>n. next_command_sequence \in Nat /\ \A n \in Commands : n \in Nat
  BY BoundsAssumption DEF ShellTypes, Commands
<1> HIDE DEF h
<1>4. ran'[h] = "begun" /\ \A n \in Commands : n # h => ran'[n] = ran[n]
  BY <1>1, <1>2 DEF ShellTypes
<1>5. ran[h] = "no" /\ h < next_command_sequence
  BY <1>2 DEF ShellInv, LinesWait
<1>6. \A i \in 1..Len(tty') : tty'[i] # h
  <2> SUFFICES ASSUME NEW i \in 1..Len(tty'), tty'[i] = h PROVE FALSE
    OBVIOUS
  <2>1. i + 1 = 1
    BY <1>2 DEF ShellInv, LinesWait
  <2> QED BY <2>1
<1>7. LinesWait'
  <2>1. \A n \in Commands : n >= next_command_sequence' => ran'[n] = "no"
    BY <1>1, <1>n, <1>4, <1>5, <1>2 DEF ShellInv, LinesWait
  <2>2. \A i \in 1..Len(tty') : tty'[i] < next_command_sequence' /\ ran'[tty'[i]] = "no"
    BY <1>1, <1>2, <1>4, <1>6 DEF ShellInv, LinesWait
  <2>3. \A i, j \in 1..Len(tty') : tty'[i] = tty'[j] => i = j
    <3> SUFFICES ASSUME NEW i \in 1..Len(tty'), NEW j \in 1..Len(tty'), tty'[i] = tty'[j]
                 PROVE  i = j
      OBVIOUS
    <3>1. i + 1 = j + 1
      BY <1>2 DEF ShellInv, LinesWait
    <3> QED BY <1>2, <3>1
  <2>4. fg' # 0 => fg' < next_command_sequence' /\ ran'[fg'] = "begun"
    BY <1>1, <1>4, <1>5
  <2> QED BY <2>1, <2>2, <2>3, <2>4 DEF LinesWait
<1>8. MarkersAreTrue'
  <2> DEFINE ev == Event("begin", lastChild, h, FALSE)
  <2>1. ev \in Events /\ ev.type # "done" /\ Send(ev)
    BY <1>1, <1>3, EventTyped
  <2>2. \A n \in Commands : ran[n] \in {"ok", "failed"} => ran'[n] = ran[n]
    BY <1>4, <1>5
  <2> HIDE DEF ev
  <2> QED BY <2>1, <2>2, SendStaysTrue DEF ShellInv
<1> QED BY <1>7, <1>8 DEF ShellInv

\* The command in front ends, and its marker says how.
LEMMA FinishStaysTrue ==
  ASSUME TypeOK, ShellTypes, ShellInv, NEW ok \in BOOLEAN, ShellFinishes(ok)
  PROVE  ShellInv'
<1> DEFINE result == IF ok THEN "ok" ELSE "failed"
<1>1. /\ fg # 0 /\ fg' = 0 /\ tty' = tty /\ ran' = [ran EXCEPT ![fg] = result]
      /\ next_command_sequence' = next_command_sequence
      /\ Send(Event("done", lastChild, fg, ok)) /\ lastChild # NoChild
  BY DEF ShellFinishes, ShellPrints, ShellRuns, runtimeVars
<1>2. fg \in Commands /\ fg \in 0..MaxCommands /\ lastChild \in Children
  BY <1>1, BoundsAssumption DEF ShellTypes, Commands, TypeOK, Children, NoChild
<1>n. /\ next_command_sequence \in Nat /\ \A n \in Commands : n \in Nat
      /\ \A i \in 1..Len(tty) : tty[i] \in Commands
  BY BoundsAssumption DEF ShellTypes, Commands
<1>3. ran'[fg] = result /\ \A n \in Commands : n # fg => ran'[n] = ran[n]
  BY <1>1, <1>2 DEF ShellTypes
<1>4. ran[fg] = "begun" /\ fg < next_command_sequence
  BY <1>1 DEF ShellInv, LinesWait
<1>5. LinesWait'
  <2>1. \A n \in Commands : n >= next_command_sequence' => ran'[n] = "no"
    BY <1>1, <1>n, <1>2, <1>3, <1>4 DEF ShellInv, LinesWait
  <2>2. \A i \in 1..Len(tty') : tty'[i] < next_command_sequence' /\ ran'[tty'[i]] = "no"
    BY <1>1, <1>n, <1>3, <1>4 DEF ShellInv, LinesWait
  <2> QED BY <1>1, <2>1, <2>2 DEF ShellInv, LinesWait
<1>6. MarkersAreTrue'
  <2> DEFINE ev == Event("done", lastChild, fg, ok)
  <2>0. "done" \in {"begin", "text", "done", "exited"}
    OBVIOUS
  <2>1. ev \in Events /\ ev.seq = fg /\ ev.ok = ok /\ Send(ev)
    BY <1>1, <1>2, <2>0, EventTyped
  <2>2. ran'[fg] = (IF ok THEN "ok" ELSE "failed")
    BY <1>3
  <2>3. \A n \in Commands : ran[n] \in {"ok", "failed"} => ran'[n] = ran[n]
    BY <1>3, <1>4
  <2> HIDE DEF ev
  <2>4. ev.seq \in Commands /\ ran'[ev.seq] = (IF ev.ok THEN "ok" ELSE "failed")
    BY <1>2, <2>1, <2>2
  <2> QED BY <2>1, <2>3, <2>4, SendStaysTrue DEF ShellInv, Ended
<1> QED BY <1>5, <1>6 DEF ShellInv

\* A command is typed behind the others, under a number of its own.
LEMMA AcceptStaysTrue ==
  ASSUME ShellTypes, ShellInv, RunAccepted
  PROVE  ShellInv'
<1> DEFINE n == next_command_sequence
<1>1. /\ n \in Commands /\ next_command_sequence' = n + 1
      /\ tty' \in {tty, Append(tty, n)}
      /\ UNCHANGED <<events, fg, ran>>
  BY DEF RunAccepted, TakeSequence
<1>2. /\ n \in Nat /\ \A m \in Commands : m \in Nat
      /\ fg \in Nat /\ tty \in Seq(Commands)
      /\ \A i \in 1..Len(tty) : tty[i] \in Commands
  BY BoundsAssumption DEF ShellTypes, Commands
<1> HIDE DEF n
<1>3. ran[n] = "no" /\ \A i \in 1..Len(tty) : tty[i] < n /\ ran[tty[i]] = "no"
  BY <1>1, <1>2 DEF ShellInv, LinesWait, n
<1>4. LinesWait'
  <2>1. \A m \in Commands : m >= n + 1 => ran[m] = "no"
    BY <1>2 DEF ShellInv, LinesWait, n
  <2>2. fg # 0 => fg < n + 1 /\ ran[fg] = "begun"
    BY <1>2 DEF ShellInv, LinesWait, n
  <2>3. CASE tty' = tty
    <3>1. \A i \in 1..Len(tty) : tty[i] < n + 1 /\ ran[tty[i]] = "no"
      BY <1>2, <1>3
    <3>2. \A i, j \in 1..Len(tty) : tty[i] = tty[j] => i = j
      BY DEF ShellInv, LinesWait
    <3> QED BY <1>1, <2>1, <2>2, <2>3, <3>1, <3>2 DEF LinesWait
  <2>4. CASE tty' = Append(tty, n)
    <3>1. /\ Len(tty') = Len(tty) + 1 /\ tty'[Len(tty) + 1] = n /\ Len(tty) \in Nat
          /\ \A i \in 1..Len(tty) : tty'[i] = tty[i]
      BY <1>1, <1>2, <2>4
    <3>2. \A i \in 1..Len(tty') : tty'[i] < n + 1 /\ ran[tty'[i]] = "no"
      BY <1>2, <1>3, <3>1
    <3>3. \A i, j \in 1..Len(tty') : tty'[i] = tty'[j] => i = j
      <4> SUFFICES ASSUME NEW i \in 1..Len(tty'), NEW j \in 1..Len(tty'), tty'[i] = tty'[j]
                   PROVE  i = j
        OBVIOUS
      <4>1. CASE i \in 1..Len(tty) /\ j \in 1..Len(tty)
        BY <3>1, <4>1 DEF ShellInv, LinesWait
      <4>2. \A l \in 1..Len(tty) : tty'[l] # n
        BY <1>2, <1>3, <3>1
      <4> QED BY <3>1, <4>1, <4>2
    <3> QED BY <1>1, <2>1, <2>2, <3>2, <3>3 DEF LinesWait
  <2> QED BY <1>1, <2>3, <2>4
<1>5. MarkersAreTrue'
  BY <1>1 DEF ShellInv, MarkersAreTrue, Ended
<1> QED BY <1>4, <1>5 DEF ShellInv

LEMMA ShellStep == TypeOK /\ ShellInv /\ [Next]_vars => ShellInv'
<1> SUFFICES ASSUME TypeOK, ShellInv, [Next]_vars PROVE ShellInv'
  OBVIOUS
<1>t. ShellTypes
  BY DEF TypeOK, ShellTypes
<1>n. /\ next_command_sequence \in Nat /\ next_command_sequence + 1 \in Nat
      /\ next_command_sequence >= next_command_sequence
      /\ next_command_sequence + 1 >= next_command_sequence
  BY DEF TypeOK
<1>1. CASE RunCommand
  <2>1. CASE RunAccepted
    BY <1>t, <2>1, AcceptStaysTrue
  <2>2. CASE RunWhileBusy \/ RunScriptFails
    <3>1. /\ UNCHANGED <<events, tty, fg, ran>>
          /\ next_command_sequence' \in {next_command_sequence, next_command_sequence + 1}
      BY <2>2 DEF RunWhileBusy, RunScriptFails, TakeSequence, shellVars
    <3> QED BY <1>t, <1>n, <3>1, LessStaysTrue
  <2>3. ASSUME NEW text, RunFails(text) PROVE ShellInv'
    <3>1. UNCHANGED <<events, tty, fg, ran>> /\ next_command_sequence' = next_command_sequence + 1
      BY <2>3 DEF RunFails, TakeSequence, shellVars
    <3> QED BY <1>t, <1>n, <3>1, LessStaysTrue
  <2> QED BY <1>1, <2>1, <2>2, <2>3 DEF RunCommand
<1>2. ASSUME UNCHANGED <<events, next_command_sequence>>, CtrlC \/ UNCHANGED shellVars
      PROVE  ShellInv'
  <2>1. ran' = ran /\ fg' \in {fg, 0} /\ tty' \in {tty, <<>>}
    BY <1>2 DEF CtrlC, shellVars
  <2> QED BY <1>t, <1>n, <1>2, <2>1, LessStaysTrue
<1>3. ASSUME NEW key, NEW audited, WriteInput(key, audited) PROVE ShellInv'
  <2>1. UNCHANGED <<events, next_command_sequence>> /\ (CtrlC \/ UNCHANGED shellVars)
    BY <1>3 DEF WriteInput
  <2> QED BY <1>2, <2>1
<1>4. CASE Interrupt
  <2>1. UNCHANGED <<events, next_command_sequence>> /\ (CtrlC \/ UNCHANGED shellVars)
    BY <1>4 DEF Interrupt
  <2> QED BY <1>2, <2>1
<1>5. CASE Terminate \/ AckSessionRing
  BY <1>2, <1>5 DEF Terminate, AckSessionRing
<1>6. CASE Restart \/ StopTerminalRuntime
  <2>1. /\ events' = <<>> /\ ran' = ran /\ fg' \in {fg, 0} /\ tty' \in {tty, <<>>}
        /\ next_command_sequence' = next_command_sequence
    BY <1>6 DEF Restart, RestartSpawns, RestartFails, StopTerminalRuntime, shellVars
  <2> QED BY <1>t, <1>n, <2>1, LessStaysTrue
<1>7. ASSUME NEW size, Resize(size) \/ SyncMeasuredSize(size) PROVE ShellInv'
  <2>1. UNCHANGED <<events, next_command_sequence>> /\ UNCHANGED shellVars
    BY <1>7 DEF Resize, SyncMeasuredSize
  <2> QED BY <1>2, <2>1
<1>8. CASE HandleEvent \/ ProgramReadsLine
  <2>1. /\ ran' = ran /\ fg' = fg
        /\ tty' = tty \/ (tty # <<>> /\ tty' = Tail(tty))
        /\ events' = events \/ (events # <<>> /\ events' = Tail(events))
        /\ next_command_sequence' = next_command_sequence
    BY <1>8 DEF HandleEvent, ProgramReadsLine, shellVars, runtimeVars
  <2> QED BY <1>t, <1>n, <2>1, LessStaysTrue
<1>9. ASSUME ran' = ran, tty' = tty, fg' = fg, next_command_sequence' = next_command_sequence,
             NEW type \in {"text", "exited"}, NEW c \in Children, NEW seq \in 0..MaxCommands,
             Send(Event(type, c, seq, FALSE))
      PROVE  ShellInv'
  <2>1. LinesWait'
    BY <1>9 DEF ShellInv, LinesWait
  <2> DEFINE ev == Event(type, c, seq, FALSE)
  <2>2. type \in {"begin", "text", "done", "exited"} /\ FALSE \in BOOLEAN
    OBVIOUS
  <2>3. ev \in Events /\ ev.type # "done" /\ Send(ev)
    BY <1>9, <2>2, EventTyped
  <2> HIDE DEF ev
  <2>4. MarkersAreTrue'
    BY <1>t, <1>9, <2>3, SendStaysTrue DEF ShellInv
  <2> QED BY <2>1, <2>4 DEF ShellInv
<1>10. CASE ShellOutputs
  <2>1. /\ UNCHANGED <<ran, tty, fg, next_command_sequence>>
        /\ Send(Event("text", lastChild, fg, FALSE)) /\ lastChild # NoChild
    BY <1>10 DEF ShellOutputs, ShellPrints, ShellRuns, shellVars, runtimeVars
  <2>2. lastChild \in Children /\ fg \in 0..MaxCommands
    BY <2>1 DEF TypeOK, Children, NoChild
  <2> QED BY <1>9, <2>1, <2>2
<1>11. ASSUME NEW c \in Children, ChildDies(c) \/ ReaderEnds(c) PROVE ShellInv'
  <2>1. CASE ChildDies(c)
    <3>1. UNCHANGED <<events, next_command_sequence>> /\ UNCHANGED shellVars
      BY <2>1 DEF ChildDies, runtimeVars
    <3> QED BY <1>2, <3>1
  <2>2. CASE ReaderEnds(c)
    <3>1. UNCHANGED <<ran, tty, fg, next_command_sequence>>
      BY <2>2 DEF ReaderEnds, shellVars, runtimeVars
    <3>3. Send(Event("exited", c, 0, FALSE))
      BY <2>2 DEF ReaderEnds, SendExited
    <3>4. 0 \in 0..MaxCommands
      BY BoundsAssumption
    <3>2. "exited" \in {"text", "exited"}
      OBVIOUS
    <3> QED BY <1>9, <3>1, <3>2, <3>3, <3>4
  <2> QED BY <1>11, <2>1, <2>2
<1>12. CASE UNCHANGED vars
  <2>1. UNCHANGED <<events, next_command_sequence>> /\ UNCHANGED shellVars
    BY <1>12 DEF vars, runtimeVars
  <2> QED BY <1>2, <2>1
<1> QED BY <1>t, <1>1, <1>3, <1>4, <1>5, <1>6, <1>7, <1>8, <1>10, <1>11, <1>12,
           BeginStaysTrue, FinishStaysTrue
        DEF Next, Operation, Outside
------------------------------------------------------------------------------
(***************************************************************************)
(* What closes a block.                                                    *)
(***************************************************************************)
ClosingTexts == Texts \ {"empty", "output"}

\* Every block of bs is the same in cs or has a text that no output leaves.
ClosedWithNote(bs, cs) ==
  \A k \in 1..Len(bs) : \/ Numbered(cs, k) = Numbered(bs, k)
                        \/ Numbered(cs, k).text \in ClosingTexts

LEMMA OnTopCloses ==
  ASSUME NEW bs \in Seq(Blocks), NEW cs \in Seq(Blocks), NEW ds,
         Len(cs) = Len(bs) + 1, \A i \in 1..Len(bs) : cs[i + 1] = bs[i]
  PROVE  /\ ClosedWithNote(bs, cs)
         /\ Len(ds) = Len(bs) /\ ClosedWithNote(ds, bs) => ClosedWithNote(ds, cs)
         /\ ClosedWithNote(cs, ds) => ClosedWithNote(bs, ds)
<1>1. ASSUME NEW k \in 1..Len(bs)
      PROVE  k \in 1..Len(cs) /\ Numbered(cs, k) = Numbered(bs, k)
  <2>1. Len(bs) - k + 1 \in 1..Len(bs) /\ Len(cs) - k + 1 = (Len(bs) - k + 1) + 1
    OBVIOUS
  <2> QED BY <2>1 DEF Numbered
<1> QED BY <1>1 DEF ClosedWithNote

LEMMA FinishCloses ==
  ASSUME NEW bs \in Seq(Blocks), NEW a \in Actives, NEW text \in ClosingTexts
  PROVE  ClosedWithNote(bs, FinishCommand(bs, a, text))
<1> DEFINE fs == FinishCommand(bs, a, text)
<1>0. text \in Texts
  BY DEF ClosingTexts
<1>1. /\ fs \in Seq(Blocks) /\ Len(fs) = Len(bs)
      /\ \A i \in 1..Len(bs) : (a.seq = 0 \/ i # a.block_index + 1) => fs[i] = bs[i]
  BY <1>0, FinishCommandFacts
<1>2. ASSUME a.seq # 0, a.block_index + 1 \in 1..Len(bs)
      PROVE  fs[a.block_index + 1].text = text
  <2> DEFINE i == a.block_index + 1
             row == [bs[i] EXCEPT !.state = "Complete", !.text = text]
  <2>1. bs[i] \in Blocks
    BY <1>2
  <2>2. row.text = text
    BY <2>1 DEF Blocks
  <2>3. fs = [bs EXCEPT ![i] = row]
    BY <1>2 DEF FinishCommand, Edit
  <2> HIDE DEF row
  <2> QED BY <1>2, <2>2, <2>3
<1> HIDE DEF fs
<1>3. ASSUME NEW k \in 1..Len(bs)
      PROVE  Numbered(fs, k) = Numbered(bs, k) \/ Numbered(fs, k).text \in ClosingTexts
  <2>1. Len(bs) - k + 1 \in 1..Len(bs)
    OBVIOUS
  <2> QED BY <1>1, <1>2, <2>1 DEF Numbered
<1> QED BY <1>3 DEF ClosedWithNote, fs

\* Output leaves the states of all blocks, but for the running command's DONE.
LEMMA OutputCloses ==
  ASSUME blocks \in Seq(Blocks), active \in Actives, Streams(blocks, active),
         NEW ev \in Events, AppendActiveOutput(ev)
  PROVE  \/ \A k \in 1..Len(blocks) : Numbered(blocks', k).state = Numbered(blocks, k).state
         \/ /\ active.seq # 0 /\ ev.type = "done" /\ ev.seq = active.seq
            /\ Notify(IF ev.ok THEN "Complete" ELSE "Error")
<1>1. CASE UNCHANGED blocks
  BY <1>1
<1>2. ASSUME active.seq # 0, NEW text \in Texts,
             blocks' = Edit(blocks, active, Row(blocks, active).state, text)
      PROVE  \A k \in 1..Len(blocks) : Numbered(blocks', k).state = Numbered(blocks, k).state
  <2>1. active.block_index + 1 \in 1..Len(blocks) /\ Row(blocks, active).state = "Streaming"
    BY <1>2 DEF Streams, Actives, Row
  <2>2. /\ Len(blocks') = Len(blocks)
        /\ \A i \in 1..Len(blocks) : blocks'[i].state = blocks[i].state
    BY <1>2, <2>1, EditFacts DEF Row
  <2>3. \A k \in 1..Len(blocks) : Len(blocks) - k + 1 \in 1..Len(blocks)
    OBVIOUS
  <2> QED BY <2>2, <2>3 DEF Numbered
<1>3. {"noise", "output", "empty"} \subseteq Texts
  BY DEF Texts
<1> QED BY <1>1, <1>2, <1>3 DEF AppendActiveOutput, OwnMarker

\* Of all steps only the handling of a DONE marker closes a block with output.
LEMMA OnlyDoneCloses ==
  ASSUME TypeOK, StreamingIsActive, [Next]_vars
  PROVE  \/ ClosedWithNote(blocks, blocks')
         \/ \A k \in 1..Len(blocks) : Numbered(blocks', k).state = Numbered(blocks, k).state
         \/ /\ events # <<>> /\ active.seq # 0
            /\ Head(events).type = "done" /\ Head(events).seq = active.seq
            /\ Notify(IF Head(events).ok THEN "Complete" ELSE "Error")
<1>t. /\ blocks \in Seq(Blocks) /\ active \in Actives /\ Streams(blocks, active)
  BY StreamsIsTheInvariant DEF TypeOK, Actives
<1>texts. {"write failed", "not running", "interrupted", "terminated", "restarted",
           "shell exited"} \subseteq ClosingTexts
  BY DEF ClosingTexts, Texts
<1>1. CASE UNCHANGED blocks
  BY <1>1
<1>2. CASE LogSystemBlock
  BY <1>t, <1>2, AppendSystemBlockFacts, OnTopCloses DEF LogSystemBlock
<1>3. ASSUME NEW text \in ClosingTexts, CloseCommandAndLog(text)
      PROVE  ClosedWithNote(blocks, blocks')
  <2> DEFINE fs == FinishCommand(blocks, active, text)
  <2>1. fs \in Seq(Blocks) /\ Len(fs) = Len(blocks)
    BY <1>t, FinishCommandFacts DEF ClosingTexts
  <2>2. ClosedWithNote(blocks, fs)
    BY <1>t, FinishCloses
  <2>3. blocks' = AppendSystemBlock(fs)
    BY <1>3 DEF CloseCommandAndLog
  <2> HIDE DEF fs
  <2> QED BY <2>1, <2>2, <2>3, AppendSystemBlockFacts, OnTopCloses
<1>4. ASSUME TakeSequence
      PROVE  /\ WithCommandBlock \in Seq(Blocks) /\ Started \in Actives
             /\ Len(WithCommandBlock) = Len(blocks) + 1
             /\ \A i \in 1..Len(blocks) : WithCommandBlock[i + 1] = blocks[i]
  <2>1. next_command_sequence \in 0..MaxCommands
    BY <1>4, BoundsAssumption DEF Commands, TakeSequence
  <2> QED BY <1>t, <2>1, CommandBlockFacts DEF WithCommandBlock, Started, Actives
<1>5. CASE RunCommand
  <2>1. CASE RunWhileBusy \/ RunScriptFails
    BY <1>1, <2>1 DEF RunWhileBusy, RunScriptFails
  <2>2. CASE RunAccepted
    <3>1. TakeSequence /\ blocks' = WithCommandBlock
      BY <2>2 DEF RunAccepted
    <3> QED BY <1>t, <1>4, <3>1, OnTopCloses
  <2>3. ASSUME NEW text \in ClosingTexts, RunFails(text) PROVE ClosedWithNote(blocks, blocks')
    <3>1. TakeSequence /\ blocks' = FinishCommand(WithCommandBlock, Started, text)
      BY <2>3 DEF RunFails
    <3>2. ClosedWithNote(WithCommandBlock, blocks')
      BY <1>4, <3>1, FinishCloses
    <3> QED BY <1>t, <1>4, <3>1, <3>2, OnTopCloses
  <2> QED BY <1>5, <1>texts, <2>1, <2>2, <2>3 DEF RunCommand
<1>6. ASSUME NEW key, NEW audited, WriteInput(key, audited)
      PROVE  UNCHANGED blocks \/ LogSystemBlock
  BY <1>6 DEF WriteInput
<1>7. ASSUME NEW size, Resize(size) \/ SyncMeasuredSize(size)
      PROVE  UNCHANGED blocks \/ LogSystemBlock
  BY <1>7 DEF Resize, SyncMeasuredSize
<1>8. CASE Interrupt \/ Terminate \/ Restart
  <2>1. \/ LogSystemBlock
        \/ \E text \in {"interrupted", "terminated", "restarted"} : CloseCommandAndLog(text)
    BY <1>8 DEF Interrupt, Terminate, Restart
  <2> QED BY <1>texts, <1>2, <1>3, <2>1
<1>9. CASE HandleEvent
  <2>1. CASE HandleExited
    BY <1>t, <1>texts, <2>1, FinishCloses DEF HandleExited
  <2>2. CASE HandleOutput(Head(events))
    <3>1. events # <<>> /\ Head(events) \in Events
      BY <1>9 DEF HandleEvent, TypeOK
    <3>2. AppendActiveOutput(Head(events))
      BY <2>2 DEF HandleOutput
    <3> QED BY <1>t, <3>1, <3>2, OutputCloses
  <2> QED BY <1>9, <2>1, <2>2 DEF HandleEvent
<1>10. CASE AckSessionRing \/ StopTerminalRuntime \/ Outside \/ UNCHANGED vars
  <2>1. UNCHANGED blocks
    BY <1>10 DEF AckSessionRing, StopTerminalRuntime, Outside, ShellBegins, ShellOutputs,
                 ShellFinishes, ShellPrints, ProgramReadsLine, ChildDies, ReaderEnds, vars, runtimeVars
  <2> QED BY <1>1, <2>1
<1> QED BY <1>1, <1>2, <1>5, <1>6, <1>7, <1>8, <1>9, <1>10 DEF Next, Operation

LEMMA ExitStep ==
  ASSUME TypeOK, StreamingIsActive, ShellInv, [Next]_vars,
         NEW k \in 1..Len(blocks), ClosedByOutput(k)
  PROVE  LET n == Numbered(blocks, k).seq
         IN  /\ ran[n] \in {"ok", "failed"}
             /\ ring'.state = IF ran[n] = "ok" THEN "Complete" ELSE "Error"
<1>1. /\ Numbered(blocks, k).state = "Streaming" /\ Numbered(blocks', k).state = "Complete"
      /\ Numbered(blocks', k).text \notin ClosingTexts
  BY DEF ClosedByOutput, ClosingTexts
<1>2. /\ events # <<>> /\ active.seq # 0
      /\ Head(events).type = "done" /\ Head(events).seq = active.seq
      /\ ring'.state = IF Head(events).ok THEN "Complete" ELSE "Error"
  <2>1. ~ClosedWithNote(blocks, blocks')
    BY <1>1 DEF ClosedWithNote
  <2>2. ~\A j \in 1..Len(blocks) : Numbered(blocks', j).state = Numbered(blocks, j).state
    BY <1>1
  <2> QED BY <2>1, <2>2, OnlyDoneCloses DEF Notify, Updated
<1>3. Numbered(blocks, k).seq = active.seq
  <2>1. Len(blocks) - k + 1 \in 1..Len(blocks) /\ DOMAIN blocks = 1..Len(blocks)
    BY DEF TypeOK
  <2>2. Len(blocks) - k + 1 = active.block_index + 1
    BY <1>1, <2>1 DEF StreamingIsActive, Numbered
  <2> QED BY <1>2, <2>2 DEF StreamingIsActive, Row, Numbered
<1>4. Ended(Head(events).seq, Head(events).ok)
  <2>1. Head(events) = events[1] /\ 1 \in 1..Len(events)
    BY <1>2, TailFacts DEF TypeOK
  <2> QED BY <1>2, <2>1 DEF ShellInv, MarkersAreTrue
<1> QED BY <1>2, <1>3, <1>4 DEF Ended

\* When the output of a command closes its block, the shell has finished that
\* very command and the ring shows how: no late output of an interrupted
\* command, no earlier shell and no line that was swallowed can report for it.
THEOREM ReportsAreReal == Spec => ReportedExitIsReal
<1>1. TypeOK /\ StreamingIsActive /\ ShellInv /\ [Next]_vars =>
        [\A k \in 1..Len(blocks) : ClosedByOutput(k) =>
           LET n == Numbered(blocks, k).seq
           IN  /\ ran[n] \in {"ok", "failed"}
               /\ ring'.state = IF ran[n] = "ok" THEN "Complete" ELSE "Error"]_vars
  BY ExitStep
<1> QED BY <1>1, TypeCorrect, OneBlockStreams, ShellInit, ShellStep, PTL
        DEF Spec, ReportedExitIsReal
------------------------------------------------------------------------------
(***************************************************************************)
(* What forwarding a block leaves intact.  The steps of the session itself *)
(* are dealt with above; what is left is ForwardBlock.                     *)
(***************************************************************************)
\* A forwarded block goes on top of the blocks and is complete.
LEMMA ForwardedBlockFacts ==
  ASSUME TypeOK, ForwardBlock
  PROVE  /\ ForwardedBlock(blocks) \in Blocks
         /\ ForwardedBlock(blocks).state = "Complete"
         /\ blocks' \in Seq(Blocks)
         /\ Len(blocks') = Len(blocks) + 1
         /\ blocks'[1] = ForwardedBlock(blocks)
         /\ \A i \in 1..Len(blocks) : blocks'[i + 1] = blocks[i]
<1>1. ForwardedBlock(blocks) \in Blocks /\ ForwardedBlock(blocks).state = "Complete"
  <2>1. Len(blocks) + 1 \in Nat \ {0} /\ 0 \in 0..MaxCommands
    BY BoundsAssumption DEF TypeOK
  <2> QED BY <2>1 DEF ForwardedBlock, Block, Blocks
<1>2. blocks \in Seq(Blocks) /\ blocks' = <<ForwardedBlock(blocks)>> \o blocks
  BY DEF TypeOK, ForwardBlock
<1> QED BY <1>1, <1>2, OnTop

LEMMA ForwardBlockType == TypeOK /\ ForwardBlock => TypeOK'
<1> SUFFICES ASSUME TypeOK, ForwardBlock PROVE TypeOK'
  OBVIOUS
<1>1. ring' \in Rings
  BY NotifyType DEF ForwardBlock, TypeOK, Rings
<1> QED BY <1>1, ForwardedBlockFacts DEF TypeOK, ForwardBlock, shellVars, Rings

\* With no command running the index points nowhere, and no block streams.
LEMMA IdleForwardKeepsStreams ==
  ASSUME TypeOK, ForwardBlock, active.seq = 0, StreamingIsActive
  PROVE  StreamingIsActive'
<1>1. active' = active
  BY DEF ForwardBlock
<1>2. ASSUME NEW i \in 1..Len(blocks') PROVE blocks'[i].state # "Streaming"
  <2>1. CASE i = 1
    BY <2>1, ForwardedBlockFacts
  <2>2. CASE i # 1
    <3>0. Len(blocks) \in Nat /\ DOMAIN blocks = 1..Len(blocks)
      BY DEF TypeOK
    <3>1. i - 1 \in 1..Len(blocks) /\ (i - 1) + 1 = i
      BY <2>2, <3>0, ForwardedBlockFacts
    <3>2. blocks'[i] = blocks[i - 1]
      BY <3>1, ForwardedBlockFacts
    <3>3. blocks[i - 1].state # "Streaming"
      BY <3>0, <3>1 DEF StreamingIsActive
    <3> QED BY <3>2, <3>3
  <2> QED BY <2>1, <2>2
<1> QED BY <1>1, <1>2, ForwardedBlockFacts DEF StreamingIsActive

\* Forwarding to a session whose shell is idle is safe: as long as no block came
\* in while a command ran, the block that streams is the one active_command
\* points at (AgentHouseShell::forward_block leaves the index alone).
THEOREM ForwardingToIdleIsSafe == ForwardSpec => []SafeToForwardWhenIdle
<1> DEFINE Inv == TypeOK /\ SafeToForwardWhenIdle
<1>1. ForwardInit => Inv
  BY TypeInit, StreamsInit DEF ForwardInit, SafeToForwardWhenIdle
<1>2. Inv /\ [ForwardNext]_forwardVars => Inv'
  <2> SUFFICES ASSUME Inv, [ForwardNext]_forwardVars PROVE Inv'
    OBVIOUS
  <2>1. CASE ForwardBlock
    <3>1. TypeOK'
      BY <2>1, ForwardBlockType
    <3>2. ASSUME ~forwardedWhileBusy' PROVE StreamingIsActive'
      <4>1. ~forwardedWhileBusy /\ active.seq = 0
        BY <2>1, <3>2 DEF ForwardBlock
      <4> QED BY <2>1, <4>1, IdleForwardKeepsStreams DEF SafeToForwardWhenIdle
    <3> QED BY <3>1, <3>2 DEF SafeToForwardWhenIdle
  <2>2. CASE [Next]_vars /\ UNCHANGED forwardedWhileBusy
    <3>1. TypeOK' /\ BlockStep
      BY <2>2, TypeStep, EveryStepIsABlockStep
    <3> QED BY <2>2, <3>1, StreamsStep DEF SafeToForwardWhenIdle
  <2> QED BY <2>1, <2>2 DEF ForwardNext, forwardVars
<1> QED BY <1>1, <1>2, PTL DEF ForwardSpec
==============================================================================
