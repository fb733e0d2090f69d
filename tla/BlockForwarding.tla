--------------------------- MODULE BlockForwarding ---------------------------
(***************************************************************************)
(* A terminal session that other sessions forward blocks to.               *)
(*                                                                         *)
(* AgentHouseShell::forward_block copies a block of a source session and   *)
(* puts the copy on top of the blocks of the target session.  It works on  *)
(* the view of the target, not through TerminalRuntime::append_system_block,*)
(* so the index of the target's running command stays where it was.        *)
(***************************************************************************)
EXTENDS TerminalSession

VARIABLE forwardedWhileBusy  \* a block came in while a command ran here

forwardVars == <<vars, forwardedWhileBusy>>

ForwardedBlock(bs) == Block(Len(bs) + 1, "AgentOutput", 0, "Complete", "note")

\* The session is the target; the source block is one of another session, or
\* one of this session's own.
ForwardBlock ==
  /\ open
  /\ RoomForBlock
  /\ blocks' = <<ForwardedBlock(blocks)>> \o blocks
  /\ Notify("Complete")
  /\ forwardedWhileBusy' = (forwardedWhileBusy \/ active.seq # 0)
  /\ UNCHANGED <<open, terminal, events, feeds, active, next_command_sequence,
                 status, grid, winsize, lastChild, child, shellVars>>

ForwardInit == Init /\ forwardedWhileBusy = FALSE
ForwardNext == ForwardBlock \/ (Next /\ UNCHANGED forwardedWhileBusy)
ForwardSpec == ForwardInit /\ [][ForwardNext]_forwardVars

\* As long as blocks are forwarded to a session only while no command runs
\* there, its running command's block is the one that streams and is the one
\* active_command points at, for all commands before and after.
SafeToForwardWhenIdle == ~forwardedWhileBusy => StreamingIsActive

==============================================================================
