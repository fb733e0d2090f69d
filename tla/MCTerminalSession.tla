-------------------------- MODULE MCTerminalSession --------------------------
(***************************************************************************)
(* TerminalSession for TLC: two commands, two shells, and sizes by name.   *)
(***************************************************************************)
EXTENDS TerminalSession

MCSizes == {"80x24", "120x36"}
==============================================================================
