------------------------- MODULE MCBlockForwarding ---------------------------
(***************************************************************************)
(* BlockForwarding for TLC, with the sizes of MCTerminalSession.           *)
(***************************************************************************)
EXTENDS BlockForwarding

MCSizes == {"80x24", "120x36"}
==============================================================================
