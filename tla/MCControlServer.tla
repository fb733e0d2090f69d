--------------------------- MODULE MCControlServer ---------------------------
(***************************************************************************)
(* ControlServer for TLC: the second line is of any kind, the others are   *)
(* requests.  Any client may write any line, so the line of another kind   *)
(* may be the first of its connection or not, and have lines after it.     *)
(***************************************************************************)
EXTENDS ControlServer

MCInputs == {[r \in 1..MaxRequests |-> IF r = 2 THEN k ELSE "request"] : k \in Kinds}
==============================================================================
