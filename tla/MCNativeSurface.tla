--------------------------- MODULE MCNativeSurface ---------------------------
(* Two workspaces, three panes and three web sessions for TLC.             *)
EXTENDS NativeSurface

CONSTANTS s1, s2, s3, p1, p2, p3

MCSessions == {s1, s2, s3}
MCPanes == {p1, p2, p3}
MCPaneOf == [s \in MCSessions |-> IF s = s3 THEN p2 ELSE p1]
MCGroupOf == [p \in MCPanes |-> IF p = p3 THEN 2 ELSE 1]
=============================================================================
