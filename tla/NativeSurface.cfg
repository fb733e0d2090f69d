SPECIFICATION Spec
CONSTANTS
    s1 = s1
    s2 = s2
    s3 = s3
    p1 = p1
    p2 = p2
    p3 = p3
    Sessions <- MCSessions
    Panes <- MCPanes
    PaneOf <- MCPaneOf
    GroupOf <- MCGroupOf
    Terminal = Terminal
    Host = Host
    Window = Window
    Nobody = Nobody
INVARIANTS MouseGoesToActivePane TypingReachesTheAddress ClosedPagesStayHidden
