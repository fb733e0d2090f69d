----------------------------- MODULE PaneLayout -----------------------------
(***************************************************************************)
(* The pane tree of a workspace (PaneLayoutNode and the pane_layout_*      *)
(* functions of agenthouse/src/shell.rs).                                  *)
(*                                                                         *)
(* A tree is the function from the paths of its nodes to the nodes: <<>>   *)
(* is the root, 1 goes to `first' and 2 to `second'.  A leaf shows a       *)
(* window, a split has an id.  No layout (None) is the empty tree.         *)
(* Directions and ratios are left out: nothing here depends on them.       *)
(***************************************************************************)
EXTENDS Naturals, Sequences, SequencesExt

NoTree == [p \in {} |-> 0]
LeafNode(w) == [split |-> FALSE, id |-> w]
SplitNode(n) == [split |-> TRUE, id |-> n]

LeafPaths(tree) == {p \in DOMAIN tree : ~tree[p].split}
SplitPaths(tree) == {p \in DOMAIN tree : tree[p].split}

\* pane_layout_collect_window_ids
WindowsShown(tree) == {tree[p].id : p \in LeafPaths(tree)}
SplitIds(tree) == {tree[p].id : p \in SplitPaths(tree)}

\* Where the node at path p moves to: up past the splits that went, so that of
\* the turns on the way to it only those at forks are left.
NewPath(p, forks) ==
  LET path[n \in 0 .. Len(p)] ==
        IF n = 0 THEN <<>>
        ELSE IF SubSeq(p, 1, n - 1) \in forks THEN Append(path[n - 1], p[n]) ELSE path[n - 1]
  IN  path[Len(p)]

\* pane_layout_prune: a split stays only where both its sides still show a
\* valid window, and every node moves up past the splits that went.
PruneKeeping(tree, leaves) ==
  LET alive(p) == \E l \in leaves : IsPrefix(p, l)
      forks == {p \in SplitPaths(tree) : alive(Append(p, 1)) /\ alive(Append(p, 2))}
      kept == leaves \cup forks
  IN  [q \in {NewPath(p, forks) : p \in kept} |->
         tree[CHOOSE p \in kept : NewPath(p, forks) = q]]

Prune(tree, valid) ==
  PruneKeeping(tree, {p \in LeafPaths(tree) : tree[p].id \in valid})

\* pane_layout_append_leaf: the new window is the second half of a new root.
AppendLeaf(tree, w, splitId) ==
  IF tree = NoTree THEN [p \in {<<>>} |-> LeafNode(w)]
  ELSE [p \in {<<>>, <<2>>} \cup {<<1>> \o q : q \in DOMAIN tree} |->
          CASE p = <<>>  -> SplitNode(splitId)
            [] p = <<2>> -> LeafNode(w)
            [] OTHER     -> tree[Tail(p)]]

\* pane_layout_replace_leaf as split_pane_layout_for_window uses it: the leaf
\* at path p becomes a split of its window and the new one.
SplitLeaf(tree, p, w, splitId) ==
  [q \in DOMAIN tree \cup {Append(p, 1), Append(p, 2)} |->
     CASE q = p            -> SplitNode(splitId)
       [] q = Append(p, 1) -> tree[p]
       [] q = Append(p, 2) -> LeafNode(w)
       [] OTHER            -> tree[q]]

\* one window of reconcile_pane_layout_for_workspace: it gets a pane if it has
\* none; next is next_pane_split_id
ShowWindow(l, w) ==
  IF w \in WindowsShown(l.tree) THEN l
  ELSE [tree |-> AppendLeaf(l.tree, w, l.next),
        next |-> IF l.tree = NoTree THEN l.next ELSE l.next + 1]

\* reconcile_pane_layout_for_workspace for a workspace with these windows, in
\* their order, up to the i-th of them.  The last branch of the code,
\* pane_layout_for_windows, is never reached: a tree that is still missing
\* after the loop had no window to append.
ReconciledUpTo(tree, windows, next) ==
  LET l[i \in 0 .. Len(windows)] ==
        IF i = 0 THEN [tree |-> Prune(tree, ToSet(windows)), next |-> next]
        ELSE ShowWindow(l[i - 1], windows[i])
  IN  l
ReconciledForgetful(tree, windows, next) ==                                 \* mutant
  FoldLeft(LAMBDA l, w : [tree |-> AppendLeaf(l.tree, w, l.next),
                          next |-> IF l.tree = NoTree THEN l.next ELSE l.next + 1],
           [tree |-> NoTree, next |-> next], windows)
Reconciled(tree, windows, next) == ReconciledUpTo(tree, windows, next)[Len(windows)]
=============================================================================
