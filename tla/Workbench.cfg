SPECIFICATION Spec
CONSTANTS
  Roots = {r1, r2}
  Kinds = {"terminal", "web"}
  MaxWorkspacePanes = 3
  MaxWorkspaces = 2
  MaxWindows = 3
  MaxTabs = 2
  MaxTorn = 1
SYMMETRY FolderSymmetry
INVARIANTS
  NoStrayRuntime
  TabsAreWhole
  OneOpenPerFolder
  PaneTreesAreSound
PROPERTIES
  PanesKeepTheirPlaces
  StartBringsBack
CHECK_DEADLOCK FALSE
