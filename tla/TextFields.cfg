SPECIFICATION Spec
CONSTANTS
    han = han
    face = face
    blank = blank
    line = line
    w1 = w1
    w2 = w2
    Chars <- MCChars
    Bytes <- MCBytes
    Units <- MCUnits
    Space = blank
    Newline = line
    Typed <- MCTyped
    Asked <- MCAsked
    Urls <- MCUrls
    Workspaces <- MCWorkspaces
    FirstName <- MCFirstName
    None = None
    MaxText = 2
    MaxRenames = 1
INVARIANTS NeverPanics ImeMeansTheSelection MarkedIsComposed
PROPERTY RenameIsWhatWasTyped
