----------------------------- MODULE TextFields -----------------------------
(***************************************************************************)
(* The two text fields the shell edits itself: the address of a browser    *)
(* session and the name of a workspace.  The text is kept in UTF-8 and     *)
(* every offset the shell keeps counts its bytes; the input method of the  *)
(* platform counts UTF-16 units and composes text in place.  A slice of    *)
(* the text at an offset inside a character aborts the program.            *)
(*                                                                         *)
(* The fields share no state, so a behaviour follows one of them: `field'  *)
(* says which.  A text is a sequence of characters, a character is known   *)
(* by its two widths; schemes and layout are left out.                     *)
(***************************************************************************)
EXTENDS Integers, Sequences, FiniteSetsExt

CONSTANTS
    Chars,      \* the characters
    Bytes,      \* the width of a character in UTF-8
    Units,      \* its width in UTF-16
    Space,      \* the character that trim takes away
    Newline,    \* a character that no field takes in
    Typed,      \* the texts that keys, the clipboard and the input method bring
    Asked,      \* the UTF-16 ranges the input method may name
    Urls,       \* the addresses a page may have
    Workspaces, \* the workspaces
    FirstName,  \* the name each has at first
    None,       \* no text, range or workspace
    MaxText,    \* bound on the length of a text
    MaxRenames  \* bound on the names that are changed

ASSUME WidthsAssumption ==
    /\ Bytes \in [Chars -> 1 .. 4]
    /\ Units \in [Chars -> 1 .. 2]
    /\ {Space, Newline} \subseteq Chars
ASSUME InputsAssumption ==
    /\ Typed \subseteq Seq(Chars) /\ Urls \subseteq Seq(Chars)
    /\ \A r \in Asked : r.start \in Nat /\ r.end \in Nat
    /\ FirstName \in [Workspaces -> Seq(Chars)]
    /\ None \notin Seq(Chars)

VARIABLES
    field,     \* the field this behaviour follows
    url,       \* current_url of the browser session
    address,   \* browser_address_inputs and browser_address_edits
    rename,    \* workspace_rename_input
    names,     \* the names of the workspaces
    open,      \* the workspaces that are open
    active,    \* the active workspace
    renames,   \* how many names have changed
    panicked   \* a slice was not on characters

vars == <<field, url, address, rename, names, open, active, renames, panicked>>

-----------------------------------------------------------------------------
(* Offsets.                                                                *)

\* The width of the first k characters, for every k, and of all of them.
Widths(width, t) ==
    LET upTo[k \in 0 .. Len(t)] == IF k = 0 THEN 0 ELSE upTo[k - 1] + width[t[k]]
    IN  upTo
Total(width, t) == Widths(width, t)[Len(t)]

\* The byte offset after the first k characters, and the UTF-16 offset there.
ByteAt(t, k) == Total(Bytes, SubSeq(t, 1, k))
UnitAt(t, k) == Total(Units, SubSeq(t, 1, k))

Boundaries(t) == {ByteAt(t, k) : k \in 0 .. Len(t)}

\* A bug: an offset past the end is brought back, one inside a character kept.
ClampToLength(t, o) == IF o > ByteAt(t, Len(t)) THEN ByteAt(t, Len(t)) ELSE o
\* clamp_to_char_boundary
Clamp(t, o) == Max({b \in Boundaries(t) : b <= o})

Span(i, j) == [start |-> i, end |-> j]
ClampRange(t, r) ==
    LET i == Clamp(t, r.start)
        j == Clamp(t, r.end)
    IN  IF i <= j THEN Span(i, j) ELSE Span(j, i)

\* previous_text_boundary and next_text_boundary
Previous(t, o) == Max({0} \cup {b \in Boundaries(t) : b < Clamp(t, o)})
Following(t, o) == Min({ByteAt(t, Len(t))} \cup {b \in Boundaries(t) : b > Clamp(t, o)})

\* A bug: a character outside the basic plane is counted as one unit.
FromChars(t, o) == ByteAt(t, Min({o, Len(t)}))
\* offset_from_utf16: an offset between two surrogates goes past both.
FromUtf16(t, o) == ByteAt(t, Min({Len(t)} \cup {k \in 0 .. Len(t) : UnitAt(t, k) >= o}))
\* offset_to_utf16
ToUtf16(t, o) == UnitAt(t, Min({k \in 0 .. Len(t) : ByteAt(t, k) >= Clamp(t, o)}))

RangeFromUtf16(t, r) == Span(FromUtf16(t, r.start), FromUtf16(t, r.end))
RangeToUtf16(t, r) == Span(ToUtf16(t, r.start), ToUtf16(t, r.end))

\* Rust slices a string only on character boundaries, and in order.
Sliceable(t, r) == r.start \in Boundaries(t) /\ r.end \in Boundaries(t) /\ r.start <= r.end
CharsUpTo(t, o) == CHOOSE k \in 0 .. Len(t) : ByteAt(t, k) = o
Slice(t, r) == SubSeq(t, CharsUpTo(t, r.start) + 1, CharsUpTo(t, r.end))
Splice(t, r, new) ==
    IF Sliceable(t, r)
    THEN SubSeq(t, 1, CharsUpTo(t, r.start)) \o new \o SubSeq(t, CharsUpTo(t, r.end) + 1, Len(t))
    ELSE t    \* the program has aborted

\* sanitize_browser_address_insert_text, sanitize_workspace_name_insert_text
SanitizedUpTo(t) ==
    LET kept[k \in 0 .. Len(t)] ==
            IF k = 0 THEN <<>>
            ELSE IF t[k] = Newline THEN kept[k - 1] ELSE Append(kept[k - 1], t[k])
    IN  kept
Sanitized(t) == SanitizedUpTo(t)[Len(t)]

\* str::trim
Trimmed(t) ==
    LET kept == {k \in 1 .. Len(t) : t[k] \notin {Space, Newline}}
    IN  IF kept = {} THEN <<>> ELSE SubSeq(t, Min(kept), Max(kept))

-----------------------------------------------------------------------------
(* BrowserAddressEditState with the text it edits.  `text' is None while   *)
(* nothing is typed and the field shows something else; `composed' is not  *)
(* in the code: the text the input method has last marked.                 *)

Edit(t) == [text |-> t, sel |-> Span(0, 0), reversed |-> FALSE,
            marked |-> None, composed |-> None]
NoEdit == Edit(None)

Cursor(f) == IF f.reversed THEN f.sel.start ELSE f.sel.end
Marking(f) == f.marked # None
IsEmpty(r) == r.start = r.end

SelectAll(f) ==
    [f EXCEPT !.sel = Span(0, ByteAt(f.text, Len(f.text))), !.reversed = FALSE,
              !.marked = None, !.composed = None]

MoveTo(f, o) == [f EXCEPT !.sel = Span(o, o), !.reversed = FALSE]

\* browser_address_select_to, text_edit_select_to
SelectTo(f, o) ==
    LET r == IF f.reversed THEN Span(o, f.sel.end) ELSE Span(f.sel.start, o)
        turned == r.end < r.start
    IN  [f EXCEPT !.sel = IF turned THEN Span(r.end, r.start) ELSE r,
                  !.reversed = IF turned THEN ~@ ELSE @,
                  !.marked = None, !.composed = None]

\* clamp_to_text
ClampEdit(f) ==
    LET i == Clamp(f.text, f.sel.start)
        j == Clamp(f.text, f.sel.end)
    IN  [f EXCEPT !.sel = IF i <= j THEN Span(i, j) ELSE Span(j, i),
                  !.reversed = IF i <= j THEN @ ELSE ~@,
                  !.marked = IF @ = None THEN None ELSE ClampRange(f.text, @)]

\* The range an insertion takes the place of: the one given, the marked text
\* or the selection.
Target(f, asked) ==
    ClampRange(f.text, CASE asked # None -> asked
                         [] asked = None /\ Marking(f) -> f.marked
                         [] OTHER -> f.sel)

\* A bug: what was being composed stays marked.
InsertKeepingMark(f, asked, new) ==
    LET r == Target(f, asked)
        t == Sanitized(new)
    IN  [MoveTo(f, r.start + Total(Bytes, t)) EXCEPT !.text = Splice(f.text, r, t)]

\* replace_browser_address_text, replace_workspace_rename_text
Insert(f, asked, new) ==
    LET r == Target(f, asked)
        t == Sanitized(new)
    IN  [MoveTo(f, r.start + Total(Bytes, t)) EXCEPT
            !.text = Splice(f.text, r, t), !.marked = None, !.composed = None]

\* The range the input method asks for, in bytes.
AskedRange(f, r) == IF r = None THEN None ELSE RangeFromUtf16(f.text, r)

\* replace_and_mark_browser_address_text_utf16 and its twin
InsertMarked(f, asked, new, chosen) ==
    LET r == Target(f, AskedRange(f, asked))
        t == Sanitized(new)
        after == Splice(f.text, r, t)
        end == r.start + Total(Bytes, t)
        c == IF chosen = None THEN Span(end, end)
             ELSE LET n == RangeFromUtf16(t, chosen)
                  IN  Span(r.start + n.start, r.start + n.end)
    IN  [text |-> after, sel |-> ClampRange(after, c), reversed |-> FALSE,
         marked |-> IF t = <<>> THEN None ELSE Span(r.start, end),
         composed |-> IF t = <<>> THEN None ELSE t]

Unmarked(f) == [f EXCEPT !.marked = None, !.composed = None]

\* What Backspace and Delete take away.
Before(f) == IF IsEmpty(f.sel) THEN Span(Previous(f.text, Cursor(f)), Cursor(f)) ELSE f.sel
After(f) == IF IsEmpty(f.sel) THEN Span(Cursor(f), Following(f.text, Cursor(f))) ELSE f.sel

\* The offsets the arrow keys, Home and End move the cursor to.
Moves(f) == {Previous(f.text, Cursor(f)), Following(f.text, Cursor(f)),
             0, ByteAt(f.text, Len(f.text))}

\* The edits a field goes through in one key or one call of the input method,
\* each with the ranges it slices the text at.  While text is marked the
\* platform gives the keys to the input method.
Edited(f, result, ranges) == [field |-> result, sliced |-> {<<f.text, r>> : r \in ranges}]
InsertEdit(f, asked, new) == Edited(f, Insert(f, asked, new), {Target(f, asked)})
\* text_for_range of the input handler
Read(f, r) == Edited(f, f, {ClampRange(f.text, RangeFromUtf16(f.text, r))})

KeyEdits(f) ==
    {Edited(f, SelectAll(f), {}), Edited(f, f, IF IsEmpty(f.sel) THEN {} ELSE {f.sel})}
    \cup {InsertEdit(f, r, <<>>) : r \in {Before(f), After(f)}}
    \cup (IF IsEmpty(f.sel) THEN {}
          ELSE {Edited(f, Insert(f, f.sel, <<>>), {f.sel, Target(f, f.sel)})})
    \cup {InsertEdit(f, None, t) : t \in {Trimmed(t) : t \in Typed} \cup Typed}
    \cup {Edited(f, MoveTo(f, o), {}) : o \in {Clamp(f.text, o) : o \in Moves(f)}}
    \cup {Edited(f, SelectTo(f, o), {}) : o \in {Clamp(f.text, o) : o \in Moves(f)}}

ImeEdits(f) ==
    {Edited(f, Unmarked(f), {})}
    \cup {InsertEdit(f, AskedRange(f, r), t) : t \in Typed, r \in Asked \cup {None}}
    \cup {Edited(f, InsertMarked(f, r, t, c), {})
            : t \in Typed, r \in Asked \cup {None}, c \in Asked \cup {None}}
    \cup {Read(f, r) : r \in Asked}

\* A click puts the cursor on a character and ends no composition.
ClickEdits(f) == {Edited(f, MoveTo(f, o), {}) : o \in Boundaries(f.text)}

Edits(f) == (IF Marking(f) THEN {} ELSE KeyEdits(f)) \cup ImeEdits(f) \cup ClickEdits(f)

\* The edits that keep the text within the bound.
Bounded(f) == {e \in Edits(f) : Len(e.field.text) <= MaxText}
Panics(e) == \E s \in e.sliced : ~Sliceable(s[1], s[2])

-----------------------------------------------------------------------------
(* The address of a browser session.                                       *)

AddressShown == IF address.text = None THEN url ELSE address.text

\* ensure_browser_address_edit: the text typed is the address shown.
Ensured == ClampEdit([address EXCEPT !.text = AddressShown])

EditAddress ==
    /\ field = "address"
    /\ \E e \in Bounded(Ensured) : address' = e.field /\ panicked' = Panics(e)
    /\ UNCHANGED <<field, url, rename, names, open, active, renames>>

\* Escape: cancel_browser_address_edit
Cancel ==
    /\ field = "address"
    /\ ~Marking(address)
    /\ address' = NoEdit
    /\ UNCHANGED <<field, url, rename, names, open, active, renames, panicked>>

\* Enter: navigate_browser_from_ui.  The address navigated to is any of Urls.
Go(queued) ==
    /\ field = "address"
    /\ ~Marking(address)
    /\ Trimmed(AddressShown) # <<>>
    /\ IF queued
       THEN url' \in Urls /\ address' = NoEdit
       ELSE url' = url /\ address' = [Ensured EXCEPT !.text = Trimmed(AddressShown)]
    /\ UNCHANGED <<field, rename, names, open, active, renames, panicked>>

\* navigate_browser: an agent navigates, and what is typed is dropped.
AgentNavigates ==
    /\ field = "address"
    /\ url' \in Urls
    /\ address' = NoEdit
    /\ UNCHANGED <<field, rename, names, open, active, renames, panicked>>

\* apply_snapshot: the page has gone somewhere by itself.
PageMoves ==
    /\ field = "address"
    /\ url' \in Urls
    /\ UNCHANGED <<field, address, rename, names, open, active, renames, panicked>>

-----------------------------------------------------------------------------
(* The name of a workspace.                                                *)

NoRename == [workspace |-> None, edit |-> NoEdit]

\* begin_workspace_rename_from_ui
Begin(w) ==
    /\ field = "rename"
    /\ w \in open
    /\ rename' = [workspace |-> w, edit |-> SelectAll(Edit(names[w]))]
    /\ active' = w
    /\ UNCHANGED <<field, url, address, names, open, renames, panicked>>

EditName ==
    /\ field = "rename"
    /\ rename.workspace # None
    /\ \E e \in Bounded(rename.edit) :
         rename' = [rename EXCEPT !.edit = e.field] /\ panicked' = Panics(e)
    /\ UNCHANGED <<field, url, address, names, open, active, renames>>

\* Escape: cancel_workspace_rename_from_ui
CancelRename ==
    /\ field = "rename"
    /\ rename.workspace # None /\ ~Marking(rename.edit)
    /\ rename' = NoRename
    /\ UNCHANGED <<field, url, address, names, open, active, renames, panicked>>

\* A bug: the name goes to the workspace in front.
RenamedActive == active
\* The workspace commit_workspace_rename_from_ui looks for.
Renamed == rename.workspace

\* Enter, or a click that ends the rename (finish_workspace_rename_on_blur).
\* A blank name, and the name the workspace has, change nothing.
Commit ==
    /\ field = "rename"
    /\ rename.workspace # None
    /\ rename' = NoRename
    /\ LET name == Trimmed(rename.edit.text)
       IN  IF name # <<>> /\ Renamed \in open /\ name # names[Renamed]
           THEN /\ renames < MaxRenames
                /\ names' = [names EXCEPT ![Renamed] = name]
                /\ active' = Renamed
                /\ renames' = renames + 1
           ELSE UNCHANGED <<names, active, renames>>
    /\ UNCHANGED <<field, url, address, open, panicked>>

\* close_workspace_from_ui drops a rename, whichever workspace it is of.
Close(w) ==
    /\ field = "rename"
    /\ w \in open /\ open # {w}
    /\ open' = open \ {w}
    /\ active' \in IF active = w THEN open' ELSE {active}
    /\ rename' = NoRename
    /\ UNCHANGED <<field, url, address, names, renames, panicked>>

\* The folder is opened again, or an agent activates the workspace.
Activate(w) ==
    /\ field = "rename"
    /\ open' = open \cup {w}
    /\ active' = w
    /\ UNCHANGED <<field, url, address, rename, names, renames, panicked>>

-----------------------------------------------------------------------------
Init ==
    /\ field \in {"address", "rename"}
    /\ url \in Urls
    /\ address = NoEdit
    /\ rename = NoRename
    /\ names = FirstName
    /\ open = Workspaces
    /\ active \in Workspaces
    /\ renames = 0
    /\ panicked = FALSE

Next ==
    \/ EditAddress \/ Cancel \/ (\E queued \in BOOLEAN : Go(queued))
    \/ AgentNavigates \/ PageMoves
    \/ EditName \/ CancelRename \/ Commit
    \/ \E w \in Workspaces : Begin(w) \/ Close(w) \/ Activate(w)

Spec == Init /\ [][Next]_vars

-----------------------------------------------------------------------------
(* Properties.                                                             *)

\* No sequence of keys, clicks, compositions, navigations and page moves makes
\* the shell slice a text inside a character.  (clamp_to_char_boundary and the
\* places it is, and is not, called from)
NeverPanics == ~panicked

\* The selection told to the input method, asked back in its own units, is the
\* selection: what it replaces is what the user sees selected.
\* (range_to_utf16, range_from_utf16)
ImeMeansTheSelection ==
    \A f \in {rename.edit} \cup (IF address.text = None THEN {} ELSE {Ensured}) :
      f.text # None =>
        RangeFromUtf16(f.text, RangeToUtf16(f.text, f.sel)) = ClampRange(f.text, f.sel)

\* While text is marked it is what the input method last composed, so that the
\* next step of the composition replaces that and nothing else, although
\* clicks move the cursor and pages and agents change the address meanwhile.
\* (replace_and_mark_*, clamp_to_text, the places marked_range is reset)
MarkedIsComposed ==
    \A f \in {address, rename.edit} :
      Marking(f) => Sliceable(f.text, f.marked) /\ Slice(f.text, f.marked) = f.composed

\* A name changes only to what was typed for that workspace, and is never
\* blank, whichever workspace is in front when the rename ends.
\* (commit_workspace_rename_from_ui)
RenameIsWhatWasTyped ==
    [][\A w \in Workspaces : names'[w] # names[w] =>
         /\ rename.workspace = w
         /\ names'[w] = Trimmed(rename.edit.text)
         /\ names'[w] # <<>>]_vars
=============================================================================
