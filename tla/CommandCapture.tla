---------------------------- MODULE CommandCapture ---------------------------
(***************************************************************************)
(* How the output of one command becomes the text of its block:            *)
(* append_active_output of agenthouse/src/shell.rs and the functions it    *)
(* calls, applied to the chunks that the reader thread's read() returns.   *)
(*                                                                         *)
(* The PTY is a stream of bytes and read() may return any prefix of what   *)
(* is there, so a chunk may end anywhere: within a line, a marker or an    *)
(* exit code.  The text is a sequence of tokens, the pieces a cut can      *)
(* separate: "nl" ends a line, begin1 begin2 and done1 done2 are the halves*)
(* of the BEGIN and DONE marker, decimal digits make the exit code, "echo" *)
(* is a prompt with the command's name, "<" starts the echo of a wrapped   *)
(* line, "%" is a bare prompt, status1 and status2 are the halves of the   *)
(* literal "$?" (with its quotes), "{k" and "k}" are the halves of a JSON  *)
(* object of kind k, and all other tokens are output.                      *)
(*                                                                         *)
(* Left out: escape sequences, blanks within a line, the limit on the size *)
(* of a block (retain_recent_utf8), and the block of a shell that exits    *)
(* before the DONE marker, which TerminalSession has.                      *)
(***************************************************************************)
EXTENDS Naturals, Sequences, SequencesExt

CONSTANTS
  Commands,  \* what is run: a "plain" command, or one that names "claude"
  Outputs,   \* what the command may print
  ExitCodes, \* what it may exit with: sequences of digits
  Reads      \* where reads end: "anywhere", or after whole "lines" only

ASSUME CaptureAssumption ==
  /\ Commands \subseteq {"plain", "claude"}
  /\ Reads \subseteq {"anywhere", "lines"}
  /\ \A ec \in ExitCodes : ec # <<>>

VARIABLES
  command,  \* what is run
  output,   \* what the command prints
  code,     \* and exits with
  reads,    \* where the reads of this command end
  unread,   \* what the reader thread has not read yet
  text,     \* block.text
  attached, \* the raw text in the file attached to the block, <<>> without one
  lost,     \* the file could not be written: its text is nowhere
  began,    \* ActiveTerminalCommand.began
  exit,     \* the exit code reported, <<>> while there is none
  state     \* block.state

vars == <<command, output, code, reads, unread, text, attached, lost, began, exit, state>>

Digits == {"0", "1", "2", "7"}
BeginMark == <<"begin1", "begin2">>
DoneMark == <<"done1", "done2">>
StatusMark == <<"status1", "status2">>

\* What the shell prints for the script of write_command_script.
Printed(out, ec) ==
  <<"echo", "nl">> \o BeginMark \o <<"nl">> \o out
    \o <<"nl">> \o DoneMark \o ec \o <<"nl", "echo">>
------------------------------------------------------------------------------
(***************************************************************************)
(* Lines of a text.  A line keeps its "nl"; the last may have none.        *)
(***************************************************************************)
Lines(t) ==
  LET more(ls, tok) == IF ls # <<>> /\ Last(Last(ls)) # "nl"
                       THEN Front(ls) \o <<Append(Last(ls), tok)>>
                       ELSE Append(ls, <<tok>>)
  IN FoldLeft(more, <<>>, t)

Body(line) == SelectSeq(line, LAMBDA tok : tok # "nl")
Blank(line) == Body(line) = <<>>
Has(line, mark) == \E i \in 1..Len(line) - 1 : SubSeq(line, i, i + 1) = mark
------------------------------------------------------------------------------
(***************************************************************************)
(* The functions append_active_output applies to the block's text.         *)
(***************************************************************************)
BeginAt(t) == {i \in 1..Len(t) - 1 : SubSeq(t, i, i + 1) = BeginMark}

\* discard_until_begin_marker: everything up to the end of the BEGIN line, or
\* to the end of the marker when the line's end has not arrived.
FromBegin(t) ==
  LET i    == CHOOSE i \in BeginAt(t) : \A j \in BeginAt(t) : i <= j
      rest == SubSeq(t, i + 2, Len(t))
      ends == {k \in 1..Len(rest) : rest[k] = "nl"}
  IN IF ends = {} THEN rest
     ELSE SubSeq(rest, 1 + CHOOSE k \in ends : \A l \in ends : k <= l, Len(rest))

\* completion_exit_code: the line is the marker and a number, whether or not
\* its end has arrived.
ExitCodeOf(line) == SubSeq(Body(line), 3, Len(Body(line)))
SloppyCompletion(line) == Len(line) > 1 /\ SubSeq(line, 1, 2) = DoneMark    \* mutant
IsCompletion(line) ==
  /\ Len(line) > 2
  /\ SubSeq(line, 1, 2) = DoneMark
  /\ Len(Body(line)) > 2
  /\ \A i \in 3..Len(Body(line)) : Body(line)[i] \in Digits
FirstCompletion(t) == SelectInSeq(Lines(t), IsCompletion)   \* 0: none

\* extract_completion_exit_code cuts the text at the first such line.
BeforeCompletion(t) ==
  LET first == FirstCompletion(t)
  IN IF first = 0 THEN t ELSE FlattenSeq(SubSeq(Lines(t), 1, first - 1))

\* Lines with a marker go, and so does any line with the literal "$?" of the
\* wrapper's echo, whoever printed it.  (skip_next_fragment never drops a line:
\* the branch that asks for it needs a "$?" that the first branch has taken.)
Marks == {BeginMark, DoneMark, StatusMark}
RemoveMarkerLines(t) ==
  FlattenSeq(SelectSeq(Lines(t), LAMBDA l : \A mark \in Marks : ~Has(l, mark)))

\* remove_echoed_command_lines (and the newlines sanitize_terminal_block_text
\* takes away): echoes go, and the blank lines after them, before the first
\* line and after the last; a line of a single "%" goes while nothing is kept;
\* every line left gets an end.
IsEcho(line) == "echo" \in ToSet(line) \/ Head(line) = "<"
IsPrompt(line) == Body(line) = <<"%">>
KeepLine(acc, line) ==
  IF acc.kept = <<>> /\ IsPrompt(line) THEN acc
  ELSE IF Blank(line)
  THEN IF acc.kept = <<>> \/ acc.echo \/ Blank(Last(acc.kept))
       THEN acc ELSE [acc EXCEPT !.kept = Append(@, line)]
  ELSE IF IsEcho(line) THEN [acc EXCEPT !.echo = TRUE]
  ELSE [kept |-> Append(acc.kept, line), echo |-> FALSE]
TrimEnd(ls) == IF ls # <<>> /\ Blank(Last(ls)) THEN Front(ls) ELSE ls
RemoveEchoes(t) ==
  LET kept == FoldLeft(KeepLine, [kept |-> <<>>, echo |-> FALSE], Lines(t)).kept
      ls   == TrimEnd(kept)
  IN FlattenSeq([i \in DOMAIN ls |-> Append(Body(ls[i]), "nl")])

Cleaned(t) == RemoveEchoes(RemoveMarkerLines(BeforeCompletion(t)))
------------------------------------------------------------------------------
(***************************************************************************)
(* finalize_command_block_text: the text of a command that is over is      *)
(* replaced by what the JSON objects in it say, when it looks like the     *)
(* output of claude.                                                       *)
(***************************************************************************)
\* The kinds clean_claude_json_text tells apart; "other" says nothing.
Kinds == {"result", "assistant", "delta", "other"}
Opening == [k \in Kinds |-> "{" \o k]
Closing == [k \in Kinds |-> k \o "}"]

\* looks_like_claude_output: the halves of an object meet within its type, so
\* a line end between them hides it.
LooksLikeClaude(t) ==
  \/ command = "claude"
  \/ \E k \in Kinds \ {"other"} : Has(t, <<Opening[k], Closing[k]>>)

\* parse_json_objects: the kinds of the objects in t, line ends within them
\* passed over.
Objects(t) ==
  LET b       == Body(t)
      found   == {i \in 1..Len(b) - 1 :
                    \E k \in Kinds : b[i] = Opening[k] /\ b[i + 1] = Closing[k]}
      starts  == SelectSeq([i \in DOMAIN b |-> i], LAMBDA i : i \in found)
  IN [j \in DOMAIN starts |-> CHOOSE k \in Kinds : Opening[k] = b[starts[j]]]

\* clean_claude_json_text: the first result, or else everything the assistant
\* said, or else every piece of the stream; <<>> when the code returns None.
OfKind(ks, k) == SelectSeq(ks, LAMBDA j : j = k)
Said(t) ==
  LET ks == Objects(t)
  IN IF "result" \in ToSet(ks) THEN <<"result">>
     ELSE IF "assistant" \in ToSet(ks) THEN OfKind(ks, "assistant")
     ELSE OfKind(ks, "delta")

Replaced(t) == LooksLikeClaude(t) /\ Said(t) # <<>>

\* What becomes of the block's text t: replaced, with t in a file when it can
\* be written, or left as it is.
Finalize(t) ==
  \/ /\ Replaced(t)
     /\ text' = Append(Said(t), "nl")
     /\ \/ attached' = t /\ lost' = lost
        \/ lost' = TRUE /\ attached' = attached
  \/ /\ ~Replaced(t)
     /\ text' = t
     /\ UNCHANGED <<attached, lost>>
------------------------------------------------------------------------------
\* append_active_output for one chunk.
CaptureOneChunk(chunk) ==                                                   \* mutant
  LET seen == began \/ BeginAt(chunk) # {}
      own  == IF began THEN chunk ELSE FromBegin(chunk)
      done == seen /\ FirstCompletion(own) # 0
  IN  /\ IF done THEN Finalize(Cleaned(own))
         ELSE /\ text' = IF seen THEN Cleaned(own) ELSE chunk
              /\ UNCHANGED <<attached, lost>>
      /\ began' = seen
      /\ exit' = IF done THEN ExitCodeOf(Lines(own)[FirstCompletion(own)]) ELSE exit
      /\ state' = IF done THEN "Complete" ELSE state
Capture(chunk) ==
  LET all  == text \o chunk
      seen == began \/ BeginAt(all) # {}
      own  == IF began THEN all ELSE FromBegin(all)
      done == seen /\ FirstCompletion(own) # 0
  IN  /\ IF done THEN Finalize(Cleaned(own))
         ELSE /\ text' = IF seen THEN Cleaned(own) ELSE all
              /\ UNCHANGED <<attached, lost>>
      /\ began' = seen
      /\ exit' = IF done THEN ExitCodeOf(Lines(own)[FirstCompletion(own)]) ELSE exit
      /\ state' = IF done THEN "Complete" ELSE state

MayEnd(n) == reads = "anywhere" \/ n = Len(unread) \/ unread[n] = "nl"

\* A read of the first n tokens.  Once the command is over its block gets
\* nothing more.
Read(n) ==
  /\ MayEnd(n)
  /\ unread' = SubSeq(unread, n + 1, Len(unread))
  /\ IF state = "Streaming" THEN Capture(SubSeq(unread, 1, n))
     ELSE UNCHANGED <<text, attached, lost, began, exit, state>>
  /\ UNCHANGED <<command, output, code, reads>>

Init ==
  /\ command \in Commands
  /\ output \in Outputs
  /\ code \in ExitCodes
  /\ reads \in Reads
  /\ unread = Printed(output, code)
  /\ text = <<>>
  /\ attached = <<>>
  /\ lost = FALSE
  /\ began = FALSE
  /\ exit = <<>>
  /\ state = "Streaming"

Next == \E n \in 1..Len(unread) : Read(n)

Spec == Init /\ [][Next]_vars
------------------------------------------------------------------------------
(***************************************************************************)
(* Properties.                                                             *)
(***************************************************************************)
Tokens(t) == SelectSeq(t, LAMBDA tok : tok \notin {"nl", "done1", "done2"} \cup Digits)
OutputLines(t) == SelectSeq([i \in DOMAIN Lines(t) |-> Body(Lines(t)[i])],
                            LAMBDA l : l # <<>>)
\* The lines of the output that no text function takes away: not an echo, no
\* "$?" in them, and no bare "%" before the first of them.
KeptLines(out) ==
  LET ls    == SelectSeq(OutputLines(out), LAMBDA l : ~IsEcho(l) /\ ~Has(l, StatusMark))
      first == SelectInSeq(ls, LAMBDA l : ~IsPrompt(l))
  IN IF first = 0 THEN <<>> ELSE SubSeq(ls, first, Len(ls))
\* The block's text, or the text a file keeps of it.
Kept == IF attached # <<>> THEN attached ELSE text
UpToCode == SubSeq(Printed(output, <<>>), 1, Len(Printed(output, <<>>)) - 2)
ReadSoFar == SubSeq(Printed(output, code), 1, Len(Printed(output, code)) - Len(unread))

\* Wherever the reads end, a block is closed only after the shell printed the
\* whole DONE marker and at least one digit, and the exit code reported is the
\* real one or its first digits.
ClosedOnlyByMarker ==
  state = "Complete" =>
    /\ exit # <<>>
    /\ IsPrefix(exit, code)
    /\ IsPrefix(UpToCode \o exit, ReadSoFar)


\* With reads that end where lines end, a command whose output was read is over
\* for the runtime too: its block is closed with the exit code of the command,
\* and has the lines the command printed, however many chunks they came in,
\* without blank lines, lines taken for echoes, lines with a literal "$?" and
\* bare "%" lines at the start; or, if these lines look like claude's, what the
\* JSON in them says.  Any step on the way may spoil this: the text is cleaned
\* again with every chunk, and a marker or an object may come in two.
AlignedReadsAreExact ==
  reads = "lines" /\ unread = <<>> =>
    LET printed == FlattenSeq([i \in DOMAIN KeptLines(output) |->
                                 Append(KeptLines(output)[i], "nl")])
    IN  /\ state = "Complete"
        /\ exit = code
        /\ IF Replaced(printed) THEN text = Append(Said(printed), "nl")
           ELSE OutputLines(text) = KeptLines(output)
==============================================================================
