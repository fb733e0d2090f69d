---------------------------- MODULE MCTextFields ----------------------------
(* Characters of three and four bytes, a blank and a line break for TLC.   *)
EXTENDS TextFields

CONSTANTS han, face, blank, line, w1, w2

MCChars == {han, face, blank, line}
MCBytes == [c \in MCChars |-> CASE c = han -> 3 [] c = face -> 4 [] OTHER -> 1]
MCUnits == [c \in MCChars |-> IF c = face THEN 2 ELSE 1]
MCTyped == {<<>>, <<han>>, <<face>>, <<blank, line>>}
\* Around the characters, between two surrogates, and past the end.
MCAsked == {Span(0, 1), Span(1, 2), Span(2, 5)}
MCUrls == {<<han>>, <<face, han>>}
MCWorkspaces == {w1, w2}
MCFirstName == [w \in MCWorkspaces |-> IF w = w1 THEN <<face>> ELSE <<han, han>>]
=============================================================================
