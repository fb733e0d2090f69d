-------------------------- MODULE MCCommandCapture ---------------------------
(***************************************************************************)
(* CommandCapture for TLC: no output, one line, two lines with and without *)
(* a blank line between them, a line without an end, a line that starts    *)
(* with "<", bare "%" lines before and after a line, a line with "$?", and *)
(* JSON: objects of each kind, on one line, on two, and in two lines; exit *)
(* codes of one and of three digits.                                           *)
(***************************************************************************)
EXTENDS CommandCapture

Object(k) == <<Opening[k], Closing[k]>>

MCOutputs == {<<>>, <<"a", "b", "nl">>, <<"a", "nl", "b", "nl">>,
              <<"a", "nl", "nl", "nl", "b", "c">>, <<"nl", "a", "b">>,
              <<"<", "a", "nl", "b", "nl">>, <<"a", "nl", "<", "nl", "nl", "b">>,
              <<"%", "nl", "a", "nl", "%", "nl">>, <<"%", "a", "nl">>,
              <<"a", "nl", "b", "status1", "status2", "nl", "%", "nl">>,
              Object("delta") \o <<"nl">> \o Object("delta") \o <<"nl">>,
              <<"a", "nl">> \o Object("other") \o <<"nl">>,
              <<Opening["delta"], "nl", Closing["delta"], "nl">>,
              Object("assistant") \o Object("delta") \o <<"nl">> \o Object("result")}
MCExitCodes == {<<"0">>, <<"1", "2", "7">>}
==============================================================================
