---------------------------- MODULE MCListPages -----------------------------
(***************************************************************************)
(* Three rows, walked in pages of one or two, while two others come, go or *)
(* change; the texts hold the characters LIKE gives a meaning, and a letter *)
(* in both cases.                                                          *)
(***************************************************************************)
EXTENDS ListPages

CONSTANTS me, u2

MCUsers == {me, u2}
MCCharacters == {"a", "A", "%", "_", "\\"}
MCLower == [c \in MCCharacters |-> IF c = "A" THEN "a" ELSE c]

MCFirstTexts == {<< <<"a">>, <<"A", "%">>, <<"\\">> >>,
                 << <<"A", "_", "A">>, <<"%">>, <<"a", "a", "\\", "%">> >>}
MCNewTexts == {<<"a">>, <<"_", "\\">>}
MCNeedles == {<<>>, <<"a">>, <<"A">>, <<"%">>, <<"_">>, <<"\\">>}
=============================================================================
