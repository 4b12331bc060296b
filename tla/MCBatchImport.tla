--------------------------- MODULE MCBatchImport ----------------------------
(***************************************************************************)
(* Three imports of lists over three phones: with a phone twice under two  *)
(* spellings and two names, with a blank row, overlapping, and two that    *)
(* are refused.                                                            *)
(***************************************************************************)
EXTENDS BatchImport, TLC

CONSTANTS i1, i2, i3, p1, p2, p3

MCImports == {i1, i2, i3}
MCSpellings == {"1", "1 ", "2", "3", " "}
MCTrim == ("1" :> p1) @@ ("1 " :> p1) @@ ("2" :> p2) @@ ("3" :> p3) @@ (" " :> NoPhone)

From(wellFormed, spellings) ==
  [wellFormed |-> wellFormed,
   rows |-> [k \in DOMAIN spellings |->
               [phone |-> spellings[k], name |-> IF k = 1 THEN "Ann" ELSE "Bob"]]]

MCBodies ==
  {From(TRUE, <<"1", "1 ", " ", "2">>), From(TRUE, <<"2", "3">>), From(TRUE, <<"3", "1 ">>),
   From(TRUE, <<" ">>), From(TRUE, <<"1", "2", "3", "1", "2">>), From(FALSE, <<"1">>)}

Symmetric == Permutations(MCImports)
=============================================================================
