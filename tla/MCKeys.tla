------------------------------- MODULE MCKeys --------------------------------
(***************************************************************************)
(* Small instances of RecordKeys for TLC: a single and a composite key,    *)
(* with values that differ in case and in length.                          *)
(***************************************************************************)
EXTENDS KeyProperties

MCToken == {"id", "pos", ".", "a", "A", "0"}
MCLowerCase == [t \in MCToken |-> IF t = "A" THEN "a" ELSE t]
MCPrimaryKeys == {<<"id">>, <<"id", "pos">>}
MCValue == {<<"a">>, <<"A">>, <<"a", "a">>}
=============================================================================
