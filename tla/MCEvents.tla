------------------------------ MODULE MCEvents -------------------------------
(***************************************************************************)
(* A small instance of RecordEvents for TLC: two fields mapped to the same *)
(* event, an event the class does not declare, and listeners that may do   *)
(* anything while they are called.                                         *)
(***************************************************************************)
EXTENDS EventProperties

MCFieldEvents == <<<<"name", "changed">>, <<"age", "changed">>>>

Do(op, name, age, e) ==
  [op |-> op, upd |-> [f \in {"name", "age"} |-> IF f = "name" THEN name ELSE age], event |-> e]

MCMethods ==
  {Do("update", "value", "null", "update"), Do("update", "null", "same", "update"),
   Do("custom", "same", "same", "other")}
=============================================================================
