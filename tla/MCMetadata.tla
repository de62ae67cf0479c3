----------------------------- MODULE MCMetadata ------------------------------
(***************************************************************************)
(* Small instances of Metadata for TLC.                                    *)
(***************************************************************************)
EXTENDS MetadataProperties, TLC

Do(op, p) == [op |-> op, on |-> p, cached |-> FALSE]
CachedLoad(p) == [Do("load", p) EXCEPT !.cached = TRUE]

(* Two first calls of one process, a call of another, and one that clears  *)
(* the shared item in between.                                             *)
ColdTasks ==
  "a" :> {Do("load", "p"), CachedLoad("p")} @@
  "b" :> {Do("insert", "p")} @@
  "c" :> {Do("load", "q"), Do("clear", "q")}

(* A load and an insert are the first calls of one process.                *)
FirstInsertTasks == "a" :> {Do("load", "p")} @@ "b" :> {Do("insert", "p")}
=============================================================================
